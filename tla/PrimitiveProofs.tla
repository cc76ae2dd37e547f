--------------------------- MODULE PrimitiveProofs ---------------------------
(***************************************************************************)
(* Three primitives the daemon is built on, which share no state: the      *)
(* named locks, State.Wait, and the health checks of a container.          *)
(*                                                                         *)
(* Locker is correct for any set of names and any finite set of            *)
(* goroutines.  The argument: the count of a lockCtr is exactly the number *)
(* of goroutines between inc() and dec() on it, so Unlock deletes an entry *)
(* only when no goroutine waits on its lockCtr, and whoever waits for a    *)
(* name or holds it does so on the lockCtr that the map still holds.       *)
(*                                                                         *)
(* ContainerWait is correct for any set of waiters and of exit codes.  The *)
(* argument: a waiter that blocks with no closed channel has captured the  *)
(* channels that are current now, so the next close reaches it; and once a *)
(* removal has been attempted the container is dead, so nothing but a      *)
(* successful removal clears the error that the attempt left.              *)
(*                                                                         *)
(* The health of a container is the health of its current run, for any     *)
(* number of monitor goroutines that still end, and any Retries.  The      *)
(* argument: only the monitor with the open channel has its results        *)
(* applied, and since that channel was made after the last start, a probe  *)
(* it has under way belongs to this run.                                   *)
(***************************************************************************)
EXTENDS Locker, ContainerWait, HealthMonitor, TLAPS, FiniteSetTheorems

\* The goroutines counted in c.waiters.
Counted(c) == {p \in Procs : procPc[p] \in {"waiting", "acquired"} /\ nameLock[p] = c}

CountExact == \A c \in Ctrs : waiters[c] = Cardinality(Counted(c))

\* Where each goroutine's local variables point.
LocalsOK ==
    \A p \in Procs :
        /\ procPc[p] # "ErrNoSuchLock"
        /\ mu = p <=> procPc[p] = "unlocking"
        /\ IF procPc[p] = "idle" THEN name[p] = NoName /\ nameLock[p] = NoCtr
                             ELSE name[p] \in Names /\ nameLock[p] \in Ctrs
        /\ procPc[p] \in {"waiting", "acquired", "held"} => locks[name[p]] = nameLock[p]
        /\ procPc[p] = "unlocking" => locks[name[p]] \in {NoCtr, nameLock[p]}

\* A lockCtr is the entry of one name, and has one holder.
Exclusive ==
    /\ \A m, n \in Names : locks[m] = locks[n] /\ locks[m] # NoCtr => m = n
    /\ \A p \in Procs : Holds(p) => locked[nameLock[p]]
    /\ \A p, q \in Procs : Holds(p) /\ Holds(q) /\ nameLock[p] = nameLock[q] => p = q

(***************************************************************************)
(* What Unlock decided still holds when it releases the lockCtr: a deleted *)
(* one is known to nobody else, a kept one has a waiter.                   *)
(***************************************************************************)
DecisionOK ==
    \A p \in Procs : procPc[p] = "unlocking" =>
        IF locks[name[p]] = NoCtr
          THEN \A q \in Procs \ {p} : nameLock[q] # nameLock[p]
          ELSE \E q \in Procs : procPc[q] = "waiting" /\ name[q] = name[p]

LockerInv == LockerTypeOK /\ LocalsOK /\ Exclusive /\ CountExact /\ DecisionOK /\ NoLeak
-----------------------------------------------------------------------------
\* The set that c.waiters counts is finite, and its size a natural number.
LEMMA CountedFinite ==
  \A c : /\ IsFiniteSet(Counted(c))
         /\ Cardinality(Counted(c)) \in Nat
         /\ Cardinality(Counted(c)) = 0 <=> Counted(c) = {}
<1> TAKE c
<1>1. IsFiniteSet(Counted(c))
  BY ProcsAssumption, FS_Subset DEF Counted
<1> QED
  BY <1>1, FS_CardinalityType, FS_EmptySet

\* Initially no goroutine has called Lock.
LEMMA LockerInitially == LockerInit => LockerInv
<1> SUFFICES ASSUME LockerInit PROVE LockerInv
  OBVIOUS
<1> USE ProcsAssumption, NamesAssumption, CtrsAssumption
<1>1. LockerTypeOK /\ LocalsOK /\ Exclusive /\ DecisionOK /\ NoLeak
  BY DEF LockerInit, LockerTypeOK, LocalsOK, Exclusive, DecisionOK, NoLeak, Holds
<1>2. CountExact
  <2> SUFFICES ASSUME NEW c \in Ctrs PROVE waiters[c] = Cardinality(Counted(c))
    BY DEF CountExact
  <2>1. Counted(c) = {}
    BY DEF LockerInit, Counted
  <2> QED
    BY <2>1, FS_EmptySet DEF LockerInit
<1> QED
  BY <1>1, <1>2 DEF LockerInv

\* Lock(n) up to the release of Locker.mu preserves the invariant.
LEMMA LookupKeeps ==
  ASSUME LockerInv, NEW p \in Procs, NEW n \in Names, LockLookup(p, n)
  PROVE  LockerInv'
<1> USE ProcsAssumption, NamesAssumption, CtrsAssumption
<1>1. PICK c \in Ctrs :
        /\ locks' = [locks EXCEPT ![n] = c]
        /\ nameLock' = [nameLock EXCEPT ![p] = c]
        /\ waiters' = [waiters EXCEPT ![c] = Cardinality(Counted(c)) + 1]
        /\ \A d \in Ctrs \ {c} : locked'[d] = locked[d]
        /\ locked'[c] => locked[c]
        /\ locked' \in [Ctrs -> BOOLEAN]
        /\ \/ locks[n] = c /\ locked' = locked
           \/ locks[n] = NoCtr /\ Fresh(c)
  <2>1. CASE LockFound(p, n)
    <3>1. locks[n] \in Ctrs /\ locks' = [locks EXCEPT ![n] = locks[n]]
      BY <2>1 DEF LockFound, LockerInv, LockerTypeOK
    <3>2. waiters[locks[n]] = Cardinality(Counted(locks[n]))
      BY <3>1 DEF LockerInv, CountExact
    <3> QED
      BY <2>1, <3>1, <3>2 DEF LockFound, LockerInv, LockerTypeOK
  <2>2. CASE \E c \in Ctrs : LockCreated(p, n, c)
    <3>1. PICK c \in Ctrs : LockCreated(p, n, c)
      BY <2>2
    <3>2. Counted(c) = {}
      BY <3>1 DEF LockCreated, Fresh, Counted
    <3>3. Cardinality(Counted(c)) + 1 = 1
      BY <3>2, FS_EmptySet
    <3> QED
      BY <3>1, <3>3 DEF LockCreated, LockerInv, LockerTypeOK
  <2> QED
    BY <2>1, <2>2 DEF LockLookup
<1>2. /\ procPc[p] = "idle" /\ mu = NoProc /\ mu' = mu
      /\ name' = [name EXCEPT ![p] = n]
      /\ procPc' = [procPc EXCEPT ![p] = "waiting"]
  BY DEF LockLookup
<1>3. LockerTypeOK'
  BY <1>1, <1>2, CountedFinite DEF LockerInv, LockerTypeOK
<1>4. \A q \in Procs : procPc[q] # "unlocking"
  BY <1>2 DEF LockerInv, LocalsOK
<1>5. LocalsOK'
  BY <1>1, <1>2, <1>4 DEF LockerInv, LockerTypeOK, LocalsOK, Fresh
<1>6. Exclusive'
  <2>1. \A q \in Procs : Holds(q)' => q # p /\ Holds(q) /\ nameLock'[q] = nameLock[q]
    BY <1>1, <1>2 DEF Holds, LockerInv, LockerTypeOK
  <2>2. \A q \in Procs : Holds(q) => locked'[nameLock[q]]
    <3> SUFFICES ASSUME NEW q \in Procs, Holds(q) PROVE locked'[nameLock[q]]
      OBVIOUS
    <3>1. nameLock[q] \in Ctrs /\ locked[nameLock[q]]
      BY DEF Holds, LockerInv, LocalsOK, Exclusive
    <3> QED
      BY <1>1, <3>1 DEF Fresh
  <2>3. \A m, k \in Names : locks'[m] = locks'[k] /\ locks'[m] # NoCtr => m = k
    BY <1>1 DEF LockerInv, LockerTypeOK, Exclusive, Fresh
  <2> QED
    BY <2>1, <2>2, <2>3 DEF LockerInv, Exclusive
<1>7. CountExact'
  <2>1. \A d \in Ctrs : Counted(d)' = IF d = c THEN Counted(c) \cup {p} ELSE Counted(d)
    BY <1>1, <1>2 DEF Counted, LockerInv, LockerTypeOK
  <2>2. p \notin Counted(c)
    BY <1>2 DEF Counted
  <2>3. Cardinality(Counted(c) \cup {p}) = Cardinality(Counted(c)) + 1
    BY <2>2, CountedFinite, FS_AddElement
  <2> QED
    BY <1>1, <2>1, <2>3 DEF LockerInv, CountExact, LockerTypeOK
<1>8. DecisionOK'
  BY <1>2, <1>4 DEF DecisionOK, LockerInv, LockerTypeOK
<1>9. NoLeak'
  BY <1>1, <1>2 DEF NoLeak, LockerInv, LockerTypeOK
<1> QED
  BY <1>3, <1>5, <1>6, <1>7, <1>8, <1>9 DEF LockerInv

\* nameLock.Lock() preserves the invariant.
LEMMA AcquireKeeps ==
  ASSUME LockerInv, NEW p \in Procs, LockAcquire(p)
  PROVE  LockerInv'
<1> USE ProcsAssumption, NamesAssumption, CtrsAssumption DEF LockAcquire
<1>1. nameLock[p] \in Ctrs /\ name[p] \in Names /\ locks[name[p]] = nameLock[p]
  BY DEF LockerInv, LocalsOK
<1>2. LockerTypeOK' /\ LocalsOK' /\ NoLeak'
  BY <1>1 DEF LockerInv, LockerTypeOK, LocalsOK, NoLeak
<1>3. Exclusive'
  <2>1. \A q \in Procs : Holds(q)' <=> Holds(q) \/ q = p
    BY DEF Holds, LockerInv, LockerTypeOK
  <2>2. \A q \in Procs : Holds(q) => nameLock[q] # nameLock[p]
    BY DEF LockerInv, Exclusive
  <2>3. \A q \in Procs : Holds(q) => nameLock[q] \in Ctrs
    BY DEF LockerInv, LocalsOK, Holds
  <2> QED
    BY <1>1, <2>1, <2>2, <2>3 DEF LockerInv, Exclusive, LockerTypeOK
<1>4. CountExact'
  <2>1. \A d \in Ctrs : Counted(d)' = Counted(d)
    BY DEF Counted, LockerInv, LockerTypeOK
  <2> QED
    BY <2>1 DEF LockerInv, CountExact
<1>5. DecisionOK'
  <2> SUFFICES ASSUME NEW u \in Procs, procPc'[u] = "unlocking"
               PROVE  IF locks[name[u]] = NoCtr
                        THEN \A q \in Procs \ {u} : nameLock[q] # nameLock[u]
                        ELSE \E q \in Procs : procPc'[q] = "waiting" /\ name[q] = name[u]
    BY DEF DecisionOK
  <2>1. procPc[u] = "unlocking" /\ u # p
    BY DEF LockerInv, LockerTypeOK
  <2>2. name[u] # name[p]
    <3>1. locked[nameLock[u]] /\ locks[name[u]] \in {NoCtr, nameLock[u]}
      BY <2>1 DEF LockerInv, Exclusive, LocalsOK, Holds
    <3> QED
      BY <1>1, <3>1
  <2> QED
    BY <2>1, <2>2 DEF LockerInv, DecisionOK, LockerTypeOK
<1> QED
  BY <1>2, <1>3, <1>4, <1>5 DEF LockerInv

\* nameLock.dec() preserves the invariant.
LEMMA DecKeeps ==
  ASSUME LockerInv, NEW p \in Procs, LockDec(p)
  PROVE  LockerInv'
<1> USE ProcsAssumption, NamesAssumption, CtrsAssumption DEF LockDec
<1> DEFINE c == nameLock[p]
<1>1. c \in Ctrs /\ name[p] \in Names /\ p \in Counted(c)
  BY DEF LockerInv, LocalsOK, Counted
<1>2. /\ waiters[c] = Cardinality(Counted(c))
      /\ Cardinality(Counted(c)) \in Nat \ {0}
  BY <1>1, CountedFinite DEF LockerInv, CountExact
<1>3. LockerTypeOK' /\ LocalsOK' /\ Exclusive' /\ NoLeak' /\ DecisionOK'
  BY <1>1, <1>2 DEF LockerInv, LockerTypeOK, LocalsOK, Exclusive, NoLeak, DecisionOK, Holds
<1>4. CountExact'
  <2>1. \A d \in Ctrs : Counted(d)' = IF d = c THEN Counted(c) \ {p} ELSE Counted(d)
    BY <1>1 DEF Counted, LockerInv, LockerTypeOK
  <2>2. Cardinality(Counted(c) \ {p}) = Cardinality(Counted(c)) - 1
    BY <1>1, CountedFinite, FS_RemoveElement
  <2> QED
    BY <1>1, <1>2, <2>1, <2>2 DEF LockerInv, CountExact, LockerTypeOK
<1> QED
  BY <1>3, <1>4 DEF LockerInv

\* The lookup and deletion in Unlock preserve the invariant.
LEMMA UnlockKeeps ==
  ASSUME LockerInv, NEW p \in Procs, UnlockLookup(p)
  PROVE  LockerInv'
<1> USE ProcsAssumption, NamesAssumption, CtrsAssumption
<1> DEFINE n == name[p]
           c == nameLock[p]
<1>1. c \in Ctrs /\ n \in Names /\ locks[n] = c /\ c # NoCtr
  BY DEF LockerInv, LocalsOK, UnlockLookup
<1>2. /\ procPc[p] = "held" /\ mu = NoProc /\ mu' = p
      /\ procPc' = [procPc EXCEPT ![p] = "unlocking"]
      /\ locks' = Forget(n)
      /\ nameLock' = nameLock
      /\ UNCHANGED <<waiters, locked, name>>
  BY <1>1 DEF UnlockLookup, LockerInv, LockerTypeOK
<1>3. \A q \in Procs : procPc[q] # "unlocking"
  BY <1>2 DEF LockerInv, LocalsOK
<1>4. \A q \in Procs : q # p /\ nameLock[q] = c => procPc[q] = "waiting"
  <2> SUFFICES ASSUME NEW q \in Procs, q # p, nameLock[q] = c PROVE procPc[q] = "waiting"
    OBVIOUS
  <2>1. procPc[q] \in {"waiting", "acquired", "held"}
    BY <1>1, <1>3 DEF LockerInv, LocalsOK, LockerTypeOK
  <2>2. ~Holds(q)
    BY <1>2 DEF LockerInv, Exclusive, Holds
  <2> QED
    BY <2>1, <2>2 DEF Holds
<1>5. waiters[c] = 0 => \A q \in Procs \ {p} : nameLock[q] # c
  BY <1>1, <1>4, CountedFinite DEF LockerInv, CountExact, Counted
<1>6. waiters[c] # 0 => \E q \in Procs : procPc[q] = "waiting" /\ nameLock[q] = c /\ q # p
  <2> SUFFICES ASSUME waiters[c] # 0
               PROVE  \E q \in Procs : procPc[q] = "waiting" /\ nameLock[q] = c /\ q # p
    OBVIOUS
  <2>1. Counted(c) # {}
    BY <1>1, CountedFinite DEF LockerInv, CountExact
  <2> QED
    BY <1>2, <1>4, <2>1 DEF Counted
<1>7. \/ waiters[c] = 0 /\ locks' = [locks EXCEPT ![n] = NoCtr]
      \/ waiters[c] # 0 /\ locks' = locks
  BY <1>1, <1>2 DEF Forget
<1>8. LockerTypeOK'
  BY <1>1, <1>2, <1>7 DEF LockerInv, LockerTypeOK
<1>9. LocalsOK'
  <2>1. \A q \in Procs \ {p} : procPc[q] # "idle" /\ waiters[c] = 0 => name[q] # n
    BY <1>1, <1>3, <1>5 DEF LockerInv, LocalsOK, LockerTypeOK
  <2>2. \A q \in Procs \ {p} :
            /\ procPc'[q] = procPc[q]
            /\ name[q] \in Names => locks'[name[q]] = locks[name[q]] \/ name[q] = n
    BY <1>1, <1>2, <1>7 DEF LockerInv, LockerTypeOK
  <2>3. ASSUME NEW q \in Procs \ {p}, procPc[q] \in {"waiting", "acquired", "held"}
        PROVE  locks'[name[q]] = locks[name[q]]
    <3>1. name[q] \in Names /\ procPc[q] # "idle"
      BY <2>3 DEF LockerInv, LocalsOK
    <3>2. CASE waiters[c] = 0
      BY <2>1, <2>2, <3>1, <3>2
    <3>3. CASE waiters[c] # 0
      BY <1>7, <3>3
    <3> QED
      BY <3>2, <3>3
  <2>4. locks'[n] \in {NoCtr, c}
    BY <1>1, <1>7 DEF LockerInv, LockerTypeOK
  <2>5. procPc'[p] = "unlocking"
    BY <1>2 DEF LockerInv, LockerTypeOK
  <2> QED
    BY <1>1, <1>2, <1>3, <2>2, <2>3, <2>4, <2>5 DEF LockerInv, LocalsOK
<1>10. Exclusive'
  BY <1>1, <1>2, <1>7 DEF LockerInv, LockerTypeOK, Exclusive, Holds
<1>11. CountExact'
  <2>1. \A d \in Ctrs : Counted(d)' = Counted(d)
    BY <1>2 DEF Counted, LockerInv, LockerTypeOK
  <2> QED
    BY <1>2, <2>1 DEF LockerInv, CountExact
<1>12. DecisionOK'
  <2>1. \A u \in Procs : procPc'[u] = "unlocking" => u = p
    BY <1>2, <1>3 DEF LockerInv, LockerTypeOK
  <2>2. CASE waiters[c] = 0
    BY <1>1, <1>2, <1>5, <1>7, <2>1, <2>2 DEF DecisionOK, LockerInv, LockerTypeOK
  <2>3. CASE waiters[c] # 0
    <3>1. PICK q \in Procs : procPc[q] = "waiting" /\ nameLock[q] = c /\ q # p
      BY <1>6, <2>3
    <3>2. name[q] = n
      BY <1>1, <3>1 DEF LockerInv, LocalsOK, Exclusive
    <3>3. locks'[n] # NoCtr /\ procPc'[q] = "waiting"
      BY <1>1, <1>2, <1>7, <2>3, <3>1 DEF LockerInv, LockerTypeOK
    <3> QED
      BY <1>2, <2>1, <3>2, <3>3 DEF DecisionOK
  <2> QED
    BY <2>2, <2>3
<1>13. NoLeak'
  BY <1>1, <1>2, <1>7 DEF LockerInv, LockerTypeOK, NoLeak
<1> QED
  BY <1>8, <1>9, <1>10, <1>11, <1>12, <1>13 DEF LockerInv

\* nameLock.Unlock() and the return from Unlock preserve the invariant.
LEMMA ReleaseKeeps ==
  ASSUME LockerInv, NEW p \in Procs, UnlockRelease(p)
  PROVE  LockerInv'
<1> USE ProcsAssumption, NamesAssumption, CtrsAssumption DEF UnlockRelease
<1> DEFINE n == name[p]
           c == nameLock[p]
<1>1. c \in Ctrs /\ n \in Names /\ mu = p
  BY DEF LockerInv, LocalsOK
<1>2. \A q \in Procs \ {p} : procPc[q] # "unlocking"
  BY <1>1 DEF LockerInv, LocalsOK
<1>3. LockerTypeOK' /\ DecisionOK'
  BY <1>1, <1>2 DEF LockerInv, LockerTypeOK, DecisionOK
<1>4. LocalsOK'
  BY <1>1, <1>2 DEF LockerInv, LockerTypeOK, LocalsOK
<1>5. Exclusive'
  BY <1>1 DEF LockerInv, LockerTypeOK, LocalsOK, Exclusive, Holds
<1>6. CountExact'
  <2>1. \A d \in Ctrs : Counted(d)' = Counted(d)
    BY <1>1 DEF Counted, LockerInv, LockerTypeOK
  <2> QED
    BY <2>1 DEF LockerInv, CountExact
<1>7. NoLeak'
  BY <1>1 DEF LockerInv, LockerTypeOK, DecisionOK, NoLeak
<1> QED
  BY <1>3, <1>4, <1>5, <1>6, <1>7 DEF LockerInv

(***************************************************************************)
(* The inductive invariant holds in every reachable state.                 *)
(***************************************************************************)
THEOREM LockerInvariance == LockerSafety => []LockerInv
<1>1. LockerInv /\ [LockerNext]_lockerVars => LockerInv'
  <2> SUFFICES ASSUME LockerInv, [LockerNext]_lockerVars PROVE LockerInv'
    OBVIOUS
  <2>1. CASE UNCHANGED lockerVars
    <3>1. \A d \in Ctrs : Counted(d)' = Counted(d)
      BY <2>1 DEF lockerVars, Counted
    <3>2. CountExact'
      BY <2>1, <3>1 DEF lockerVars, LockerInv, CountExact
    <3> QED
      BY <2>1, <3>2 DEF lockerVars, LockerInv, LockerTypeOK, LocalsOK, Exclusive, DecisionOK,
            NoLeak, Holds
  <2>2. CASE LockerNext
    BY <2>2, LookupKeeps, AcquireKeeps, DecKeeps, UnlockKeeps, ReleaseKeeps DEF LockerNext
  <2> QED
    BY <2>1, <2>2
<1> QED
  BY <1>1, LockerInitially, PTL DEF LockerSafety

\* Mutual exclusion follows from the invariant.
LEMMA LockerExcludes == LockerInv => MutualExclusion
<1> SUFFICES ASSUME LockerInv, NEW p \in Procs, NEW q \in Procs, p # q,
                    Holds(p), Holds(q), name[p] = name[q]
             PROVE  FALSE
  BY DEF MutualExclusion
<1>1. /\ name[p] \in Names
      /\ nameLock[p] \in Ctrs /\ nameLock[q] \in Ctrs
      /\ procPc[p] = "unlocking" \/ locks[name[p]] = nameLock[p]
      /\ procPc[q] = "unlocking" \/ locks[name[q]] = nameLock[q]
  BY DEF LockerInv, LocalsOK, Holds
<1>2. nameLock[p] # nameLock[q]
  BY DEF LockerInv, Exclusive
<1>3. procPc[p] = "unlocking" => locks[name[p]] \in {NoCtr, nameLock[p]} /\ mu = p
  BY DEF LockerInv, LocalsOK
<1>4. procPc[q] = "unlocking" => locks[name[q]] \in {NoCtr, nameLock[q]} /\ mu = q
  BY DEF LockerInv, LocalsOK
<1> QED
  BY <1>1, <1>2, <1>3, <1>4, CtrsAssumption

(***************************************************************************)
(* For any number of goroutines and names: no two goroutines hold a name,  *)
(* Unlock finds the lockCtr its caller locked, and the map has no entry    *)
(* that is not in use.                                                     *)
(***************************************************************************)
THEOREM LockerCorrectness == LockerSafety => [](MutualExclusion /\ UnlockFindsLock /\ NoLeak)
<1>1. LockerInv => MutualExclusion /\ UnlockFindsLock /\ NoLeak
  BY LockerExcludes DEF LockerInv, LocalsOK, UnlockFindsLock
<1> QED
  BY <1>1, LockerInvariance, PTL

(***************************************************************************)
(* For any number of goroutines and names: the map has an entry for a name *)
(* only while some goroutine locks, holds or unlocks it (NoLeak).          *)
(***************************************************************************)
THEOREM NothingLeaks == LockerSafety => []NoLeak
  BY LockerCorrectness, PTL

(***************************************************************************)
(* Locker implements NamedMutex (its safety part): LockLookup is a         *)
(* request, LockAcquire the grant, UnlockRelease the return of the name,   *)
(* and the other steps are invisible.                                      *)
(***************************************************************************)
THEOREM Refinement == LockerSafety => Mutex!Safety
<1> USE ProcsAssumption, NamesAssumption, CtrsAssumption
<1>1. LockerInit => Mutex!Init
  <2> SUFFICES ASSUME LockerInit PROVE Mutex!Init
    OBVIOUS
  <2>1. \A p \in Procs : Holds(p) = FALSE
    BY DEF LockerInit, Holds
  <2> QED
    BY <2>1 DEF LockerInit, Mutex!Init
<1>2. LockerInv /\ [LockerNext]_lockerVars => [Mutex!Next]_(Mutex!vars)
  <2> SUFFICES ASSUME LockerInv, [LockerNext]_lockerVars PROVE [Mutex!Next]_(Mutex!vars)
    OBVIOUS
  <2> DEFINE granted == [p \in Procs |-> Holds(p)]
  <2>1. ASSUME NEW p \in Procs, NEW n \in Names, LockLookup(p, n)
        PROVE  Mutex!Request(p, n)
    <3>1. name[p] = NoName /\ name' = [name EXCEPT ![p] = n]
      BY <2>1 DEF LockLookup, LockerInv, LocalsOK
    <3>2. \A q \in Procs : Holds(q)' = Holds(q)
      BY <2>1 DEF LockLookup, Holds, LockerInv, LockerTypeOK
    <3> QED
      BY <3>1, <3>2 DEF Mutex!Request
  <2>2. ASSUME NEW p \in Procs, LockAcquire(p)
        PROVE  Mutex!Grant(p)
    <3>1. /\ name[p] \in Names /\ ~Holds(p) /\ name' = name
          /\ nameLock[p] \in Ctrs /\ locks[name[p]] = nameLock[p] /\ ~locked[nameLock[p]]
      BY <2>2 DEF LockAcquire, LockerInv, LocalsOK, Holds
    <3>2. \A q \in Procs : name[q] = name[p] => ~Holds(q)
      <4> SUFFICES ASSUME NEW q \in Procs, name[q] = name[p], Holds(q) PROVE FALSE
        OBVIOUS
      <4>1. locked[nameLock[q]]
        BY DEF LockerInv, Exclusive
      <4>2. locks[name[q]] \in {NoCtr, nameLock[q]}
        BY DEF LockerInv, LocalsOK, Holds
      <4> QED
        BY <3>1, <4>1, <4>2
    <3>3. \A q \in Procs : Holds(q)' = IF q = p THEN TRUE ELSE Holds(q)
      BY <2>2 DEF LockAcquire, Holds, LockerInv, LockerTypeOK
    <3>4. granted' = [granted EXCEPT ![p] = TRUE]
      BY <3>3
    <3>5. name[p] # NoName
      BY <3>1
    <3> QED
      BY <3>1, <3>2, <3>4, <3>5 DEF Mutex!Grant
  <2>3. ASSUME NEW p \in Procs, UnlockRelease(p)
        PROVE  Mutex!GiveBack(p)
    <3>1. /\ \A q \in Procs \ {p} : Holds(q)' = Holds(q)
          /\ Holds(p)' = FALSE
      BY <2>3 DEF UnlockRelease, Holds, LockerInv, LockerTypeOK
    <3>2. granted' = [granted EXCEPT ![p] = FALSE]
      BY <3>1
    <3>3. granted[p] /\ name' = [name EXCEPT ![p] = NoName]
      BY <2>3 DEF UnlockRelease, Holds
    <3> QED
      BY <3>2, <3>3 DEF Mutex!GiveBack
  <2>4. ASSUME NEW p \in Procs, LockDec(p) \/ UnlockLookup(p) \/ UNCHANGED lockerVars
        PROVE  UNCHANGED Mutex!vars
    <3>1. name' = name
      BY <2>4 DEF LockDec, UnlockLookup, lockerVars
    <3>2. ASSUME NEW q \in Procs PROVE Holds(q)' = Holds(q)
      <4>1. CASE UNCHANGED lockerVars
        BY <4>1 DEF lockerVars, Holds
      <4>2. CASE LockDec(p)
        BY <4>2 DEF LockDec, Holds, LockerInv, LockerTypeOK
      <4>3. CASE UnlockLookup(p)
        <5>1. locks[name[p]] # NoCtr
          BY <4>3 DEF UnlockLookup, LockerInv, LocalsOK
        <5> QED
          BY <4>3, <5>1 DEF UnlockLookup, Holds, LockerInv, LockerTypeOK
      <4> QED
        BY <2>4, <4>1, <4>2, <4>3
    <3> QED
      BY <3>1, <3>2 DEF Mutex!vars
  <2>5. CASE UNCHANGED lockerVars
    BY <2>5 DEF Mutex!vars, lockerVars, Holds
  <2>6. CASE LockerNext
    BY <2>6, <2>1, <2>2, <2>3, <2>4 DEF LockerNext, Mutex!Next
  <2> QED
    BY <2>5, <2>6
<1> QED
  BY <1>1, <1>2, LockerInvariance, PTL DEF LockerSafety, Mutex!Safety
-----------------------------------------------------------------------------

\* Each waiter is on the current channels of its condition, or has been woken.
ChannelsOK ==
    \A w \in Waiters :
        /\ pc[w] \in {"idle", "found"} => w \notin onStop \cup onRemove \cup fired
        /\ w \in onStop => cond[w] # "Removed"
        /\ pc[w] = "woken" => w \in fired
        /\ pc[w] = "blocked" /\ w \notin fired =>
              /\ w \in onRemove
              /\ cond[w] # "Removed" => w \in onStop
              /\ cond[w] = "NotRunning" => st.Running

\* A container that a removal was attempted on never runs again.
RemovalOK == /\ removal # "none" => st.Dead
             /\ removal = "failing" => st.Err

\* A waiter that a removal attempt woke will read that attempt's outcome.
OutcomeOK ==
    \A w \in Waiters :
        /\ w \in fired /\ cond[w] = "Removed" /\ pc[w] \in {"blocked", "woken"} =>
              st.Dead /\ (st.Err \/ removal \in {"removing", "removed"})

IInv == /\ TypeOK /\ ChannelsOK /\ RemovalOK /\ OutcomeOK
        /\ RemovalWakesEveryone /\ RemovedMeansRemoved

\* Initially nobody waits.
LEMMA InitIInv == Init => IInv
  BY ExitCodesAssumption
  DEF Init, IInv, TypeOK, ChannelsOK, RemovalOK, OutcomeOK, RemovalWakesEveryone,
      RemovedMeansRemoved, NewState, States, Codes, Conditions, NoResult, NoRestart

\* The history of an exit stays within its type.
LEMMA ExitType ==
  ASSUME TypeOK, NEW code \in Codes, Exit(code)
  PROVE  exits' \in [Waiters -> SUBSET Codes]
  BY DEF TypeOK, Exit

\* Types are preserved.
LEMMA TypePreserved == TypeOK /\ [Next]_vars => TypeOK'
<1> SUFFICES ASSUME TypeOK, [Next]_vars PROVE TypeOK'
  OBVIOUS
<1> USE ExitCodesAssumption DEF waiterVars, channels, history
<1>0. /\ ExitCodes \subseteq Codes /\ 0 \in Codes /\ 127 \in Codes /\ 128 \in Codes /\ -1 \in Codes
      /\ st.ExitCode \in Codes /\ st.Err \in BOOLEAN
      /\ restart.code \in Codes
  BY DEF Codes, TypeOK, States
<1>1. CASE Started
  BY <1>0, <1>1 DEF TypeOK, Started, SetRunning, States, NoRestart
<1>2. CASE StartFailed
  BY <1>0, <1>2 DEF TypeOK, StartFailed, StartFailure, States, NoRestart
<1>3. ASSUME NEW code \in ExitCodes, NEW err \in BOOLEAN, Stopped(code, err)
      PROVE  TypeOK'
  <2>1. exits' \in [Waiters -> SUBSET Codes]
    BY <1>0, <1>3, ExitType DEF Stopped
  <2>2. st' \in States({0, 1}, Codes)
    <3>1. (err \/ st.Err) \in BOOLEAN
      OBVIOUS
    <3>2. SetError(st, err \/ st.Err) \in States({0, 1}, Codes)
      BY <3>1 DEF TypeOK, SetError, States
    <3>3. ASSUME NEW s \in States({0, 1}, Codes) PROVE SetStopped(s, code) \in States({0, 1}, Codes)
      BY <1>0 DEF SetStopped, States
    <3>4. SetStopped(SetError(st, err \/ st.Err), code) \in States({0, 1}, Codes)
      BY <3>2, <3>3
    <3> QED
      BY <1>3, <3>4 DEF Stopped
  <2> QED
    BY <1>3, <2>1, <2>2 DEF TypeOK, Stopped, CloseStop, Pending
<1>4. ASSUME NEW code \in ExitCodes, Restarts(code)
      PROVE  TypeOK'
  <2>1. exits' \in [Waiters -> SUBSET Codes]
    BY <1>0, <1>4, ExitType DEF Restarts
  <2>2. st' \in States({0, 1}, Codes)
    BY <1>0, <1>4 DEF TypeOK, Restarts, SetRestarting, States
  <2> QED
    BY <1>0, <1>4, <2>1, <2>2 DEF TypeOK, Restarts, CloseStop
<1>5. CASE RestartGivenUp
  <2>1. exits' \in [Waiters -> SUBSET Codes]
    BY <1>0, <1>5, ExitType DEF RestartGivenUp
  <2>2. st' \in States({0, 1}, Codes)
    BY <1>0, <1>5 DEF TypeOK, RestartGivenUp, SetStopped, States
  <2> QED
    BY <1>0, <1>5, <2>1, <2>2 DEF TypeOK, RestartGivenUp, CloseStop, Pending, NoRestart
<1>6. CASE RemovalStarts
  BY <1>6 DEF TypeOK, RemovalStarts, States
<1>7. ASSUME NEW err \in BOOLEAN, RemovalSetsError(err)
      PROVE  TypeOK'
  BY <1>7 DEF TypeOK, RemovalSetsError, SetError, States
<1>8. CASE RemovalWakes
  BY <1>8 DEF TypeOK, RemovalWakes, CloseRemove
<1>9. ASSUME NEW w \in Waiters, Waiter(w)
      PROVE  TypeOK'
  <2>1. CASE Lookup(w) \/ Wake(w)
    BY <2>1 DEF TypeOK, Lookup, Wake
  <2>2. CASE Answer(w)
    <3>1. result' \in [Waiters -> [ExitCode : Codes, Err : BOOLEAN]]
      BY <1>0, <2>2 DEF TypeOK, Answer
    <3> QED
      BY <2>2, <3>1 DEF TypeOK, Answer
  <2>3. CASE Cancelled(w)
    <3>1. result' \in [Waiters -> [ExitCode : Codes, Err : BOOLEAN]]
      BY <1>0, <2>3 DEF TypeOK, Cancelled
    <3> QED
      BY <2>3, <3>1 DEF TypeOK, Cancelled
  <2>4. CASE WaitAnswered(w) /\ UNCHANGED <<st, restart, removal>>
    <3>1. result' \in [Waiters -> [ExitCode : Codes, Err : BOOLEAN]]
      BY <1>0, <2>4 DEF TypeOK, WaitAnswered
    <3>2. exits' \in [Waiters -> SUBSET Codes]
      BY <1>0, <2>4 DEF TypeOK, WaitAnswered
    <3> QED
      BY <2>4, <3>1, <3>2 DEF TypeOK, WaitAnswered, Conditions
  <2>5. ASSUME NEW c \in Conditions, WaitBlocks(w, c), UNCHANGED <<st, restart, removal>>
        PROVE  TypeOK'
    BY <2>5 DEF TypeOK, WaitBlocks, Capture
  <2> QED
    BY <1>9, <2>1, <2>2, <2>3, <2>4, <2>5 DEF Waiter, Wait
<1>10. CASE UNCHANGED vars
  BY <1>10 DEF TypeOK, vars
<1> QED
  BY <1>1, <1>2, <1>3, <1>4, <1>5, <1>6, <1>7, <1>8, <1>9, <1>10 DEF Next, Daemon

(***************************************************************************)
(* The inductive invariant holds in every reachable state.                 *)
(***************************************************************************)
THEOREM Invariance == Safety => []IInv
<1>1. IInv /\ [Next]_vars => IInv'
  <2> SUFFICES ASSUME IInv, [Next]_vars PROVE IInv'
    OBVIOUS
  <2>1. TypeOK'
    BY TypePreserved DEF IInv
  <2> SUFFICES (ChannelsOK /\ RemovalOK /\ OutcomeOK /\ RemovalWakesEveryone
                  /\ RemovedMeansRemoved)'
    BY <2>1 DEF IInv
  <2> USE DEF IInv, ChannelsOK, RemovalOK, OutcomeOK, RemovalWakesEveryone,
              RemovedMeansRemoved, TypeOK, waiterVars, channels, history
  <2>2. CASE Started
    BY <2>2 DEF Started, Starts, SetRunning, States
  <2>3. CASE StartFailed
    BY <2>3 DEF StartFailed, Starts, StartFailure, States
  <2>4. ASSUME NEW code \in ExitCodes, NEW err \in BOOLEAN, Stopped(code, err)
        PROVE  (ChannelsOK /\ RemovalOK /\ OutcomeOK /\ RemovalWakesEveryone
                  /\ RemovedMeansRemoved)'
    BY <2>4 DEF Stopped, SetStopped, SetError, States, CloseStop
  <2>5. ASSUME NEW code \in ExitCodes, Restarts(code)
        PROVE  (ChannelsOK /\ RemovalOK /\ OutcomeOK /\ RemovalWakesEveryone
                  /\ RemovedMeansRemoved)'
    BY <2>5 DEF Restarts, SetRestarting, States, CloseStop
  <2>6. CASE RestartGivenUp
    BY <2>6 DEF RestartGivenUp, SetStopped, States, CloseStop
  <2>7. CASE RemovalStarts
    BY <2>7 DEF RemovalStarts, States
  <2>8. ASSUME NEW err \in BOOLEAN, RemovalSetsError(err)
        PROVE  (ChannelsOK /\ RemovalOK /\ OutcomeOK /\ RemovalWakesEveryone
                  /\ RemovedMeansRemoved)'
    BY <2>8 DEF RemovalSetsError, SetError, States
  <2>9. CASE RemovalWakes
    BY <2>9 DEF RemovalWakes, CloseRemove
  <2>10. ASSUME NEW w \in Waiters, Waiter(w)
         PROVE  (ChannelsOK /\ RemovalOK /\ OutcomeOK /\ RemovalWakesEveryone
                  /\ RemovedMeansRemoved)'
    <3>1. CASE Lookup(w)
      BY <3>1 DEF Lookup
    <3>2. CASE Wake(w)
      BY <3>2 DEF Wake
    <3>3. CASE Answer(w)
      BY <3>3 DEF Answer
    <3>4. CASE Cancelled(w)
      BY <3>4 DEF Cancelled
    <3>5. CASE pc[w] = "found" /\ WaitAnswered(w) /\ UNCHANGED <<st, restart, removal>>
      BY <3>5 DEF WaitAnswered
    <3>6. ASSUME NEW c \in Conditions, pc[w] = "found", WaitBlocks(w, c),
                 UNCHANGED <<st, restart, removal>>
          PROVE  (ChannelsOK /\ RemovalOK /\ OutcomeOK /\ RemovalWakesEveryone
                    /\ RemovedMeansRemoved)'
      BY <3>6 DEF WaitBlocks, Capture, Conditions
    <3> QED
      BY <2>10, <3>1, <3>2, <3>3, <3>4, <3>5, <3>6 DEF Waiter, Wait
  <2>11. CASE UNCHANGED vars
    BY <2>11 DEF vars
  <2> QED
    BY <2>2, <2>3, <2>4, <2>5, <2>6, <2>7, <2>8, <2>9, <2>10, <2>11 DEF Next, Daemon
<1> QED
  BY <1>1, InitIInv, PTL DEF Safety

(***************************************************************************)
(* For any number of waiters: no wake-up is lost, a removal wakes everyone *)
(* who waits, and a removal reported without an error has happened.        *)
(***************************************************************************)
THEOREM Correctness ==
    Safety => [](NoLostWakeup /\ RemovalWakesEveryone /\ RemovedMeansRemoved)
<1>1. IInv => NoLostWakeup /\ RemovalWakesEveryone /\ RemovedMeansRemoved
  BY DEF IInv, ChannelsOK, NoLostWakeup
<1> QED
  BY <1>1, Invariance, PTL

(***************************************************************************)
(* For any number of waiters: an answer without an error to a wait for the *)
(* removal is true, whatever removals were attempted in between            *)
(* (RemovedMeansRemoved).                                                  *)
(***************************************************************************)
THEOREM RemovalTold == Safety => []RemovedMeansRemoved
  BY Correctness, PTL
-----------------------------------------------------------------------------
(***************************************************************************)
(* The exit code.  A waiter for the next exit that was woken, and has not  *)
(* read the code yet, would read that of an exit it waited through, or 0   *)
(* if a start overtook it, unless it would read an error.                  *)
(***************************************************************************)
CodeOK ==
    \A w \in Waiters :
        /\ pc[w] \in {"blocked", "woken"} /\ w \in fired /\ cond[w] = "NextExit"
        /\ ~st.Dead /\ ~st.Err
        => st.ExitCode \in exits[w] \cup (IF w \in overtaken THEN {0} ELSE {})

\* Every step keeps it, and the answers already given.
LEMMA CodePreserved == IInv /\ CodeOK /\ ExitCodeOrZero /\ [Next]_vars => CodeOK' /\ ExitCodeOrZero'
<1> SUFFICES ASSUME IInv, CodeOK, ExitCodeOrZero, [Next]_vars PROVE CodeOK' /\ ExitCodeOrZero'
  OBVIOUS
<1> USE DEF IInv, TypeOK, ChannelsOK, RemovalOK, CodeOK, ExitCodeOrZero, waiterVars, channels, history
<1>1. CASE Started
  BY <1>1 DEF Started, SetRunning, States, Pending
<1>2. CASE StartFailed
  BY <1>2 DEF StartFailed, StartFailure, States
<1>3. ASSUME NEW code \in ExitCodes, NEW err \in BOOLEAN, Stopped(code, err)
      PROVE  CodeOK' /\ ExitCodeOrZero'
  BY <1>3 DEF Stopped, SetStopped, SetError, States, CloseStop, Exit, Pending
<1>4. ASSUME NEW code \in ExitCodes, Restarts(code)
      PROVE  CodeOK' /\ ExitCodeOrZero'
  BY <1>4 DEF Restarts, SetRestarting, States, CloseStop, Exit, Pending
<1>5. CASE RestartGivenUp
  BY <1>5 DEF RestartGivenUp, SetStopped, States, CloseStop, Exit, Pending
<1>6. CASE RemovalStarts
  BY <1>6 DEF RemovalStarts, States
<1>7. ASSUME NEW err \in BOOLEAN, RemovalSetsError(err)
      PROVE  CodeOK' /\ ExitCodeOrZero'
  BY <1>7 DEF RemovalSetsError, SetError, States
<1>8. CASE RemovalWakes
  BY <1>8 DEF RemovalWakes, CloseRemove
<1>9. ASSUME NEW w \in Waiters, Waiter(w)
      PROVE  CodeOK' /\ ExitCodeOrZero'
  <2>1. CASE Lookup(w) \/ Wake(w) \/ Cancelled(w)
    BY <2>1 DEF Lookup, Wake, Cancelled
  <2>2. CASE Answer(w)
    BY <2>2 DEF Answer
  <2>3. CASE pc[w] = "found" /\ WaitAnswered(w) /\ UNCHANGED <<st, restart, removal>>
    BY <2>3 DEF WaitAnswered
  <2>4. ASSUME NEW c \in Conditions, pc[w] = "found", WaitBlocks(w, c), UNCHANGED <<st, restart, removal>>
        PROVE  CodeOK' /\ ExitCodeOrZero'
    BY <2>4 DEF WaitBlocks, Capture
  <2> QED
    BY <1>9, <2>1, <2>2, <2>3, <2>4 DEF Waiter, Wait
<1>10. CASE UNCHANGED vars
  BY <1>10 DEF vars
<1> QED
  BY <1>1, <1>2, <1>3, <1>4, <1>5, <1>6, <1>7, <1>8, <1>9, <1>10 DEF Next, Daemon

(***************************************************************************)
(* For any number of waiters and any exit codes: the code told without an  *)
(* error is that of an exit the caller waited through, or the 0 of a start *)
(* that overtook the caller after its wake-up.                             *)
(***************************************************************************)
THEOREM ExitCodeTold == Safety => []ExitCodeOrZero
<1>1. Init => CodeOK /\ ExitCodeOrZero
  BY DEF Init, CodeOK, ExitCodeOrZero
<1> QED
  BY <1>1, CodePreserved, Invariance, PTL DEF Safety
-----------------------------------------------------------------------------
\* The monitor with the open channel runs, and what it probes is this run.
HealthOpenOK ==
    stop # NoMonitor =>
        /\ monitorPc[stop] \notin {"none", "stopping"}
        /\ monitorPc[stop] \in {"probing", "handling", "late"} => stop \in current

HealthIInv == /\ HealthTypeOK /\ HealthOpenOK /\ HealthyIsEarned
              /\ NoMonitorNoHealth /\ MonitorMatches

\* The container starts out stopped and without a monitor.
LEMMA HealthInitially ==
  ASSUME HealthInit
  PROVE  HealthIInv
<1>1. 0 \in 0 .. Retries
  BY HealthAssumption
<1>2. HealthTypeOK
  BY <1>1 DEF HealthInit, HealthTypeOK
<1>3. HealthOpenOK /\ HealthyIsEarned /\ NoMonitorNoHealth /\ MonitorMatches
  BY DEF HealthInit, HealthOpenOK, HealthyIsEarned, NoMonitorNoHealth, MonitorMatches
<1> QED
  BY <1>2, <1>3 DEF HealthIInv

\* Every step of the container, of its events and of the clock.
LEMMA HealthContainerStep ==
  ASSUME HealthIInv,
         \/ InitHealthMonitor \/ Exited \/ GivenUp \/ Paused \/ Resumed
         \/ OOM \/ GraceEnds
  PROVE  HealthIInv'
<1> USE HealthAssumption DEF HealthIInv, HealthTypeOK, HealthOpenOK, HealthyIsEarned,
            NoMonitorNoHealth, MonitorMatches, monitorVars
<1>1. CASE InitHealthMonitor
  <2>0. 0 \in 0 .. Retries
    OBVIOUS
  <2>1. PICK m \in Monitors : Open(m)
    BY <1>1 DEF InitHealthMonitor
  <2>2. HealthTypeOK'
    BY <1>1, <2>0, <2>1 DEF InitHealthMonitor, Open
  <2> QED
    BY <1>1, <2>1, <2>2 DEF InitHealthMonitor, Open
<1>2. CASE Exited
  BY <1>2 DEF Exited, Close
<1>3. CASE GivenUp
  BY <1>3 DEF GivenUp
<1>4. CASE Paused
  BY <1>4 DEF Paused, Close
<1>5. CASE Resumed
  BY <1>5 DEF Resumed, WantMonitor, Open
<1>6. CASE OOM
  BY <1>6 DEF OOM, WantMonitor, Open, Close
<1>7. CASE GraceEnds
  BY <1>7 DEF GraceEnds
<1> QED
  BY <1>1, <1>2, <1>3, <1>4, <1>5, <1>6, <1>7

\* handleProbeResult, with the check that the monitor was not stopped.
LEMMA HealthHandlesStep ==
  ASSUME HealthIInv, NEW m \in Monitors, Handles(m)
  PROVE  HealthIInv'
<1> USE HealthAssumption DEF HealthIInv, HealthTypeOK, HealthOpenOK, HealthyIsEarned,
            NoMonitorNoHealth, MonitorMatches, Handles, Forgets
<1>1. CASE StopClosed(m)
  BY <1>1 DEF HandleProbeResult, StopClosed
<1>2. CASE ~StopClosed(m)
  <2>1. Applies(m) /\ stop = m /\ m \in current /\ stop # NoMonitor
    BY <1>2 DEF HandleProbeResult, StopClosed
  <2>2. CASE success[m]
    BY <2>1, <2>2 DEF Applies
  <2>3. CASE ~success[m]
    BY <2>1, <2>3 DEF Applies
  <2> QED
    BY <2>2, <2>3
<1> QED
  BY <1>1, <1>2

\* Every step of a monitor and of its probe.
LEMMA HealthMonitorStep ==
  ASSUME HealthIInv, NEW m \in Monitors,
         Monitor(m) \/ \E ok \in BOOLEAN : ProbeEnds(m, ok)
  PROVE  HealthIInv'
<1> USE HealthAssumption DEF HealthIInv, HealthTypeOK, HealthOpenOK, HealthyIsEarned,
            NoMonitorNoHealth, MonitorMatches
<1>1. CASE Ends(m)
  BY <1>1 DEF Ends, StopClosed
<1>2. CASE Probes(m)
  BY <1>2 DEF Probes
<1>3. CASE TakesResult(m)
  BY <1>3 DEF TakesResult, HasResult
<1>4. CASE TimesOut(m)
  BY <1>4 DEF TimesOut
<1>5. CASE Cancels(m)
  BY <1>5 DEF Cancels, StopClosed, Forgets
<1>6. CASE Handles(m)
  BY <1>6, HealthHandlesStep
<1>7. CASE Drains(m)
  BY <1>7 DEF Drains, HasResult
<1>8. ASSUME NEW ok \in BOOLEAN, ProbeEnds(m, ok)
      PROVE  HealthIInv'
  BY <1>8 DEF ProbeEnds
<1> QED
  BY <1>1, <1>2, <1>3, <1>4, <1>5, <1>6, <1>7, <1>8 DEF Monitor

\* The inductive invariant holds in every reachable state.
THEOREM HealthInvariance == HealthSafety => []HealthIInv
<1>1. HealthIInv /\ [HealthNext]_healthVars => HealthIInv'
  <2> SUFFICES ASSUME HealthIInv, [HealthNext]_healthVars PROVE HealthIInv'
    OBVIOUS
  <2>1. CASE UNCHANGED healthVars
    BY <2>1 DEF healthVars, monitorVars, HealthIInv, HealthTypeOK, HealthOpenOK,
               HealthyIsEarned, NoMonitorNoHealth, MonitorMatches
  <2> QED
    BY <2>1, HealthContainerStep, HealthMonitorStep DEF HealthNext
<1> QED
  BY <1>1, HealthInitially, PTL DEF HealthSafety

(***************************************************************************)
(* A healthy container passed a probe of its current run, one without a    *)
(* monitor is unhealthy, and a running container has a monitor.            *)
(***************************************************************************)
THEOREM HealthCorrectness == HealthSafety => [](HealthyIsEarned /\ NoMonitorNoHealth /\ MonitorMatches)
<1>1. HealthIInv => HealthyIsEarned /\ NoMonitorNoHealth /\ MonitorMatches
  BY DEF HealthIInv
<1> QED
  BY <1>1, HealthInvariance, PTL

(***************************************************************************)
(* For any number of monitors and retries: a running container has a       *)
(* monitor, and a paused one has none (MonitorMatches).                    *)
(***************************************************************************)
THEOREM Monitored == HealthSafety => []MonitorMatches
  BY HealthCorrectness, PTL
=============================================================================
