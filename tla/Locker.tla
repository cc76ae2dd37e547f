------------------------------- MODULE Locker -------------------------------
(***************************************************************************)
(* pkg/locker: a mutex per name.  Locker.locks maps a name to a lockCtr (a *)
(* mutex and a count of waiters), created by the first Lock(name) and      *)
(* deleted by the Unlock(name) that finds nobody waiting.  Locker.mu       *)
(* guards the map; the lockCtr is locked, and its count decremented,       *)
(* outside of it.                                                          *)
(***************************************************************************)
EXTENDS Integers, FiniteSets

CONSTANTS Procs,   \* the goroutines that use the locker
          Names,   \* the names they lock
          Ctrs,    \* the lockCtr objects the allocator can return
          NoProc, NoName, NoCtr

ASSUME ProcsAssumption == IsFiniteSet(Procs) /\ NoProc \notin Procs
ASSUME NamesAssumption == NoName \notin Names
ASSUME CtrsAssumption  == NoCtr \notin Ctrs

VARIABLES locks,    \* Locker.locks; NoCtr where the map has no entry
          mu,       \* the goroutine inside Locker.mu across two steps
          waiters,  \* lockCtr.waiters
          locked,   \* lockCtr.mu is locked
          procPc,   \* where each goroutine is
          name,     \* the name it passed to Lock
          nameLock  \* its local variable nameLock

lockerVars == <<locks, mu, waiters, locked, procPc, name, nameLock>>

LockerInit ==
    /\ locks = [n \in Names |-> NoCtr]
    /\ mu = NoProc
    /\ waiters = [c \in Ctrs |-> 0]
    /\ locked = [c \in Ctrs |-> FALSE]
    /\ procPc = [p \in Procs |-> "idle"]
    /\ name = [p \in Procs |-> NoName]
    /\ nameLock = [p \in Procs |-> NoCtr]

(***************************************************************************)
(* &lockCtr{} returns an object nothing refers to: it is in no map entry   *)
(* and in no goroutine's local variable.                                   *)
(***************************************************************************)
Fresh(c) == /\ \A n \in Names : locks[n] # c
            /\ \A p \in Procs : nameLock[p] # c

(***************************************************************************)
(* The part of Lock(n) inside Locker.mu: find or create the lockCtr and    *)
(* count this goroutine as a waiter.                                       *)
(***************************************************************************)
LockFound(p, n) ==
    /\ locks[n] # NoCtr
    /\ waiters' = [waiters EXCEPT ![locks[n]] = @ + 1]
    /\ nameLock' = [nameLock EXCEPT ![p] = locks[n]]
    /\ UNCHANGED <<locks, locked>>

LockCreated(p, n, c) ==
    /\ locks[n] = NoCtr
    /\ Fresh(c)
    /\ locks' = [locks EXCEPT ![n] = c]
    /\ waiters' = [waiters EXCEPT ![c] = 1]
    /\ locked' = [locked EXCEPT ![c] = FALSE]
    /\ nameLock' = [nameLock EXCEPT ![p] = c]

LockLookup(p, n) ==
    /\ procPc[p] = "idle"
    /\ mu = NoProc
    /\ LockFound(p, n) \/ \E c \in Ctrs : LockCreated(p, n, c)
    /\ name' = [name EXCEPT ![p] = n]
    /\ procPc' = [procPc EXCEPT ![p] = "waiting"]
    /\ UNCHANGED mu

\* nameLock.Lock()
LockAcquire(p) ==
    /\ procPc[p] = "waiting"
    /\ ~locked[nameLock[p]]
    /\ locked' = [locked EXCEPT ![nameLock[p]] = TRUE]
    /\ procPc' = [procPc EXCEPT ![p] = "acquired"]
    /\ UNCHANGED <<locks, mu, waiters, name, nameLock>>

\* nameLock.dec(), and Lock returns.
LockDec(p) ==
    /\ procPc[p] = "acquired"
    /\ waiters' = [waiters EXCEPT ![nameLock[p]] = @ - 1]
    /\ procPc' = [procPc EXCEPT ![p] = "held"]
    /\ UNCHANGED <<locks, mu, locked, name, nameLock>>

\* Mutants: the entry is always, or never, deleted.
ForgetAlways(n) == [locks EXCEPT ![n] = NoCtr]
ForgetNever(n) == locks

\* The entry of n leaves the map when no goroutine waits for it.
Forget(n) == IF waiters[locks[n]] = 0 THEN [locks EXCEPT ![n] = NoCtr] ELSE locks

(***************************************************************************)
(* Unlock(name) up to the decision to delete the entry.  Locker.mu stays   *)
(* held until UnlockRelease, except on the path that returns ErrNoSuchLock,*)
(* which leaves the goroutine with a lock it cannot give back.             *)
(***************************************************************************)
UnlockLookup(p) ==
    /\ procPc[p] = "held"
    /\ mu = NoProc
    /\ nameLock' = [nameLock EXCEPT ![p] = locks[name[p]]]
    /\ IF locks[name[p]] = NoCtr
         THEN /\ procPc' = [procPc EXCEPT ![p] = "ErrNoSuchLock"]
              /\ UNCHANGED <<locks, mu>>
         ELSE /\ locks' = Forget(name[p])
              /\ mu' = p
              /\ procPc' = [procPc EXCEPT ![p] = "unlocking"]
    /\ UNCHANGED <<waiters, locked, name>>

\* Mutant: a deleted lockCtr is not unlocked, nor is one that is waited for.
UnlockReleaseDropped(p) ==
    /\ procPc[p] = "unlocking"
    /\ mu' = NoProc
    /\ name' = [name EXCEPT ![p] = NoName]
    /\ nameLock' = [nameLock EXCEPT ![p] = NoCtr]
    /\ procPc' = [procPc EXCEPT ![p] = "idle"]
    /\ UNCHANGED <<locks, waiters, locked>>

\* nameLock.Unlock(), l.mu.Unlock(), and Unlock returns nil.
UnlockRelease(p) ==
    /\ procPc[p] = "unlocking"
    /\ locked' = [locked EXCEPT ![nameLock[p]] = FALSE]
    /\ mu' = NoProc
    /\ name' = [name EXCEPT ![p] = NoName]
    /\ nameLock' = [nameLock EXCEPT ![p] = NoCtr]
    /\ procPc' = [procPc EXCEPT ![p] = "idle"]
    /\ UNCHANGED <<locks, waiters>>

LockerNext ==
    \E p \in Procs : \/ \E n \in Names : LockLookup(p, n)
                     \/ LockAcquire(p)
                     \/ LockDec(p)
                     \/ UnlockLookup(p)
                     \/ UnlockRelease(p)

(***************************************************************************)
(* Go's sync.Mutex hands a mutex that stays contended to the goroutine     *)
(* that waited longest, so acquiring one is strongly fair; the rest is     *)
(* straight-line code.  Every caller in layer/ and volume/ unlocks what it *)
(* locked.                                                                 *)
(***************************************************************************)
LockerFairness ==
    \A p \in Procs : /\ SF_lockerVars(LockAcquire(p))
                     /\ WF_lockerVars(LockDec(p))
                     /\ SF_lockerVars(UnlockLookup(p))
                     /\ WF_lockerVars(UnlockRelease(p))

LockerSafety == LockerInit /\ [][LockerNext]_lockerVars

LockerSpec == LockerSafety /\ LockerFairness
-----------------------------------------------------------------------------
LockerTypeOK ==
    /\ locks \in [Names -> Ctrs \cup {NoCtr}]
    /\ mu \in Procs \cup {NoProc}
    /\ waiters \in [Ctrs -> Nat]
    /\ locked \in [Ctrs -> BOOLEAN]
    /\ procPc \in [Procs -> {"idle", "waiting", "acquired", "held",
                             "unlocking", "ErrNoSuchLock"}]
    /\ name \in [Procs -> Names \cup {NoName}]
    /\ nameLock \in [Procs -> Ctrs \cup {NoCtr}]

\* p is between the return of nameLock.Lock() and nameLock.Unlock().
Holds(p) == procPc[p] \in {"acquired", "held", "unlocking"}

(***************************************************************************)
(* Two goroutines never hold one name at the same time, although the       *)
(* lockCtr of a name is deleted and created anew over and over.            *)
(***************************************************************************)
MutualExclusion ==
    \A p, q \in Procs : p # q /\ Holds(p) /\ Holds(q) => name[p] # name[q]

(***************************************************************************)
(* The Unlock of a goroutine that holds the name never returns             *)
(* ErrNoSuchLock: the entry is still there, and it is the lockCtr this     *)
(* goroutine locked and every waiter waits on.                             *)
(***************************************************************************)
UnlockFindsLock ==
    \A p \in Procs : /\ procPc[p] # "ErrNoSuchLock"
                     /\ procPc[p] \in {"waiting", "acquired", "held"}
                          => locks[name[p]] = nameLock[p]

(***************************************************************************)
(* An entry of the map is in use: when the last holder leaves and nobody   *)
(* waits, Unlock has deleted it, so the map does not grow with the names   *)
(* ever locked.                                                            *)
(***************************************************************************)
NoLeak ==
    \A n \in Names : locks[n] # NoCtr =>
        \E p \in Procs : name[p] = n /\ procPc[p] # "idle"

\* The refinement mapping: p's request is granted when nameLock.Lock() returns.
Mutex == INSTANCE NamedMutex WITH want <- name, granted <- [p \in Procs |-> Holds(p)]

(***************************************************************************)
(* The locker is a mutex per name, its promise that a goroutine that asks  *)
(* for a name gets it included.                                            *)
(***************************************************************************)
ImplementsNamedMutex == Mutex!Spec
=============================================================================
