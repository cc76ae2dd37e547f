--------------------------- MODULE TransferProofs ---------------------------
(***************************************************************************)
(* The slots of the transfer manager are right for any pulls, any finite   *)
(* number of transfers and any limits.  The argument: only a transfer that *)
(* has been started gets past waiting, so that one whose slot is freed had *)
(* one, and one in the queue has none; and a transfer is queued only when  *)
(* the slots are taken, so that there is somebody to hand one over.        *)
(***************************************************************************)
EXTENDS Transfer, TLAPS, FiniteSetTheorems

\* How far each transfer is, and its slot.
SlotsOK ==
    \A t \in Transfers :
        /\ fn[t] = "none" => ~started[t]
        /\ fn[t] \in {"running", "registering", "ended"} => started[t]
        /\ idle[t] \/ freed[t] => fn[t] \in {"registering", "ended"}

\* The transfers in the queue.
QueueOK ==
    /\ \A i \in DOMAIN waiting : fn[waiting[i]] = "waiting" /\ ~started[waiting[i]]
    /\ \A i, j \in DOMAIN waiting : waiting[i] = waiting[j] => i = j
    /\ waiting # <<>> => active > 0

LimitOK == ~adjusted /\ limit # 0 => active <= limit

Counts == SlotsExact /\ SlotsOK /\ QueueOK /\ LimitOK

IInv == TypeOK /\ Counts
-----------------------------------------------------------------------------
\* The transfers with a slot are finitely many.
LEMMA OccupyingFinite == IsFiniteSet(Occupying) /\ Cardinality(Occupying) \in Nat
<1>1. IsFiniteSet(Occupying)
  BY TransferAssumption, FS_Subset DEF Occupying
<1> QED
  BY <1>1, FS_CardinalityType

\* Initially there are no transfers.
LEMMA InitIInv == Init => IInv
<1> SUFFICES ASSUME Init PROVE IInv
  OBVIOUS
<1> USE DEF Init
<1>1. TypeOK
  <2>1. <<>> \in Seq(Transfers)
    OBVIOUS
  <2>2. \A c \in Clients : 1 \in DOMAIN Pull[c]
    BY TransferAssumption
  <2> QED
    BY <2>1, <2>2 DEF TypeOK
<1>2. Occupying = {} /\ active = 0
  BY DEF Occupying
<1>3. SlotsExact
  BY <1>2, FS_EmptySet DEF SlotsExact
<1>4. SlotsOK
  BY DEF SlotsOK
<1>5. waiting = <<>> /\ DOMAIN <<>> = {}
  OBVIOUS
<1>6. QueueOK
  BY <1>5 DEF QueueOK
<1>7. limit \in Nat /\ active = 0
  BY TransferAssumption
<1>8. LimitOK
  BY <1>7 DEF LimitOK
<1> QED
  BY <1>1, <1>3, <1>4, <1>6, <1>8 DEF IInv, Counts
-----------------------------------------------------------------------------
\* The keys a pull asks for, and its watchers.
LEMMA PullFacts ==
  ASSUME TypeOK, NEW c \in Clients
  PROVE  /\ Pull[c][at[c]] \in Keys /\ W(c) \in Watchers
         /\ Below(c) \in Transfers \cup {None}
         /\ Below(c) # None => at[c] > 1
         /\ Len(Pull[c]) \in Nat \ {0} /\ DOMAIN Pull[c] = 1..Len(Pull[c]) /\ at[c] \in 1..Len(Pull[c])
<1>1. /\ Len(Pull[c]) \in Nat \ {0} /\ DOMAIN Pull[c] = 1..Len(Pull[c]) /\ at[c] \in DOMAIN Pull[c]
  BY TransferAssumption DEF TypeOK
<1>2. \A i \in DOMAIN Pull[c] : Pull[c][i] \in Keys
  BY DEF Keys
<1>3. W(c) \in Watchers
  BY <1>1, <1>2 DEF W, Watchers
<1>4. Below(c) \in Transfers \cup {None} /\ (Below(c) # None => at[c] > 1)
  <2>1. CASE at[c] = 1
    BY <2>1 DEF Below
  <2>2. CASE at[c] # 1
    <3>1. at[c] - 1 \in DOMAIN Pull[c] /\ at[c] > 1
      BY <1>1, <2>2
    <3>2. <<c, Pull[c][at[c] - 1]>> \in Watchers
      BY <1>2, <3>1 DEF Watchers
    <3> QED
      BY <2>2, <3>1, <3>2 DEF Below, TypeOK
  <2> QED
    BY <2>1, <2>2
<1> QED
  BY <1>1, <1>2, <1>3, <1>4

\* Steps that neither take nor give a slot: the DoFunc, Close, and the pulls that find a transfer.
LEMMA CountsKept ==
  ASSUME IInv, UNCHANGED <<limit, active, waiting, adjusted, started, freed>>,
         \A t \in Transfers : /\ fn[t] = "none" <=> fn'[t] = "none"
                              /\ fn'[t] \in {"running", "registering", "ended"} => started[t]
                              /\ idle'[t] \/ freed[t] => fn'[t] \in {"registering", "ended"}
                              /\ fn'[t] = fn[t] \/ started[t]
  PROVE  Counts'
<1>1. Occupying' = Occupying
  BY DEF Occupying
<1>2. SlotsExact'
  BY <1>1 DEF IInv, Counts, SlotsExact
<1>3. SlotsOK'
  BY DEF IInv, Counts, SlotsOK
<1>4. QueueOK'
  <2>1. \A i \in DOMAIN waiting : waiting[i] \in Transfers
    BY DEF IInv, TypeOK
  <2> QED
    BY <2>1 DEF IInv, Counts, QueueOK
<1>5. LimitOK'
  BY DEF IInv, Counts, LimitOK
<1> QED
  BY <1>2, <1>3, <1>4, <1>5 DEF Counts

\* The goroutine of a transfer.
LEMMA WorkSteps ==
  ASSUME IInv, NEW t \in Transfers, WorkStep(t) \/ ReleasesLayer(t) \/ Closes(t)
  PROVE  IInv'
<1> USE DEF tm, work, life, manager, client
<1>1. TypeOK'
  <2> USE DEF IInv, TypeOK
  <2>1. CASE Begins(t)
    BY <2>1 DEF Begins
  <2>2. CASE Downloads(t)
    BY <2>2 DEF Downloads
  <2>3. CASE Fails(t)
    BY <2>3 DEF Fails
  <2>4. CASE Registers(t)
    BY <2>4 DEF Registers
  <2>5. CASE ReleasesLayer(t)
    BY <2>5 DEF ReleasesLayer
  <2>6. CASE Closes(t)
    BY <2>6 DEF Closes
  <2> QED
    BY <2>1, <2>2, <2>3, <2>4, <2>5, <2>6 DEF WorkStep
<1>2. UNCHANGED <<limit, active, waiting, adjusted, started, freed>>
  BY DEF WorkStep, Begins, Downloads, Fails, Registers, ReleasesLayer, Closes
<1>3. \A u \in Transfers : /\ fn[u] = "none" <=> fn'[u] = "none"
                           /\ fn'[u] \in {"running", "registering", "ended"} => started[u]
                           /\ idle'[u] \/ freed[u] => fn'[u] \in {"registering", "ended"}
                           /\ fn'[u] = fn[u] \/ started[u]
  <2> USE DEF IInv, Counts, SlotsOK, TypeOK
  <2>1. CASE Begins(t)
    BY <2>1 DEF Begins
  <2>2. CASE Downloads(t)
    BY <2>2 DEF Downloads
  <2>3. CASE Fails(t)
    BY <2>3 DEF Fails
  <2>4. CASE Registers(t)
    BY <2>4 DEF Registers
  <2>5. CASE ReleasesLayer(t) \/ Closes(t)
    BY <2>5 DEF ReleasesLayer, Closes
  <2> QED
    BY <2>1, <2>2, <2>3, <2>4, <2>5 DEF WorkStep
<1> QED
  BY <1>1, <1>2, <1>3, CountsKept DEF IInv

\* A pull moves to another of its layers.
LEMMA AtMoves ==
  ASSUME TypeOK, NEW c \in Clients, NEW k \in 1..Len(Pull[c]), Len(Pull[c]) \in Nat,
         at' = at \/ at' = [at EXCEPT ![c] = k], DOMAIN Pull[c] = 1..Len(Pull[c])
  PROVE  /\ at' \in [Clients -> Nat] /\ at'[c] \in 1..Len(Pull[c])
         /\ \A d \in Clients \ {c} : at'[d] = at[d]
<1>1. at \in [Clients -> Nat] /\ at[c] \in 1..Len(Pull[c]) /\ k \in Nat
  BY DEF TypeOK
<1>2. CASE at' = at
  BY <1>1, <1>2
<1>3. CASE at' = [at EXCEPT ![c] = k]
  BY <1>1, <1>3
<1> QED
  BY <1>2, <1>3

\* A pull that finds a transfer, waits or leaves.
LEMMA PullSteps ==
  ASSUME IInv, NEW c \in Clients,
         Finds(c) \/ Awaits(c) \/ Result(c) \/ ContextDone(c) \/ UsesResult(c) \/ Release(c)
  PROVE  IInv'
<1> USE DEF tm, work, life, manager, client
<1>1. /\ Pull[c][at[c]] \in Keys /\ W(c) \in Watchers /\ (Below(c) # None => at[c] > 1)
      /\ Len(Pull[c]) \in Nat \ {0} /\ DOMAIN Pull[c] = 1..Len(Pull[c]) /\ at[c] \in 1..Len(Pull[c])
  BY PullFacts DEF IInv
<1>2. UNCHANGED <<limit, active, waiting, adjusted, transfers, started, fn, idle, below, result, layer, closed, mgr, freed>>
  BY DEF Finds, Awaits, Result, ContextDone, UsesResult, Release
<1>3. Counts'
  <2>1. \A u \in Transfers : /\ fn[u] \in {"running", "registering", "ended"} => started[u]
                             /\ idle[u] \/ freed[u] => fn[u] \in {"registering", "ended"}
    BY DEF IInv, Counts, SlotsOK
  <2> QED
    BY <1>2, <2>1, CountsKept
<1>4. /\ cancelled' \in [Transfers -> BOOLEAN] /\ released' \in [Transfers -> BOOLEAN]
      /\ watchers' \in [Transfers -> SUBSET Watchers]
      /\ wt' \in [Watchers -> Transfers \cup {None}]
      /\ pc' \in [Clients -> {"call", "await", "wait", "lower", "has", "release", "over"}]
      /\ at' \in [Clients -> Nat] /\ at'[c] \in 1..Len(Pull[c])
      /\ \A d \in Clients \ {c} : at'[d] = at[d]
  <2> USE DEF IInv, TypeOK
  <2>1. CASE Finds(c)
    <3>1. /\ cancelled' \in [Transfers -> BOOLEAN] /\ released' \in [Transfers -> BOOLEAN]
          /\ watchers' \in [Transfers -> SUBSET Watchers]
          /\ wt' \in [Watchers -> Transfers \cup {None}]
      BY <1>1, <2>1 DEF Finds
    <3>a. pc' = pc \/ \E l \in {"await", "wait"} : pc' = [pc EXCEPT ![c] = l]
      BY <2>1, Zenon DEF Finds, Advance
    <3>2. pc' \in [Clients -> {"call", "await", "wait", "lower", "has", "release", "over"}]
      BY <3>a
    <3>3. at' = at \/ (at' = [at EXCEPT ![c] = at[c] + 1] /\ at[c] # Len(Pull[c]))
      BY <2>1, Zenon DEF Finds, Advance
    <3>b. at[c] # Len(Pull[c]) => at[c] + 1 \in 1..Len(Pull[c])
      BY <1>1
    <3>4. at' = at \/ \E k \in 1..Len(Pull[c]) : at' = [at EXCEPT ![c] = k]
      BY <3>3, <3>b, Zenon
    <3> QED
      BY <1>1, <3>1, <3>2, <3>4, AtMoves
  <2>2. CASE Awaits(c)
    BY <1>1, <2>2 DEF Awaits
  <2>3. CASE Result(c)
    <3>1. UNCHANGED <<cancelled, released, watchers, wt>>
      BY <2>3 DEF Result
    <3>a. \E l \in {"lower", "has", "release"} : pc' = [pc EXCEPT ![c] = l]
      BY <2>3, Zenon DEF Result
    <3>2. pc' \in [Clients -> {"call", "await", "wait", "lower", "has", "release", "over"}]
      BY <3>a
    <3>3. at' = at \/ (at' = [at EXCEPT ![c] = Len(Pull[c]) - 1] /\ Len(Pull[c]) > 1)
      BY <2>3 DEF Result
    <3>b. Len(Pull[c]) > 1 => Len(Pull[c]) - 1 \in 1..Len(Pull[c])
      BY <1>1
    <3>4. at' = at \/ \E k \in 1..Len(Pull[c]) : at' = [at EXCEPT ![c] = k]
      BY <3>3, <3>b, Zenon
    <3> QED
      BY <1>1, <3>1, <3>2, <3>4, AtMoves
  <2>4. CASE ContextDone(c) \/ UsesResult(c)
    BY <1>1, <2>4 DEF ContextDone, UsesResult
  <2>5. CASE Release(c)
    <3>1. /\ cancelled' \in [Transfers -> BOOLEAN] /\ released' \in [Transfers -> BOOLEAN]
          /\ watchers' \in [Transfers -> SUBSET Watchers]
      BY <1>1, <2>5 DEF Release, Leaves
    <3>2. wt' \in [Watchers -> Transfers \cup {None}]
      BY <1>1, <2>5 DEF Release
    <3>3. pc' \in [Clients -> {"call", "await", "wait", "lower", "has", "release", "over"}]
      BY <2>5 DEF Release
    <3>4. \/ at' = [at EXCEPT ![c] = at[c] - 1] /\ Below(c) # None
          \/ at' = [at EXCEPT ![c] = Len(Pull[c])]
      BY <2>5 DEF Release
    <3>b. Len(Pull[c]) \in 1..Len(Pull[c]) /\ (Below(c) # None => at[c] - 1 \in 1..Len(Pull[c]))
      BY <1>1
    <3>5. \E k \in 1..Len(Pull[c]) : at' = [at EXCEPT ![c] = k]
      BY <3>4, <3>b, Zenon
    <3> QED
      BY <1>1, <3>1, <3>2, <3>3, <3>5, AtMoves
  <2> QED
    BY <2>1, <2>2, <2>3, <2>4, <2>5
<1>5. \A d \in Clients : at'[d] \in DOMAIN Pull[d]
  BY <1>1, <1>4 DEF IInv, TypeOK
<1>6. TypeOK'
  BY <1>2, <1>4, <1>5 DEF IInv, TypeOK
<1> QED
  BY <1>3, <1>6 DEF IInv

\* inactivate: the slot goes to the first in the queue, or is free.
LEMMA InactivateStep ==
  ASSUME IInv, NEW t \in Transfers, fn[t] \in {"registering", "ended"}, ~freed[t], Inactivate(t),
         freed' = [freed EXCEPT ![t] = TRUE], UNCHANGED <<limit, adjusted, fn, idle>>
  PROVE  /\ Counts' /\ active' \in Nat /\ waiting' \in Seq(Transfers)
         /\ started' \in [Transfers -> BOOLEAN] /\ freed' \in [Transfers -> BOOLEAN]
<1>1. started[t] /\ t \in Occupying
  BY DEF IInv, Counts, SlotsOK, Occupying
<1>2. IsFiniteSet(Occupying) /\ active = Cardinality(Occupying) /\ active \in Nat
  BY OccupyingFinite DEF IInv, Counts, SlotsExact
<1>3. /\ IsFiniteSet(Occupying \ {t}) /\ Cardinality(Occupying \ {t}) = active - 1
      /\ Cardinality(Occupying \ {t}) \in Nat
  BY <1>1, <1>2, FS_RemoveElement, FS_CardinalityType
<1>4. freed' \in [Transfers -> BOOLEAN] /\ freed'[t] /\ \A u \in Transfers \ {t} : freed'[u] = freed[u]
  BY DEF IInv, TypeOK
<1>5. CASE waiting # <<>>
  <2> DEFINE h == Head(waiting)
  <2>1. /\ waiting \in Seq(Transfers) /\ h = waiting[1] /\ h \in Transfers /\ 1 \in DOMAIN waiting
        /\ waiting' \in Seq(Transfers) /\ Len(waiting) \in Nat \ {0}
        /\ DOMAIN waiting = 1..Len(waiting) /\ DOMAIN waiting' = 1..(Len(waiting) - 1)
        /\ \A i \in DOMAIN waiting' : waiting'[i] = waiting[i + 1] /\ i + 1 \in DOMAIN waiting
    <3>1. waiting \in Seq(Transfers) /\ waiting' = Tail(waiting)
      BY <1>1, <1>5 DEF IInv, TypeOK, Inactivate
    <3> QED
      BY <1>5, <3>1
  <2>2. /\ fn[h] = "waiting" /\ ~started[h] /\ h # t /\ ~freed[h] /\ h \notin Occupying
    BY <2>1 DEF IInv, Counts, QueueOK, SlotsOK, Occupying
  <2>3. started' = [started EXCEPT ![h] = TRUE] /\ active' = active
    BY <1>1, <1>5 DEF Inactivate
  <2> HIDE DEF h
  <2>4. /\ started' \in [Transfers -> BOOLEAN] /\ started'[h]
        /\ \A u \in Transfers \ {h} : started'[u] = started[u]
    BY <2>1, <2>3 DEF IInv, TypeOK
  <2>5. Occupying' = (Occupying \ {t}) \cup {h}
    BY <1>4, <2>1, <2>2, <2>4 DEF Occupying
  <2>6. SlotsExact'
    <3>1. h \notin Occupying \ {t}
      BY <2>2
    <3>2. Cardinality(Occupying') = (active - 1) + 1
      BY <1>3, <2>5, <3>1, FS_AddElement
    <3> QED
      BY <1>2, <2>3, <3>2 DEF SlotsExact
  <2>7. SlotsOK'
    BY <1>4, <2>2, <2>4 DEF IInv, Counts, SlotsOK
  <2>8. QueueOK'
    <3>1. ASSUME NEW i \in DOMAIN waiting' PROVE fn'[waiting'[i]] = "waiting" /\ ~started'[waiting'[i]]
      <4>1. waiting'[i] = waiting[i + 1] /\ i + 1 \in DOMAIN waiting /\ i + 1 # 1 /\ waiting[i + 1] \in Transfers
        BY <2>1
      <4>2. waiting[i + 1] # h
        BY <2>1, <4>1 DEF IInv, Counts, QueueOK
      <4> QED
        BY <2>4, <4>1, <4>2 DEF IInv, Counts, QueueOK
    <3>2. ASSUME NEW i \in DOMAIN waiting', NEW j \in DOMAIN waiting', waiting'[i] = waiting'[j] PROVE i = j
      <4>1. i + 1 = j + 1
        BY <2>1, <3>2 DEF IInv, Counts, QueueOK
      <4> QED
        BY <2>1, <4>1
    <3>3. active' > 0
      BY <1>5, <2>3 DEF IInv, Counts, QueueOK
    <3> QED
      BY <3>1, <3>2, <3>3 DEF QueueOK
  <2>9. LimitOK'
    BY <2>3 DEF IInv, Counts, LimitOK
  <2> QED
    BY <1>2, <1>4, <2>1, <2>3, <2>4, <2>6, <2>7, <2>8, <2>9 DEF Counts
<1>6. CASE waiting = <<>>
  <2>1. active' = active - 1 /\ UNCHANGED <<waiting, started>>
    BY <1>1, <1>6 DEF Inactivate
  <2>2. Occupying' = Occupying \ {t}
    BY <1>4, <2>1 DEF Occupying
  <2>3. SlotsExact'
    BY <1>3, <2>1, <2>2 DEF SlotsExact
  <2>4. SlotsOK'
    BY <1>4, <2>1 DEF IInv, Counts, SlotsOK
  <2>5. QueueOK'
    BY <1>6, <2>1 DEF IInv, Counts, QueueOK
  <2>6. LimitOK'
    <3>1. limit \in Nat
      BY TransferAssumption DEF IInv, TypeOK
    <3> QED
      BY <1>2, <2>1, <3>1 DEF IInv, Counts, LimitOK
  <2>7. active' \in Nat /\ waiting' \in Seq(Transfers) /\ started' \in [Transfers -> BOOLEAN]
    BY <1>3, <2>1 DEF IInv, TypeOK
  <2> QED
    BY <1>4, <2>3, <2>4, <2>5, <2>6, <2>7 DEF Counts
<1> QED
  BY <1>5, <1>6

\* The manager's goroutine frees the slot, and forgets the transfer.
LEMMA ManagerSteps ==
  ASSUME IInv, NEW t \in Transfers, SeesInactive(t) \/ Forgets(t)
  PROVE  IInv'
<1> USE DEF tm, work, life, manager, client
<1>1. /\ UNCHANGED <<limit, adjusted, fn, idle, below, result, layer, cancelled, watchers, closed, released, wt, pc, at>>
      /\ freed' = [freed EXCEPT ![t] = TRUE]
      /\ fn[t] \in {"registering", "ended"}
  BY DEF SeesInactive, Forgets, Ended, IInv, Counts, SlotsOK
<1>2. (Inactivate(t) /\ ~freed[t]) \/ (freed[t] /\ UNCHANGED <<active, waiting, started>>)
  BY DEF SeesInactive, Forgets
<1>3. /\ Counts' /\ active' \in Nat /\ waiting' \in Seq(Transfers)
      /\ started' \in [Transfers -> BOOLEAN] /\ freed' \in [Transfers -> BOOLEAN]
  <2>1. CASE Inactivate(t) /\ ~freed[t]
    BY <1>1, <2>1, InactivateStep
  <2>2. CASE freed[t] /\ UNCHANGED <<active, waiting, started>>
    <3>1. freed' = freed
      BY <1>1, <2>2 DEF IInv, TypeOK
    <3>2. \A u \in Transfers : /\ fn[u] \in {"running", "registering", "ended"} => started[u]
                               /\ idle[u] \/ freed[u] => fn[u] \in {"registering", "ended"}
      BY DEF IInv, Counts, SlotsOK
    <3>3. Counts'
      BY <1>1, <2>2, <3>1, <3>2, CountsKept
    <3> QED
      BY <2>2, <3>1, <3>3 DEF IInv, TypeOK
  <2> QED
    BY <1>2, <2>1, <2>2
<1>4. transfers' \in [Keys -> Transfers \cup {None}] /\ mgr' \in [Transfers -> {"watch", "closing", "ended"}]
  BY DEF SeesInactive, Forgets, IInv, TypeOK
<1>5. TypeOK'
  BY <1>1, <1>3, <1>4 DEF IInv, TypeOK
<1> QED
  BY <1>3, <1>5 DEF IInv

\* SetConcurrency changes the limit, and no slot.
LEMMA LimitStep ==
  ASSUME IInv, NEW k \in Limits, SetConcurrency(k)
  PROVE  IInv'
<1>1. UNCHANGED <<active, waiting, transfers, started, work, life, manager, client>> /\ limit' = k /\ adjusted'
  BY DEF SetConcurrency
<1> USE DEF work, life, manager, client
<1>2. TypeOK'
  BY <1>1 DEF IInv, TypeOK, SetConcurrency
<1>3. Occupying' = Occupying
  BY <1>1 DEF Occupying
<1>4. Counts'
  BY <1>1, <1>3 DEF IInv, Counts, SlotsExact, SlotsOK, QueueOK, LimitOK
<1> QED
  BY <1>2, <1>4 DEF IInv

\* A pull starts a transfer: it takes a slot, or its place in the queue.
LEMMA StartsStep ==
  ASSUME IInv, NEW c \in Clients, NEW t \in Transfers, Starts(c, t)
  PROVE  IInv'
<1> USE DEF tm, work, life, manager, client
<1>1. /\ Pull[c][at[c]] \in Keys /\ W(c) \in Watchers /\ Below(c) \in Transfers \cup {None}
      /\ Len(Pull[c]) \in Nat \ {0} /\ DOMAIN Pull[c] = 1..Len(Pull[c]) /\ at[c] \in 1..Len(Pull[c])
  BY PullFacts DEF IInv
<1>2. /\ UNCHANGED <<limit, adjusted, idle, result, layer, cancelled, closed, released, mgr, freed>>
      /\ fn[t] = "none" /\ fn' = [fn EXCEPT ![t] = "waiting"]
      /\ below' = [below EXCEPT ![t] = Below(c)]
      /\ transfers' = [transfers EXCEPT ![Pull[c][at[c]]] = t]
      /\ wt' = [wt EXCEPT ![W(c)] = t]
      /\ watchers' = [watchers EXCEPT ![t] = {W(c)}]
  BY DEF Starts, Fresh
<1>3. ~started[t] /\ ~freed[t] /\ ~idle[t] /\ t \notin Occupying /\ fn'[t] = "waiting"
      /\ (\A u \in Transfers \ {t} : fn'[u] = fn[u])
  BY <1>2 DEF IInv, TypeOK, Counts, SlotsOK, Occupying
<1>4. /\ IsFiniteSet(Occupying) /\ active = Cardinality(Occupying) /\ active \in Nat /\ limit \in Nat
  BY OccupyingFinite, TransferAssumption DEF IInv, Counts, SlotsExact, TypeOK
<1>5. waiting \in Seq(Transfers) /\ \A i \in DOMAIN waiting : waiting[i] \in Transfers /\ waiting[i] # t
  <2>1. waiting \in Seq(Transfers) /\ \A i \in DOMAIN waiting : waiting[i] \in Transfers
    BY DEF IInv, TypeOK
  <2> QED
    BY <1>2, <2>1 DEF IInv, Counts, QueueOK
<1>6. /\ Counts' /\ active' \in Nat /\ waiting' \in Seq(Transfers) /\ started' \in [Transfers -> BOOLEAN]
  <2>1. CASE limit = 0 \/ active < limit
    <3>1. started' = [started EXCEPT ![t] = TRUE] /\ active' = active + 1 /\ waiting' = waiting
      BY <2>1 DEF Starts
    <3>2. /\ started' \in [Transfers -> BOOLEAN] /\ started'[t]
          /\ \A u \in Transfers \ {t} : started'[u] = started[u]
      BY <3>1 DEF IInv, TypeOK
    <3>3. Occupying' = Occupying \cup {t}
      BY <1>2, <1>3, <3>2 DEF Occupying
    <3>4. Cardinality(Occupying') = Cardinality(Occupying) + 1
      BY <1>3, <1>4, <3>3, FS_AddElement
    <3>5. SlotsExact'
      BY <1>4, <3>1, <3>4 DEF SlotsExact
    <3>6. SlotsOK'
      BY <1>2, <1>3, <3>2 DEF IInv, Counts, SlotsOK
    <3>7. QueueOK'
      <4>1. \A i \in DOMAIN waiting : fn'[waiting[i]] = "waiting" /\ ~started'[waiting[i]]
        BY <1>3, <1>5, <3>2 DEF IInv, Counts, QueueOK
      <4>2. active' > 0
        BY <1>4, <3>1
      <4> QED
        BY <3>1, <4>1, <4>2 DEF IInv, Counts, QueueOK
    <3>8. LimitOK'
      BY <1>2, <1>4, <2>1, <3>1 DEF LimitOK
    <3> QED
      BY <1>4, <1>5, <3>1, <3>2, <3>5, <3>6, <3>7, <3>8 DEF Counts
  <2>2. CASE ~(limit = 0 \/ active < limit)
    <3>1. started' = started /\ active' = active /\ waiting' = Append(waiting, t)
      BY <2>2 DEF Starts
    <3>2. Occupying' = Occupying
      BY <1>2, <3>1 DEF Occupying
    <3>3. SlotsExact' /\ LimitOK'
      BY <1>2, <3>1, <3>2 DEF IInv, Counts, SlotsExact, LimitOK
    <3>4. SlotsOK'
      BY <1>2, <1>3, <3>1 DEF IInv, Counts, SlotsOK
    <3>5. /\ waiting' \in Seq(Transfers) /\ waiting'[Len(waiting) + 1] = t /\ Len(waiting) \in Nat
          /\ DOMAIN waiting = 1..Len(waiting) /\ DOMAIN waiting' = 1..(Len(waiting) + 1)
          /\ \A i \in DOMAIN waiting : waiting'[i] = waiting[i]
      BY <1>5, <3>1
    <3>6. \A i \in DOMAIN waiting' : i \in DOMAIN waiting \/ i = Len(waiting) + 1
      BY <3>5
    <3>7. \A i \in DOMAIN waiting' : fn'[waiting'[i]] = "waiting" /\ ~started'[waiting'[i]]
      BY <1>3, <1>5, <3>1, <3>5, <3>6 DEF IInv, Counts, QueueOK
    <3>8. \A i, j \in DOMAIN waiting' : waiting'[i] = waiting'[j] => i = j
      BY <1>5, <3>5, <3>6 DEF IInv, Counts, QueueOK
    <3>9. active' > 0
      BY <1>4, <2>2, <3>1
    <3>10. QueueOK'
      BY <3>7, <3>8, <3>9 DEF QueueOK
    <3> QED
      BY <1>4, <3>1, <3>3, <3>4, <3>5, <3>10 DEF IInv, TypeOK, Counts
  <2> QED
    BY <2>1, <2>2
<1>7. /\ fn' \in [Transfers -> {"none", "waiting", "running", "registering", "ended"}]
      /\ below' \in [Transfers -> Transfers \cup {None}]
      /\ transfers' \in [Keys -> Transfers \cup {None}]
      /\ wt' \in [Watchers -> Transfers \cup {None}]
      /\ watchers' \in [Transfers -> SUBSET Watchers]
  BY <1>1, <1>2 DEF IInv, TypeOK
<1>8. pc' \in [Clients -> {"call", "await", "wait", "lower", "has", "release", "over"}]
  <2>1. pc' = pc \/ pc' = [pc EXCEPT ![c] = "wait"]
    BY Zenon DEF Starts, Advance
  <2> QED
    BY <2>1 DEF IInv, TypeOK
<1>9. /\ at' \in [Clients -> Nat] /\ at'[c] \in 1..Len(Pull[c])
      /\ \A d \in Clients \ {c} : at'[d] = at[d]
  <2>1. at' = at \/ (at' = [at EXCEPT ![c] = at[c] + 1] /\ at[c] # Len(Pull[c]))
    BY Zenon DEF Starts, Advance
  <2>2. at[c] # Len(Pull[c]) => at[c] + 1 \in 1..Len(Pull[c])
    BY <1>1
  <2>3. at' = at \/ \E k \in 1..Len(Pull[c]) : at' = [at EXCEPT ![c] = k]
    BY <2>1, <2>2, Zenon
  <2> QED
    BY <1>1, <2>3, AtMoves DEF IInv
<1>10. \A d \in Clients : at'[d] \in DOMAIN Pull[d]
  BY <1>1, <1>9 DEF IInv, TypeOK
<1>11. TypeOK'
  BY <1>2, <1>6, <1>7, <1>8, <1>9, <1>10 DEF IInv, TypeOK
<1> QED
  BY <1>6, <1>11 DEF IInv
-----------------------------------------------------------------------------
\* The inductive invariant holds in every reachable state.
THEOREM Invariance == Safety => []IInv
<1>1. ASSUME IInv, UNCHANGED vars PROVE IInv'
  <2> USE <1>1 DEF vars, tm, work, life, manager, client
  <2>1. TypeOK'
    BY DEF IInv, TypeOK
  <2>2. Occupying' = Occupying
    BY DEF Occupying
  <2>3. Counts'
    BY <2>2 DEF IInv, Counts, SlotsExact, SlotsOK, QueueOK, LimitOK
  <2> QED
    BY <2>1, <2>3 DEF IInv
<1>2. IInv /\ [Next]_vars => IInv'
  BY <1>1, WorkSteps, ManagerSteps, LimitStep, PullSteps, StartsStep, Zenon DEF Next, WorkStep
<1> QED
  BY <1>2, InitIInv, PTL DEF Safety

(***************************************************************************)
(* For any pulls, transfers and limits: the count of slots is exact, the   *)
(* limit is kept until it is changed, and a transfer that waits has one    *)
(* with a slot to wait for (SlotsKept).                                    *)
(***************************************************************************)
THEOREM Correctness == Safety => []SlotsKept
<1>1. ASSUME IInv PROVE LimitKept
  <2> DEFINE R == {t \in Transfers : fn[t] = "running"}
  <2>1. R \subseteq Occupying
    BY <1>1 DEF IInv, Counts, SlotsOK, Occupying
  <2>2. IsFiniteSet(R) /\ Cardinality(R) <= Cardinality(Occupying) /\ Cardinality(R) \in Nat
    BY <2>1, OccupyingFinite, FS_Subset, FS_CardinalityType
  <2>3. limit \in Nat /\ active = Cardinality(Occupying) /\ active \in Nat
    BY <1>1, TransferAssumption DEF IInv, TypeOK, Counts, SlotsExact
  <2> HIDE DEF R
  <2>4. ~adjusted /\ limit # 0 => Cardinality(R) <= limit
    BY <1>1, <2>2, <2>3 DEF IInv, Counts, LimitOK
  <2> QED
    BY <2>4 DEF LimitKept, R
<1>2. ASSUME IInv PROVE QueueServed
  <2>1. Occupying = {} => active = 0
    BY <1>2, FS_EmptySet DEF IInv, Counts, SlotsExact
  <2> QED
    BY <1>2, <2>1 DEF IInv, Counts, QueueOK, QueueServed
<1>3. IInv => SlotsKept
  BY <1>1, <1>2 DEF IInv, Counts, SlotsKept
<1> QED
  BY <1>3, Invariance, PTL
-----------------------------------------------------------------------------
(***************************************************************************)
(* The watchers.  The argument: the last watcher to leave cancels, and     *)
(* nobody watches a cancelled transfer; the manager forgets a transfer     *)
(* before it closes it, so that a closed one gets no more watchers, and is *)
(* released when the last one has left.                                    *)
(***************************************************************************)
\* Nobody knows of a transfer that was not started.
FreshOK ==
    \A t \in Transfers : fn[t] = "none" =>
        /\ ~cancelled[t] /\ ~closed[t] /\ mgr[t] = "watch"
        /\ \A w \in Watchers : wt[w] # t
        /\ \A k \in Keys : transfers[k] # t

\* What the manager has closed is forgotten, and released when nobody watches it.
ManagerOK ==
    \A t \in Transfers :
        /\ mgr[t] # "watch" => \A k \in Keys : transfers[k] # t
        /\ closed[t] => mgr[t] = "ended"
        /\ released[t] => closed[t] /\ watchers[t] = {}

\* The layer of a transfer that succeeded is dropped after its release.
LayerOK ==
    \A t \in Transfers :
        /\ fn[t] # "ended" => result[t] = "none"
        /\ result[t] = "ok" => layer[t] \in {"held", "dropped"}
        /\ layer[t] = "dropped" => released[t]

TopW(c) == <<c, Pull[c][Len(Pull[c])]>>

\* A pull that waits, or has its result, watches the transfer of its top layer.
PullOK ==
    \A c \in Clients :
        /\ pc[c] \in {"wait", "lower", "has"} => wt[TopW(c)] # None
        /\ pc[c] \in {"lower", "has"} => result[wt[TopW(c)]] = "ok"
        /\ pc[c] = "lower" => at[c] # Len(Pull[c])

Shared == FreshOK /\ WatchedIsLive /\ OneTransferPerKey /\ ManagerOK /\ LayerOK /\ PullOK

\* The top layer of a pull.
LEMMA TopFacts ==
  ASSUME TypeOK, NEW c \in Clients
  PROVE  /\ TopW(c) \in Watchers /\ wt[TopW(c)] \in Transfers \cup {None} /\ Top(c) = wt[TopW(c)]
         /\ at[c] # Len(Pull[c]) => W(c) # TopW(c)
         /\ at[c] = Len(Pull[c]) => W(c) = TopW(c)
<1>1. Len(Pull[c]) \in DOMAIN Pull[c] /\ at[c] \in DOMAIN Pull[c]
  BY PullFacts
<1>2. Pull[c][Len(Pull[c])] \in Keys
  BY <1>1 DEF Keys
<1>3. TopW(c) \in Watchers
  BY <1>2 DEF TopW, Watchers
<1>4. at[c] # Len(Pull[c]) => Pull[c][at[c]] # Pull[c][Len(Pull[c])]
  BY <1>1, TransferAssumption
<1>5. at[c] # Len(Pull[c]) => W(c) # TopW(c)
  BY <1>4 DEF TopW, W
<1>6. wt[TopW(c)] \in Transfers \cup {None}
  BY <1>3 DEF TypeOK
<1>7. Top(c) = wt[TopW(c)] /\ (at[c] = Len(Pull[c]) => W(c) = TopW(c))
  BY DEF Top, TopW, W
<1> QED
  BY <1>3, <1>5, <1>6, <1>7

\* Initially nobody watches.
LEMMA InitShared == Init => Shared
<1> SUFFICES ASSUME Init PROVE Shared
  OBVIOUS
<1>1. FreshOK /\ ManagerOK /\ LayerOK
  BY TransferAssumption DEF Init, FreshOK, ManagerOK, LayerOK
<1>2. WatchedIsLive /\ OneTransferPerKey
  BY DEF Init, WatchedIsLive, OneTransferPerKey
<1>3. PullOK
  BY DEF Init, PullOK
<1> QED
  BY <1>1, <1>2, <1>3 DEF Shared

\* The goroutine of a transfer.
LEMMA WorkShared ==
  ASSUME IInv, Shared, NEW t \in Transfers, WorkStep(t) \/ ReleasesLayer(t)
  PROVE  Shared'
<1> USE DEF tm, life, manager, client
<1>1. /\ UNCHANGED <<transfers, cancelled, watchers, closed, released, mgr, wt, pc, at>>
      /\ \A u \in Transfers : fn'[u] = "none" => fn[u] = "none"
      /\ \A u \in Transfers : fn[u] = "ended" => fn'[u] = "ended"
  BY DEF WorkStep, Begins, Downloads, Fails, Registers, ReleasesLayer, IInv, TypeOK
<1>2. \A u \in Transfers : result[u] = "ok" => result'[u] = "ok"
  BY DEF WorkStep, Begins, Downloads, Fails, Registers, ReleasesLayer, IInv, TypeOK, Shared, LayerOK
<1>3. FreshOK'
  BY <1>1 DEF Shared, FreshOK
<1>4. WatchedIsLive'
  BY <1>1 DEF Shared, WatchedIsLive, W
<1>5. OneTransferPerKey'
  BY <1>1 DEF Shared, OneTransferPerKey, Ended, IInv, TypeOK
<1>6. ManagerOK'
  BY <1>1 DEF Shared, ManagerOK
<1>7. LayerOK'
  <2> USE DEF Shared, LayerOK, IInv, TypeOK
  <2>1. CASE Begins(t)
    BY <2>1 DEF Begins
  <2>2. CASE Downloads(t)
    BY <2>2 DEF Downloads
  <2>3. CASE Fails(t)
    BY <2>3 DEF Fails
  <2>4. CASE Registers(t)
    BY <2>4 DEF Registers
  <2>5. CASE ReleasesLayer(t)
    BY <2>5 DEF ReleasesLayer
  <2> QED
    BY <2>1, <2>2, <2>3, <2>4, <2>5 DEF WorkStep
<1>8. PullOK'
  <2>1. \A c \in Clients : wt[TopW(c)] \in Transfers \cup {None}
    BY TopFacts DEF IInv
  <2> QED
    BY <1>1, <1>2, <2>1 DEF Shared, PullOK, TopW
<1> QED
  BY <1>3, <1>4, <1>5, <1>6, <1>7, <1>8 DEF Shared

\* Steps that concern the slots only.
LEMMA OtherShared ==
  ASSUME Shared, (\E k \in Limits : SetConcurrency(k)) \/ UNCHANGED vars
  PROVE  Shared'
<1>1. UNCHANGED <<transfers, fn, result, layer, cancelled, watchers, closed, released, mgr, wt, pc, at>>
  BY DEF SetConcurrency, vars, tm, work, life, manager, client
<1> QED
  BY <1>1 DEF Shared, FreshOK, WatchedIsLive, OneTransferPerKey, ManagerOK, LayerOK, PullOK, W,
        TopW, Ended

\* The goroutine of the manager.
LEMMA ManagerShared ==
  ASSUME IInv, Shared, NEW t \in Transfers, SeesInactive(t) \/ Forgets(t) \/ Closes(t)
  PROVE  Shared'
<1> USE DEF tm, work, life, manager, client
<1>1. /\ UNCHANGED <<fn, result, layer, cancelled, watchers, wt, pc, at>>
      /\ \A k \in Keys : transfers'[k] = transfers[k] \/ (transfers'[k] = None /\ transfers[k] = t /\ Ended(t))
  BY DEF SeesInactive, Forgets, Closes, IInv, TypeOK
<1>2. /\ \A u \in Transfers \ {t} : mgr'[u] = mgr[u] /\ closed'[u] = closed[u] /\ released'[u] = released[u]
      /\ released[t] => released'[t]
      /\ \/ mgr'[t] = mgr[t] /\ closed'[t] = closed[t] /\ released'[t] = released[t]
         \/ /\ Ended(t) /\ mgr'[t] = "closing" /\ closed'[t] = closed[t] /\ released'[t] = released[t]
            /\ mgr[t] = "watch" /\ \A k \in Keys : transfers'[k] # t
         \/ mgr[t] = "closing" /\ mgr'[t] = "ended" /\ closed'[t] /\ (released'[t] <=> watchers[t] = {})
  <2> USE DEF IInv, TypeOK
  <2>1. CASE SeesInactive(t)
    BY <2>1 DEF SeesInactive
  <2>2. CASE Forgets(t)
    <3>1. UNCHANGED <<closed, released>> /\ mgr[t] = "watch" /\ mgr' = [mgr EXCEPT ![t] = "closing"] /\ Ended(t)
      BY <2>2 DEF Forgets
    <3>2. \A k \in Keys : transfers'[k] # t
      BY <2>2, TransferAssumption DEF Forgets
    <3> QED
      BY <3>1, <3>2
  <2>3. CASE Closes(t)
    <3>1. /\ mgr[t] = "closing" /\ mgr' = [mgr EXCEPT ![t] = "ended"]
          /\ closed' = [closed EXCEPT ![t] = TRUE]
          /\ released' = [released EXCEPT ![t] = watchers[t] = {}]
      BY <2>3 DEF Closes
    <3>2. ~released[t]
      BY <3>1 DEF Shared, ManagerOK
    <3>3. released'[t] <=> watchers[t] = {}
      BY <3>1
    <3>4. mgr'[t] = "ended" /\ closed'[t]
      BY <3>1
    <3>5. \A u \in Transfers \ {t} : mgr'[u] = mgr[u] /\ closed'[u] = closed[u] /\ released'[u] = released[u]
      BY <3>1
    <3> QED
      BY <3>1, <3>2, <3>3, <3>4, <3>5
  <2> QED
    BY <2>1, <2>2, <2>3
<1>3. FreshOK'
  BY <1>1, <1>2, TransferAssumption DEF Shared, FreshOK, Ended
<1>4. WatchedIsLive'
  BY <1>1 DEF Shared, WatchedIsLive, W
<1>5. OneTransferPerKey'
  <2>1. \A w \in Watchers : w[2] \in Keys
    BY DEF Watchers
  <2> QED
    BY <1>1, <2>1 DEF Shared, OneTransferPerKey, Ended
<1>6. ManagerOK'
  BY <1>1, <1>2, TransferAssumption DEF Shared, ManagerOK
<1>7. LayerOK'
  BY <1>1, <1>2 DEF Shared, LayerOK
<1>8. PullOK'
  BY <1>1 DEF Shared, PullOK, TopW
<1> QED
  BY <1>3, <1>4, <1>5, <1>6, <1>7, <1>8 DEF Shared

\* Watchers are pairs, and those of different pulls differ.
LEMMA WatcherFacts ==
  ASSUME TypeOK, NEW c \in Clients
  PROVE  /\ \A w \in Watchers : w[1] \in Clients /\ w[2] \in Keys
         /\ W(c)[1] = c /\ W(c)[2] = Pull[c][at[c]]
         /\ \A d \in Clients \ {c} : TopW(d) # W(c)
  BY DEF Watchers, W, TopW

\* A pull starts a transfer, or watches one that is not cancelled: it is one of its watchers.
LEMMA WatchShared ==
  ASSUME IInv, Shared, NEW c \in Clients, NEW t \in Transfers, pc[c] = "call",
         wt' = [wt EXCEPT ![W(c)] = t], W(c) \in watchers'[t],
         \A u \in Transfers \ {t} : watchers'[u] = watchers[u] /\ fn'[u] = fn[u],
         Advance(c), ~cancelled[t], ~closed[t], mgr[t] = "watch", fn'[t] # "none",
         fn'[t] = fn[t] \/ (fn[t] = "none" /\ fn'[t] = "waiting"),
         fn[t] = "none" \/ watchers[t] \subseteq watchers'[t],
         transfers' = [transfers EXCEPT ![Pull[c][at[c]]] = t],
         transfers[Pull[c][at[c]]] \in {t, None},
         UNCHANGED <<cancelled, closed, released, mgr, result, layer>>
  PROVE  Shared'
<1> DEFINE k == Pull[c][at[c]]
<1>0. /\ k \in Keys /\ W(c) \in Watchers /\ None \notin Transfers
      /\ \A w \in Watchers : w[1] \in Clients /\ w[2] \in Keys
      /\ W(c)[1] = c /\ W(c)[2] = k
      /\ \A d \in Clients \ {c} : TopW(d) # W(c)
      /\ \A d \in Clients : TopW(d) \in Watchers
      /\ at[c] = Len(Pull[c]) => W(c) = TopW(c)
  BY PullFacts, WatcherFacts, TopFacts, TransferAssumption DEF IInv
<1>1. /\ wt'[W(c)] = t /\ \A w \in Watchers \ {W(c)} : wt'[w] = wt[w]
      /\ transfers'[k] = t /\ \A j \in Keys \ {k} : transfers'[j] = transfers[j]
  BY <1>0 DEF IInv, TypeOK
<1>2. /\ \A d \in Clients \ {c} : pc'[d] = pc[d] /\ at'[d] = at[d]
      /\ pc'[c] = "call" \/ (pc'[c] = "wait" /\ at[c] = Len(Pull[c]))
  BY DEF Advance, IInv, TypeOK
<1>3. ~released[t]
  BY DEF Shared, ManagerOK
<1> HIDE DEF k
<1>4. FreshOK'
  BY <1>0, <1>1 DEF Shared, FreshOK
<1>5. WatchedIsLive'
  <2> SUFFICES ASSUME NEW w \in Watchers, wt'[w] # None
               PROVE  \/ w \in watchers'[wt'[w]] /\ ~cancelled'[wt'[w]]
                      \/ pc'[w[1]] = "await" /\ w = W(w[1])'
    BY DEF WatchedIsLive, W
  <2>1. CASE w = W(c)
    BY <1>1, <2>1
  <2>2. CASE w # W(c)
    <3>1. wt'[w] = wt[w] /\ wt[w] \in Transfers
      BY <1>1, <2>2 DEF IInv, TypeOK
    <3>2. CASE w \in watchers[wt[w]] /\ ~cancelled[wt[w]]
      <4>1. wt[w] = t => fn[t] # "none"
        BY DEF Shared, FreshOK
      <4> QED
        BY <3>1, <3>2, <4>1
    <3>3. CASE pc[w[1]] = "await" /\ w = W(w[1])
      BY <1>0, <1>2, <3>3 DEF W
    <3> QED
      BY <3>1, <3>2, <3>3 DEF Shared, WatchedIsLive
  <2> QED
    BY <2>1, <2>2
<1>6. OneTransferPerKey'
  <2> SUFFICES ASSUME NEW w \in Watchers, wt'[w] # None, fn'[wt'[w]] # "ended"
               PROVE  transfers'[w[2]] = wt'[w]
    BY DEF OneTransferPerKey, Ended
  <2>1. CASE w = W(c)
    BY <1>0, <1>1, <2>1
  <2>2. CASE w # W(c)
    <3>1. wt'[w] = wt[w] /\ wt[w] \in Transfers
      BY <1>1, <2>2 DEF IInv, TypeOK
    <3>2. fn[wt[w]] # "ended"
      BY <3>1
    <3>3. transfers[w[2]] = wt[w]
      BY <3>1, <3>2 DEF Shared, OneTransferPerKey, Ended
    <3> QED
      BY <1>0, <1>1, <3>1, <3>3 DEF k
  <2> QED
    BY <2>1, <2>2
<1>7. ManagerOK'
  BY <1>0, <1>1, <1>3 DEF Shared, ManagerOK
<1>8. LayerOK'
  BY DEF Shared, LayerOK
<1>9. PullOK'
  <2>1. TopW(c)' = TopW(c) /\ \A d \in Clients : TopW(d)' = TopW(d)
    BY DEF TopW
  <2>2. \A d \in Clients \ {c} : wt'[TopW(d)] = wt[TopW(d)]
    BY <1>0, <1>1
  <2>3. pc'[c] = "wait" => wt'[TopW(c)] # None
    BY <1>0, <1>1, <1>2
  <2> QED
    BY <1>2, <2>1, <2>2, <2>3 DEF Shared, PullOK
<1> QED
  BY <1>4, <1>5, <1>6, <1>7, <1>8, <1>9 DEF Shared

\* A pull asks for a layer: it finds a transfer, alive or cancelled, or starts one.
LEMMA CallShared ==
  ASSUME IInv, Shared, NEW c \in Clients, Finds(c) \/ \E t \in Transfers : Starts(c, t)
  PROVE  Shared'
<1> USE DEF tm, work, manager
<1> DEFINE k == Pull[c][at[c]]
<1>0. /\ k \in Keys /\ W(c) \in Watchers /\ transfers[k] \in Transfers \cup {None}
  BY PullFacts DEF IInv, TypeOK
<1>1. ASSUME NEW t \in Transfers, Starts(c, t) PROVE Shared'
  <2>1. fn[t] = "none" /\ ~cancelled[t] /\ ~closed[t] /\ mgr[t] = "watch"
    BY <1>1 DEF Starts, Fresh, Shared, FreshOK
  <2>2. /\ watchers' = [watchers EXCEPT ![t] = {W(c)}] /\ fn' = [fn EXCEPT ![t] = "waiting"]
        /\ wt' = [wt EXCEPT ![W(c)] = t] /\ Advance(c) /\ pc[c] = "call"
        /\ transfers' = [transfers EXCEPT ![k] = t] /\ transfers[k] = None
        /\ UNCHANGED <<cancelled, closed, released, mgr, result, layer>>
    BY <1>1 DEF Starts
  <2>3. /\ W(c) \in watchers'[t] /\ fn'[t] = "waiting"
        /\ \A u \in Transfers \ {t} : watchers'[u] = watchers[u] /\ fn'[u] = fn[u]
    BY <2>2 DEF IInv, TypeOK
  <2> QED
    BY <2>1, <2>2, <2>3, WatchShared
<1>2. CASE Finds(c) /\ ~cancelled[transfers[k]]
  <2> DEFINE t == transfers[k]
  <2>1. /\ t \in Transfers /\ watchers' = [watchers EXCEPT ![t] = @ \cup {W(c)}]
        /\ wt' = [wt EXCEPT ![W(c)] = t] /\ Advance(c) /\ pc[c] = "call"
        /\ UNCHANGED <<transfers, fn, cancelled, closed, released, mgr, result, layer>>
    BY <1>0, <1>2 DEF Finds
  <2>2. fn[t] # "none" /\ mgr[t] = "watch" /\ ~closed[t]
    BY <1>0, <2>1 DEF Shared, FreshOK, ManagerOK
  <2>3. /\ W(c) \in watchers'[t] /\ watchers[t] \subseteq watchers'[t]
        /\ \A u \in Transfers \ {t} : watchers'[u] = watchers[u]
    BY <2>1 DEF IInv, TypeOK
  <2>4. transfers' = [transfers EXCEPT ![k] = t]
    BY <1>0, <2>1 DEF IInv, TypeOK
  <2> QED
    BY <1>2, <2>1, <2>2, <2>3, <2>4, WatchShared
<1>3. CASE Finds(c) /\ cancelled[transfers[k]]
  <2> DEFINE t == transfers[k]
  <2>1. /\ t \in Transfers /\ wt' = [wt EXCEPT ![W(c)] = t] /\ pc[c] = "call"
        /\ pc' = [pc EXCEPT ![c] = "await"]
        /\ UNCHANGED <<transfers, fn, cancelled, watchers, closed, released, mgr, result, layer, at>>
    BY <1>0, <1>3 DEF Finds
  <2>2. /\ \A w \in Watchers : w[1] \in Clients /\ w[2] \in Keys
        /\ W(c)[1] = c /\ W(c)[2] = k
        /\ \A d \in Clients \ {c} : TopW(d) # W(c)
        /\ \A d \in Clients : TopW(d) \in Watchers
    BY WatcherFacts, TopFacts DEF IInv
  <2>3. /\ wt'[W(c)] = t /\ \A w \in Watchers \ {W(c)} : wt'[w] = wt[w]
        /\ pc'[c] = "await" /\ \A d \in Clients \ {c} : pc'[d] = pc[d]
    BY <1>0, <2>1 DEF IInv, TypeOK
  <2>4. fn[t] # "none"
    BY <1>0, <2>1 DEF Shared, FreshOK
  <2>a. \A d \in Clients : TopW(d)' = TopW(d) /\ W(d)' = W(d)
    BY <2>1 DEF TopW, W
  <2> HIDE DEF t, k
  <2>5. FreshOK'
    BY <2>1, <2>3, <2>4 DEF Shared, FreshOK
  <2>6. WatchedIsLive'
    <3> SUFFICES ASSUME NEW w \in Watchers, wt'[w] # None
                 PROVE  \/ w \in watchers'[wt'[w]] /\ ~cancelled'[wt'[w]]
                        \/ pc'[w[1]] = "await" /\ w = W(w[1])'
      BY DEF WatchedIsLive, W
    <3>1. CASE w = W(c)
      BY <2>2, <2>3, <2>a, <3>1
    <3>2. CASE w # W(c)
      BY <2>1, <2>2, <2>3, <2>a, <3>2 DEF Shared, WatchedIsLive
    <3> QED
      BY <3>1, <3>2
  <2>7. OneTransferPerKey'
    BY <2>1, <2>2, <2>3 DEF Shared, OneTransferPerKey, Ended, t
  <2>8. ManagerOK' /\ LayerOK'
    BY <2>1 DEF Shared, ManagerOK, LayerOK
  <2>9. PullOK'
    BY <2>1, <2>2, <2>3, <2>a DEF Shared, PullOK
  <2> QED
    BY <2>5, <2>6, <2>7, <2>8, <2>9 DEF Shared
<1> QED
  BY <1>1, <1>2, <1>3

\* A pull gets its result, or does not wait for it.
LEMMA ResultShared ==
  ASSUME IInv, Shared, NEW c \in Clients, Result(c) \/ ContextDone(c) \/ UsesResult(c)
  PROVE  Shared'
<1> USE DEF tm, work, life, manager
<1>1. /\ UNCHANGED <<transfers, fn, result, layer, cancelled, watchers, closed, released, mgr, wt>>
      /\ pc[c] \in {"wait", "has"}
  BY DEF Result, ContextDone, UsesResult
<1>2. /\ Top(c) = wt[TopW(c)] /\ Len(Pull[c]) \in Nat
      /\ \A w \in Watchers : w[1] \in Clients
  BY PullFacts, TopFacts, WatcherFacts DEF IInv
<1>3. /\ \A d \in Clients \ {c} : pc'[d] = pc[d] /\ at'[d] = at[d]
      /\ pc'[c] \in {"lower", "has", "release"}
      /\ pc'[c] \in {"lower", "has"} => pc[c] = "wait" /\ result[wt[TopW(c)]] = "ok"
      /\ pc'[c] = "lower" => at'[c] # Len(Pull[c])
  <2> USE DEF IInv, TypeOK
  <2>1. CASE Result(c)
    <3>1. /\ \A d \in Clients \ {c} : pc'[d] = pc[d] /\ at'[d] = at[d]
          /\ pc'[c] \in {"lower", "has", "release"} /\ pc[c] = "wait"
          /\ pc'[c] \in {"lower", "has"} => result[Top(c)] = "ok"
      BY <2>1 DEF Result
    <3>2. pc'[c] = "lower" => at'[c] = Len(Pull[c]) - 1
      BY <2>1 DEF Result
    <3> QED
      BY <1>2, <3>1, <3>2
  <2>2. CASE ContextDone(c) \/ UsesResult(c)
    BY <2>2 DEF ContextDone, UsesResult
  <2> QED
    BY <2>1, <2>2
<1>4. FreshOK' /\ OneTransferPerKey' /\ ManagerOK' /\ LayerOK'
  BY <1>1 DEF Shared, FreshOK, OneTransferPerKey, Ended, ManagerOK, LayerOK
<1>5. WatchedIsLive'
  BY <1>1, <1>2, <1>3 DEF Shared, WatchedIsLive, W
<1>6. PullOK'
  <2>1. \A d \in Clients : TopW(d)' = TopW(d)
    BY DEF TopW
  <2> QED
    BY <1>1, <1>3, <2>1 DEF Shared, PullOK
<1> QED
  BY <1>4, <1>5, <1>6 DEF Shared

\* A pull stops watching: at the end of a cancelled transfer, or by Release.
LEMMA LeaveShared ==
  ASSUME IInv, Shared, NEW c \in Clients, Awaits(c) \/ Release(c)
  PROVE  Shared'
<1> USE DEF tm, work, life, manager
<1> DEFINE t == wt[W(c)]
<1>0. /\ W(c) \in Watchers /\ t \in Transfers \cup {None} /\ None \notin Transfers
      /\ Len(Pull[c]) \in Nat \ {0} /\ at[c] \in 1..Len(Pull[c])
  BY PullFacts, TransferAssumption DEF IInv, TypeOK
<1>1. /\ \A w \in Watchers : w[1] \in Clients /\ w[2] \in Keys
      /\ W(c)[1] = c
      /\ \A d \in Clients \ {c} : TopW(d) # W(c)
      /\ \A d \in Clients : TopW(d) \in Watchers
      /\ at[c] # Len(Pull[c]) => TopW(c) # W(c)
  BY WatcherFacts, TopFacts DEF IInv
<1>2. /\ UNCHANGED <<transfers, fn, result, layer, closed, mgr>>
      /\ wt' = [wt EXCEPT ![W(c)] = None]
      /\ pc[c] \in {"await", "release", "lower"}
  BY DEF Awaits, Release
<1>3. wt'[W(c)] = None /\ \A w \in Watchers \ {W(c)} : wt'[w] = wt[w]
  BY <1>0, <1>2 DEF IInv, TypeOK
<1>4. /\ \A u \in Transfers \ {t} :
            watchers'[u] = watchers[u] /\ released'[u] = released[u] /\ cancelled'[u] = cancelled[u]
      /\ t \in Transfers =>
            /\ watchers'[t] = watchers[t] \/ watchers'[t] = watchers[t] \ {W(c)}
            /\ released[t] => released'[t]
            /\ released'[t] => released[t] \/ (watchers'[t] = {} /\ closed[t])
            /\ cancelled'[t] => cancelled[t] \/ watchers[t] \subseteq {W(c)}
  <2>1. CASE Awaits(c)
    BY <2>1 DEF Awaits
  <2>2. CASE Release(c)
    <3>1. /\ watchers' = [watchers EXCEPT ![t] = @ \ {W(c)}]
          /\ released' = [released EXCEPT ![t] = @ \/ (watchers[t] \subseteq {W(c)} /\ closed[t])]
          /\ cancelled' = [cancelled EXCEPT ![t] = @ \/ (watchers[t] \subseteq {W(c)} /\ ~closed[t])]
      BY <2>2 DEF Release, Leaves
    <3> HIDE DEF t
    <3>2. watchers \in [Transfers -> SUBSET Watchers] /\ released \in [Transfers -> BOOLEAN] /\ cancelled \in [Transfers -> BOOLEAN]
      BY DEF IInv, TypeOK
    <3>3. \A u \in Transfers \ {t} :
              watchers'[u] = watchers[u] /\ released'[u] = released[u] /\ cancelled'[u] = cancelled[u]
      BY <3>1, <3>2
    <3>4. ASSUME t \in Transfers
          PROVE  /\ watchers'[t] = watchers[t] \ {W(c)}
                 /\ released'[t] <=> released[t] \/ (watchers[t] \subseteq {W(c)} /\ closed[t])
                 /\ cancelled'[t] <=> cancelled[t] \/ (watchers[t] \subseteq {W(c)} /\ ~closed[t])
      BY <3>1, <3>2, <3>4
    <3> QED
      BY <3>3, <3>4
  <2> QED
    BY <2>1, <2>2
<1>5. /\ \A d \in Clients \ {c} : pc'[d] = pc[d] /\ at'[d] = at[d]
      /\ pc'[c] \in {"call", "release", "lower", "has", "over"}
      /\ pc'[c] \in {"lower", "has"} => pc[c] = "lower"
      /\ pc'[c] = "lower" => at'[c] # Len(Pull[c])
  <2> USE DEF IInv, TypeOK
  <2>1. CASE Awaits(c)
    BY <2>1 DEF Awaits
  <2>2. CASE Release(c) /\ Below(c) # None
    <3>1. pc' = pc /\ at' = [at EXCEPT ![c] = at[c] - 1] /\ pc[c] \in {"release", "lower"}
      BY <2>2 DEF Release
    <3> QED
      BY <1>0, <3>1
  <2>3. CASE Release(c) /\ Below(c) = None
    <3>1. /\ pc' = [pc EXCEPT ![c] = IF pc[c] = "lower" THEN "has" ELSE "over"]
          /\ at' = [at EXCEPT ![c] = Len(Pull[c])]
      BY <2>3 DEF Release
    <3> QED
      BY <1>0, <3>1
  <2> QED
    BY <2>1, <2>2, <2>3
<1>6. \A d \in Clients : TopW(d)' = TopW(d)
  BY DEF TopW
<1>7. FreshOK'
  <2>1. \A u \in Transfers : fn[u] = "none" => u # t
    BY <1>0 DEF Shared, FreshOK
  <2> HIDE DEF t
  <2> QED
    BY <1>0, <1>2, <1>3, <1>4, <2>1 DEF Shared, FreshOK
<1>8. WatchedIsLive'
  <2> SUFFICES ASSUME NEW w \in Watchers, wt'[w] # None
               PROVE  \/ w \in watchers'[wt'[w]] /\ ~cancelled'[wt'[w]]
                      \/ pc'[w[1]] = "await" /\ w = W(w[1])'
    BY DEF WatchedIsLive, W
  <2>1. w # W(c) /\ wt'[w] = wt[w] /\ wt[w] \in Transfers
    BY <1>3 DEF IInv, TypeOK
  <2>2. CASE w \in watchers[wt[w]] /\ ~cancelled[wt[w]]
    <3> HIDE DEF t
    <3> QED
      BY <1>4, <2>1, <2>2
  <2>3. CASE pc[w[1]] = "await" /\ w = W(w[1])
    BY <1>1, <1>5, <2>1, <2>3 DEF W
  <2> QED
    BY <2>1, <2>2, <2>3 DEF Shared, WatchedIsLive
<1>9. OneTransferPerKey'
  BY <1>2, <1>3 DEF Shared, OneTransferPerKey, Ended
<1> HIDE DEF t
<1>10. ManagerOK'
  BY <1>2, <1>4 DEF Shared, ManagerOK
<1>11. LayerOK'
  BY <1>2, <1>4 DEF Shared, LayerOK
<1>12. PullOK'
  <2>1. pc[c] = "lower" => at[c] # Len(Pull[c])
    BY DEF Shared, PullOK
  <2>2. /\ \A d \in Clients \ {c} : wt'[TopW(d)] = wt[TopW(d)]
        /\ pc[c] = "lower" => wt'[TopW(c)] = wt[TopW(c)]
    BY <1>1, <1>3, <2>1
  <2> QED
    BY <1>2, <1>5, <1>6, <2>2 DEF Shared, PullOK
<1> QED
  BY <1>7, <1>8, <1>9, <1>10, <1>11, <1>12 DEF Shared

\* The two invariants hold in every reachable state.
THEOREM SharedInvariance == Safety => [](IInv /\ Shared)
<1>1. IInv /\ Shared /\ [Next]_vars => Shared'
  BY WorkShared, OtherShared, ManagerShared, CallShared, ResultShared, LeaveShared,
        Zenon DEF Next, WorkStep
<1> QED
  BY <1>1, InitShared, Invariance, PTL DEF Safety

(***************************************************************************)
(* For any pulls, transfers and limits: nobody is left with a transfer     *)
(* that others have cancelled, and two transfers of a key are never at     *)
(* work together (TransferShared).                                         *)
(***************************************************************************)
THEOREM Sharing == Safety => []TransferShared
<1>1. Shared => TransferShared
  BY DEF Shared, TransferShared
<1> QED
  BY <1>1, SharedInvariance, PTL

(***************************************************************************)
(* For any pulls, transfers and limits: a pull that has its result holds   *)
(* the layer until it lets it go (ResultHeld).                             *)
(***************************************************************************)
THEOREM Holding == Safety => []ResultHeld
<1>1. ASSUME IInv, Shared PROVE ResultHeld
  <2> SUFFICES ASSUME NEW c \in Clients, pc[c] \in {"lower", "has"} PROVE layer[Top(c)] = "held"
    BY DEF ResultHeld
  <2>1. /\ TopW(c) \in Watchers /\ Top(c) = wt[TopW(c)] /\ wt[TopW(c)] \in Transfers \cup {None}
        /\ TopW(c)[1] = c
    BY <1>1, TopFacts DEF IInv, TopW
  <2>2. wt[TopW(c)] # None /\ result[wt[TopW(c)]] = "ok"
    BY <1>1 DEF Shared, PullOK
  <2>3. TopW(c) \in watchers[wt[TopW(c)]]
    BY <1>1, <2>1, <2>2 DEF Shared, WatchedIsLive
  <2>4. ~released[wt[TopW(c)]]
    BY <1>1, <2>1, <2>2, <2>3 DEF Shared, ManagerOK
  <2> QED
    BY <1>1, <2>1, <2>2, <2>4 DEF Shared, LayerOK
<1> QED
  BY <1>1, SharedInvariance, PTL
=============================================================================
