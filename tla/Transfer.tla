------------------------------ MODULE Transfer ------------------------------
(***************************************************************************)
(* distribution/xfer: the downloads of image layers, shared by the pulls   *)
(* that need them.  A pull asks the transfer manager for one layer after   *)
(* the other; whoever asks first starts the transfer, everybody else       *)
(* watches it; the last one to leave cancels it.  A bounded number of      *)
(* transfers run at a time, the others wait for a slot.  A transfer is     *)
(* registered on top of the one its pull asked for before, and its layer   *)
(* is released when it is over and nobody watches it.                      *)
(*                                                                         *)
(* Each transfer has a goroutine that does the work and one of the manager *)
(* that frees its slot and forgets it.  Each section under a lock is one   *)
(* step.  The broadcast of progress is left out: Release, which waits for  *)
(* the watcher's part of it to end, is one step.  A layer found in the     *)
(* layer store is not asked for, so that pulls may ask for different keys. *)
(***************************************************************************)
EXTENDS Integers, Sequences, FiniteSets

CONSTANTS Clients,      \* pulls
          Pull,         \* the keys of the layers each asks for, bottom first
          Transfers,    \* transfers, each started once
          Limits,       \* the values of concurrencyLimit
          None

ASSUME TransferAssumption ==
    /\ None \notin Transfers \cup Clients
    /\ Pull \in [Clients -> Seq(Nat) \ {<<>>}]
    /\ \A c \in Clients : \A i, j \in DOMAIN Pull[c] : i # j => Pull[c][i] # Pull[c][j]
    /\ Limits \subseteq Nat
    /\ IsFiniteSet(Transfers)

Keys == UNION {{Pull[c][i] : i \in DOMAIN Pull[c]} : c \in Clients}

\* The watchers: one for each layer of each pull.
Watchers == Clients \X Keys

VARIABLES
    limit, active, waiting, transfers,  \* the transferManager
    \* The transfers:
    fn,           \* the goroutine of the DoFunc; at its end, Done() is closed
    started,      \* the start channel is closed
    idle,         \* the inactive channel is closed
    below,        \* the transfer it is registered on top of
    result,       \* how it ended
    layer,        \* its reference to the layer it registered
    cancelled, watchers, closed, released,
    mgr,          \* the goroutine of the manager
    freed,        \* it has called inactivate
    \* The pulls:
    wt,           \* the transfer watched for each layer
    pc,
    at,           \* the layer asked for or released
    \* History:
    adjusted      \* the limit was changed

tm == <<limit, active, waiting, transfers, adjusted>>
work == <<fn, idle, below, result, layer>>
life == <<cancelled, watchers, closed, released>>
manager == <<mgr, freed>>
client == <<wt, pc, at>>
vars == <<tm, started, work, life, manager, client>>

Init ==
    /\ limit \in Limits /\ active = 0 /\ waiting = <<>>
    /\ transfers = [k \in Keys |-> None]
    /\ fn = [t \in Transfers |-> "none"]
    /\ started = [t \in Transfers |-> FALSE]
    /\ idle = [t \in Transfers |-> FALSE]
    /\ below = [t \in Transfers |-> None]
    /\ result = [t \in Transfers |-> "none"]
    /\ layer = [t \in Transfers |-> "none"]
    /\ cancelled = [t \in Transfers |-> FALSE]
    /\ watchers = [t \in Transfers |-> {}]
    /\ closed = [t \in Transfers |-> FALSE]
    /\ released = [t \in Transfers |-> FALSE]
    /\ mgr = [t \in Transfers |-> "watch"]
    /\ freed = [t \in Transfers |-> FALSE]
    /\ wt = [w \in Watchers |-> None]
    /\ pc = [c \in Clients |-> "call"]
    /\ at = [c \in Clients |-> 1]
    /\ adjusted = FALSE

\* The watcher of the layer a pull is at.
W(c) == <<c, Pull[c][at[c]]>>
Below(c) == IF at[c] = 1 THEN None ELSE wt[<<c, Pull[c][at[c] - 1]>>]
Top(c) == wt[<<c, Pull[c][Len(Pull[c])]>>]
-----------------------------------------------------------------------------
(***************************************************************************)
(* The DoFunc of makeDownloadFunc.                                         *)
(***************************************************************************)
Ended(t) == fn[t] = "ended"

\* The parent, if there is one, is done with this result.
ParentIs(t, r) == IF below[t] = None THEN r = "ok" ELSE Ended(below[t]) /\ result[below[t]] = r

\* The slot is given; a transfer whose parent has failed does not begin.
Begins(t) ==
    /\ fn[t] = "waiting" /\ started[t]
    /\ IF ParentIs(t, "error")
         THEN fn' = [fn EXCEPT ![t] = "ended"] /\ result' = [result EXCEPT ![t] = "error"]
         ELSE fn' = [fn EXCEPT ![t] = "running"] /\ UNCHANGED result
    /\ UNCHANGED <<tm, started, idle, below, layer, life, manager, client>>

\* The download succeeds, after retries perhaps: close(inactive).
Downloads(t) ==
    /\ fn[t] = "running"
    /\ fn' = [fn EXCEPT ![t] = "registering"]
    /\ idle' = [idle EXCEPT ![t] = TRUE]
    /\ UNCHANGED <<tm, started, below, result, layer, life, manager, client>>

\* The download or the registration fails or is cancelled, or the parent has failed.
Fails(t) ==
    /\ \/ fn[t] = "running"
       \/ fn[t] = "registering" /\ (cancelled[t] \/ ParentIs(t, "ok") \/ ParentIs(t, "error"))
    /\ fn' = [fn EXCEPT ![t] = "ended"]
    /\ result' = [result EXCEPT ![t] = "error"]
    /\ UNCHANGED <<tm, started, idle, below, layer, life, manager, client>>

\* The layer is registered on top of the parent's.
Registers(t) ==
    /\ fn[t] = "registering" /\ ParentIs(t, "ok")
    /\ fn' = [fn EXCEPT ![t] = "ended"]
    /\ result' = [result EXCEPT ![t] = "ok"]
    /\ layer' = [layer EXCEPT ![t] = "held"]
    /\ UNCHANGED <<tm, started, idle, below, life, manager, client>>

\* <-d.Transfer.Released(), and then ReleaseAndLog.
ReleasesLayer(t) ==
    /\ layer[t] = "held" /\ released[t]
    /\ layer' = [layer EXCEPT ![t] = "dropped"]
    /\ UNCHANGED <<tm, started, fn, idle, below, result, life, manager, client>>
-----------------------------------------------------------------------------
(***************************************************************************)
(* The transfer manager.                                                   *)
(***************************************************************************)
\* Mutant: the slot is given back although a transfer waits for it.
InactivateDrops(t) ==
    /\ active' = active - 1
    /\ UNCHANGED <<waiting, started>>

\* Mutant: the next transfer is started and the slot is given back, too.
InactivateTwice(t) ==
    /\ active' = active - 1
    /\ IF waiting # <<>>
         THEN /\ started' = [started EXCEPT ![Head(waiting)] = TRUE]
              /\ waiting' = Tail(waiting)
         ELSE UNCHANGED <<waiting, started>>

\* inactivate; a transfer that was not started has no slot.
Inactivate(t) ==
    IF started[t] /\ waiting # <<>>
      THEN /\ started' = [started EXCEPT ![Head(waiting)] = TRUE]
           /\ waiting' = Tail(waiting)
           /\ UNCHANGED active
      ELSE /\ active' = IF started[t] THEN active - 1 ELSE active
           /\ UNCHANGED <<waiting, started>>

\* <-inactive, after which inactive is nil.
SeesInactive(t) ==
    /\ mgr[t] = "watch" /\ idle[t] /\ ~freed[t]
    /\ Inactivate(t)
    /\ freed' = [freed EXCEPT ![t] = TRUE]
    /\ UNCHANGED <<limit, transfers, adjusted, work, life, mgr, client>>

\* <-xfer.Done()
Forgets(t) ==
    /\ mgr[t] = "watch" /\ Ended(t)
    /\ IF freed[t] THEN UNCHANGED <<active, waiting, started>> ELSE Inactivate(t)
    /\ freed' = [freed EXCEPT ![t] = TRUE]
    /\ transfers' = [k \in Keys |-> IF transfers[k] = t THEN None ELSE transfers[k]]
    /\ mgr' = [mgr EXCEPT ![t] = "closing"]
    /\ UNCHANGED <<limit, adjusted, work, life, client>>

\* Mutant: the transfer is released when the manager closes it.
ClosesReleases(t) ==
    /\ mgr[t] = "closing"
    /\ closed' = [closed EXCEPT ![t] = TRUE]
    /\ released' = [released EXCEPT ![t] = TRUE]
    /\ mgr' = [mgr EXCEPT ![t] = "ended"]
    /\ UNCHANGED <<tm, started, work, cancelled, watchers, freed, client>>

\* xfer.Close()
Closes(t) ==
    /\ mgr[t] = "closing"
    /\ closed' = [closed EXCEPT ![t] = TRUE]
    /\ released' = [released EXCEPT ![t] = watchers[t] = {}]
    /\ mgr' = [mgr EXCEPT ![t] = "ended"]
    /\ UNCHANGED <<tm, started, work, cancelled, watchers, freed, client>>

\* SetConcurrency, on a reload of the daemon's configuration.
SetConcurrency(n) ==
    /\ n # limit
    /\ limit' = n /\ adjusted' = TRUE
    /\ UNCHANGED <<active, waiting, transfers, started, work, life, manager, client>>
-----------------------------------------------------------------------------
(***************************************************************************)
(* A pull: Download, which calls Transfer for each layer.                  *)
(***************************************************************************)
\* The next layer, or the wait for the last one.
Advance(c) ==
    IF at[c] = Len(Pull[c])
      THEN pc' = [pc EXCEPT ![c] = "wait"] /\ UNCHANGED at
      ELSE at' = [at EXCEPT ![c] = @ + 1] /\ UNCHANGED pc

\* Mutant: a transfer that was cancelled is watched like any other.
FindsAny(c) ==
    LET t == transfers[Pull[c][at[c]]] IN
    /\ pc[c] = "call" /\ t # None
    /\ wt' = [wt EXCEPT ![W(c)] = t]
    /\ watchers' = [watchers EXCEPT ![t] = @ \cup {W(c)}]
    /\ Advance(c)
    /\ UNCHANGED <<tm, started, work, cancelled, closed, released, manager>>

(***************************************************************************)
(* The transfer is in progress: watch it.  One that has been cancelled is  *)
(* watched and released again, which changes nothing, under the manager's  *)
(* lock; then the caller waits for its end.                                *)
(***************************************************************************)
Finds(c) ==
    LET t == transfers[Pull[c][at[c]]] IN
    /\ pc[c] = "call" /\ t # None
    /\ wt' = [wt EXCEPT ![W(c)] = t]
    /\ IF cancelled[t]
         THEN pc' = [pc EXCEPT ![c] = "await"] /\ UNCHANGED <<watchers, at>>
         ELSE /\ watchers' = [watchers EXCEPT ![t] = @ \cup {W(c)}]
              /\ Advance(c)
    /\ UNCHANGED <<tm, started, work, cancelled, closed, released, manager>>

\* <-xfer.Done(), and around the loop again.
Awaits(c) ==
    /\ pc[c] = "await" /\ Ended(wt[W(c)])
    /\ pc' = [pc EXCEPT ![c] = "call"]
    /\ wt' = [wt EXCEPT ![W(c)] = None]
    /\ UNCHANGED <<tm, started, work, life, manager, at>>

\* NewTransfer: which of the transfers not used yet makes no difference.
Fresh(t) == fn[t] = "none" /\ t = CHOOSE u \in Transfers : fn[u] = "none"

\* Nobody is transferring the layer: start it, or queue it.
Starts(c, t) ==
    /\ pc[c] = "call"
    /\ transfers[Pull[c][at[c]]] = None /\ Fresh(t)
    /\ IF limit = 0 \/ active < limit
         THEN /\ started' = [started EXCEPT ![t] = TRUE]
              /\ active' = active + 1
              /\ UNCHANGED waiting
         ELSE waiting' = Append(waiting, t) /\ UNCHANGED <<started, active>>
    /\ fn' = [fn EXCEPT ![t] = "waiting"]
    /\ below' = [below EXCEPT ![t] = Below(c)]
    /\ transfers' = [transfers EXCEPT ![Pull[c][at[c]]] = t]
    /\ wt' = [wt EXCEPT ![W(c)] = t]
    /\ watchers' = [watchers EXCEPT ![t] = {W(c)}]
    /\ Advance(c)
    /\ UNCHANGED <<limit, adjusted, idle, result, layer, cancelled, closed, released, manager>>

(***************************************************************************)
(* The result, or the end of the caller's context.  With an error the      *)
(* watchers leave from the top down.  With a layer those below leave, and  *)
(* the caller has the top one until it calls the function it was given.    *)
(***************************************************************************)
Result(c) ==
    /\ pc[c] = "wait" /\ Ended(Top(c))
    /\ IF result[Top(c)] = "ok" /\ Len(Pull[c]) > 1
         THEN pc' = [pc EXCEPT ![c] = "lower"] /\ at' = [at EXCEPT ![c] = Len(Pull[c]) - 1]
         ELSE pc' = [pc EXCEPT ![c] = IF result[Top(c)] = "ok" THEN "has" ELSE "release"] /\ UNCHANGED at
    /\ UNCHANGED <<tm, started, work, life, manager, wt>>

ContextDone(c) ==
    /\ pc[c] = "wait"
    /\ pc' = [pc EXCEPT ![c] = "release"]
    /\ UNCHANGED <<tm, started, work, life, manager, wt, at>>

UsesResult(c) ==
    /\ pc[c] = "has"
    /\ pc' = [pc EXCEPT ![c] = "release"]
    /\ UNCHANGED <<tm, started, work, life, manager, wt, at>>

\* Release, under the transfer's lock: the last one releases or cancels.
Leaves(w, t) ==
    /\ watchers' = [watchers EXCEPT ![t] = @ \ {w}]
    /\ released' = [released EXCEPT ![t] = @ \/ (watchers[t] \subseteq {w} /\ closed[t])]
    /\ cancelled' = [cancelled EXCEPT ![t] = @ \/ (watchers[t] \subseteq {w} /\ ~closed[t])]

\* Release of one layer after the other.
Release(c) ==
    /\ pc[c] \in {"release", "lower"}
    /\ Leaves(W(c), wt[W(c)])
    /\ wt' = [wt EXCEPT ![W(c)] = None]
    /\ IF Below(c) # None
         THEN at' = [at EXCEPT ![c] = @ - 1] /\ UNCHANGED pc
         ELSE /\ pc' = [pc EXCEPT ![c] = IF @ = "lower" THEN "has" ELSE "over"]
              /\ at' = [at EXCEPT ![c] = Len(Pull[c])]
    /\ UNCHANGED <<tm, started, work, closed, manager>>

Next ==
    \/ \E t \in Transfers : \/ Begins(t) \/ Downloads(t) \/ Fails(t) \/ Registers(t) \/ ReleasesLayer(t)
                            \/ SeesInactive(t) \/ Forgets(t) \/ Closes(t)
    \/ \E n \in Limits : SetConcurrency(n)
    \/ \E c \in Clients : \/ Finds(c) \/ Awaits(c) \/ \E t \in Transfers : Starts(c, t)
                          \/ Result(c) \/ ContextDone(c) \/ UsesResult(c) \/ Release(c)

(***************************************************************************)
(* Goroutines run, and get the locks they wait for.  A download ends,      *)
(* since it is tried a bounded number of times; nothing makes a caller     *)
(* give up.                                                                *)
(***************************************************************************)
WorkStep(t) == Begins(t) \/ Downloads(t) \/ Fails(t) \/ Registers(t)
ClientStep(c) == \/ Finds(c) \/ Awaits(c) \/ \E t \in Transfers : Starts(c, t)
                 \/ Result(c) \/ UsesResult(c) \/ Release(c)

Fairness ==
    /\ \A t \in Transfers : /\ WF_vars(WorkStep(t)) /\ WF_vars(ReleasesLayer(t))
                            /\ WF_vars(SeesInactive(t) \/ Forgets(t)) /\ WF_vars(Closes(t))
    /\ \A c \in Clients : WF_vars(ClientStep(c))

Safety == Init /\ [][Next]_vars

Spec == Safety /\ Fairness
-----------------------------------------------------------------------------
TypeOK ==
    /\ limit \in Limits /\ active \in Nat /\ waiting \in Seq(Transfers)
    /\ transfers \in [Keys -> Transfers \cup {None}]
    /\ fn \in [Transfers -> {"none", "waiting", "running", "registering", "ended"}]
    /\ started \in [Transfers -> BOOLEAN] /\ idle \in [Transfers -> BOOLEAN]
    /\ below \in [Transfers -> Transfers \cup {None}]
    /\ result \in [Transfers -> {"none", "ok", "error"}]
    /\ layer \in [Transfers -> {"none", "held", "dropped"}]
    /\ cancelled \in [Transfers -> BOOLEAN] /\ closed \in [Transfers -> BOOLEAN]
    /\ released \in [Transfers -> BOOLEAN]
    /\ watchers \in [Transfers -> SUBSET Watchers]
    /\ mgr \in [Transfers -> {"watch", "closing", "ended"}] /\ freed \in [Transfers -> BOOLEAN]
    /\ wt \in [Watchers -> Transfers \cup {None}]
    /\ pc \in [Clients -> {"call", "await", "wait", "lower", "has", "release", "over"}]
    /\ at \in [Clients -> Nat]
    /\ \A c \in Clients : at[c] \in DOMAIN Pull[c]
    /\ adjusted \in BOOLEAN

\* The transfers that occupy a slot.
Occupying == {t \in Transfers : started[t] /\ ~freed[t]}

(***************************************************************************)
(* The count of active transfers is right, although a slot is taken by the *)
(* caller, handed over by another transfer's goroutine, and given back     *)
(* when the download is over or at the end, and not twice.                 *)
(***************************************************************************)
SlotsExact == active = Cardinality(Occupying)

(***************************************************************************)
(* The transfers that move data are no more than the limit, as long as it  *)
(* is not changed.                                                         *)
(***************************************************************************)
LimitKept ==
    ~adjusted /\ limit # 0 => Cardinality({t \in Transfers : fn[t] = "running"}) <= limit

(***************************************************************************)
(* A transfer that waits, waits for one that has a slot and will hand it   *)
(* over: lowering and raising the limit, or cancelling, leaves no queue    *)
(* that nobody serves.                                                     *)
(***************************************************************************)
QueueServed == waiting # <<>> => Occupying # {}

(***************************************************************************)
(* Nobody is left with a transfer that others have cancelled: a caller who *)
(* has been given a transfer, and not released it, keeps it going.         *)
(***************************************************************************)
WatchedIsLive ==
    \A w \in Watchers : wt[w] # None =>
        \/ w \in watchers[wt[w]] /\ ~cancelled[wt[w]]
        \/ pc[w[1]] = "await" /\ w = W(w[1])

(***************************************************************************)
(* One transfer at a time for a key: the next one is not started before    *)
(* the goroutine of a cancelled one has come to its end, so that two do    *)
(* not download the same layer.                                            *)
(***************************************************************************)
OneTransferPerKey ==
    \A w \in Watchers : wt[w] # None /\ ~Ended(wt[w]) => transfers[w[2]] = wt[w]

(***************************************************************************)
(* A pull that has its result has the layer: the reference is not released *)
(* before all those who watch have left.                                   *)
(***************************************************************************)
ResultHeld ==
    \A c \in Clients : pc[c] \in {"lower", "has"} => layer[Top(c)] = "held"

(***************************************************************************)
(* Every pull comes to its end, though it may have to wait for a slot, and *)
(* for the end of transfers that others have cancelled.                    *)
(***************************************************************************)
PullsEnd == <>(\A c \in Clients : pc[c] = "over")

\* What a transfer has registered is released in the end.
LayersReleased == <>[](\A t \in Transfers : layer[t] # "held")

(***************************************************************************)
(* Slots are neither lost nor given twice, and are used: what inactivate   *)
(* and the end of a transfer give back goes to the next that waits.        *)
(***************************************************************************)
SlotsKept == TypeOK /\ SlotsExact /\ LimitKept /\ QueueServed

(***************************************************************************)
(* Whoever asks for a key shares the one transfer of it that is alive,     *)
(* never one that is being cancelled.                                      *)
(***************************************************************************)
TransferShared == WatchedIsLive /\ OneTransferPerKey

(***************************************************************************)
(* Every pull ends, and a layer that no pull uses any more is released, so *)
(* that a pull that was cancelled leaves nothing in the layer store.       *)
(***************************************************************************)
PullsSettle == PullsEnd /\ LayersReleased
=============================================================================
