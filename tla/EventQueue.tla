----------------------------- MODULE EventQueue -----------------------------
(***************************************************************************)
(* libcontainerd/queue: the handlers of containerd's events.  Each call of *)
(* Append starts a goroutine for its handler that first waits for the done *)
(* channel of the handler appended before it under the same container id.  *)
(* Queue.fns holds the last channel of each id, and forgets it when its    *)
(* handler is done and nothing was appended since.  Lifecycle takes from   *)
(* here that the events of a container are handled one after the other.    *)
(*                                                                         *)
(* A handler also stands for its done channel: the channel is closed when  *)
(* the handler has returned.                                               *)
(***************************************************************************)
EXTENDS Integers

CONSTANTS Ids,        \* container ids
          Handlers,   \* the functions appended, each once
          None        \* no channel

ASSUME QueueAssumption == None \notin Handlers

VARIABLES fns,        \* Queue.fns
          pc,         \* the goroutine of each handler
          id,         \* the id it was appended under
          fn,         \* the channel it waits for
          \* History, for the properties only:
          appended,   \* the number of calls of Append so far
          rank        \* the number of calls before a handler's own

queueVars == <<fns, pc, id, fn, appended, rank>>

QueueInit ==
    /\ fns = [d \in Ids |-> None]
    /\ pc = [h \in Handlers |-> "new"]
    /\ id = [h \in Handlers |-> None]
    /\ fn = [h \in Handlers |-> None]
    /\ appended = 0
    /\ rank = [h \in Handlers |-> 0]

\* Mutant: the handler does not wait for the one before it.
AppendUnchained(h, d) ==
    /\ pc[h] = "new"
    /\ pc' = [pc EXCEPT ![h] = "waiting"]
    /\ id' = [id EXCEPT ![h] = d]
    /\ fns' = [fns EXCEPT ![d] = h]
    /\ appended' = appended + 1
    /\ rank' = [rank EXCEPT ![h] = appended]
    /\ UNCHANGED fn

\* Append(d, h), under the queue's lock.
AppendHandler(h, d) ==
    /\ pc[h] = "new"
    /\ pc' = [pc EXCEPT ![h] = "waiting"]
    /\ id' = [id EXCEPT ![h] = d]
    /\ fn' = [fn EXCEPT ![h] = fns[d]]
    /\ fns' = [fns EXCEPT ![d] = h]
    /\ appended' = appended + 1
    /\ rank' = [rank EXCEPT ![h] = appended]

\* The done channel of h is closed.
Returned(h) == pc[h] \in {"returned", "done"}

\* <-fn, if there is one; the handler runs.
Run(h) ==
    /\ pc[h] = "waiting"
    /\ fn[h] # None => Returned(fn[h])
    /\ pc' = [pc EXCEPT ![h] = "running"]
    /\ UNCHANGED <<fns, id, fn, appended, rank>>

\* The handler returns; close(done).
Return(h) ==
    /\ pc[h] = "running"
    /\ pc' = [pc EXCEPT ![h] = "returned"]
    /\ UNCHANGED <<fns, id, fn, appended, rank>>

\* The entry of the id is deleted if it is still this handler's.
Clean(h) == IF fns[id[h]] = h THEN [fns EXCEPT ![id[h]] = None] ELSE fns

\* The end of the goroutine, under the queue's lock.
Finish(h) ==
    /\ pc[h] = "returned"
    /\ pc' = [pc EXCEPT ![h] = "done"]
    /\ fns' = Clean(h)
    /\ UNCHANGED <<id, fn, appended, rank>>

QueueNext == \E h \in Handlers : \/ \E d \in Ids : AppendHandler(h, d)
                                 \/ Run(h) \/ Return(h) \/ Finish(h)

QueueSpec == QueueInit /\ [][QueueNext]_queueVars
-----------------------------------------------------------------------------
QueueTypeOK ==
    /\ fns \in [Ids -> Handlers \cup {None}]
    /\ pc \in [Handlers -> {"new", "waiting", "running", "returned", "done"}]
    /\ id \in [Handlers -> Ids \cup {None}]
    /\ \A h \in Handlers : pc[h] # "new" => id[h] \in Ids
    /\ fn \in [Handlers -> Handlers \cup {None}]
    /\ appended \in Nat
    /\ rank \in [Handlers -> Nat]

(***************************************************************************)
(* The handlers of an id run in the order they were appended, and one at a *)
(* time: when one runs, all those before it have returned.  Each waits     *)
(* only for the one before it, and the map forgets channels.               *)
(***************************************************************************)
InOrder ==
    \A g, h \in Handlers :
        /\ pc[g] # "new" /\ id[g] = id[h] /\ rank[g] < rank[h]
        /\ pc[h] = "running" \/ Returned(h)
        => Returned(g)

(***************************************************************************)
(* The map holds an id only while a handler of it is at work, so that it   *)
(* does not grow with the containers that have come and gone.              *)
(***************************************************************************)
NoLeak == \A d \in Ids : fns[d] # None => pc[fns[d]] # "done"
=============================================================================
