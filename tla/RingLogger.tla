---------------------------- MODULE RingLogger ----------------------------
(***************************************************************************)
(* daemon/logger/ring.go: the buffer between those who log and a log       *)
(* driver that may be slow.  Writers call Log, which queues a message or   *)
(* drops it; one goroutine, run, gives the queued messages to the driver;  *)
(* Close gives the driver what is left and closes it, while run may be in  *)
(* the middle of a call.                                                   *)
(*                                                                         *)
(* A section under the ring's mutex is one step, and so is a call of the   *)
(* driver: drivers have a lock of their own.  Messages are numbered in the *)
(* order the ring accepts them.                                            *)
(***************************************************************************)
EXTENDS Integers, Sequences, FiniteSets

CONSTANTS Writers, Messages,
          Size(_),      \* len(msg.Line)
          MaxBytes,
          None

ASSUME RingAssumption ==
    /\ MaxBytes \in Nat
    /\ \A m \in Messages : Size(m) \in Nat
    /\ None \notin Messages \cup Nat

VARIABLES
    queue, sizeBytes, closed,   \* the messageRing
    closeFlag,
    calling,      \* the message each writer is about to enqueue
    run, hand,    \* the goroutine, and the message it gives to the driver
    closer,       \* the call of Close
    rest, logErr, \* the messages it drained, and whether the driver failed
    shut,         \* the driver is closed
    \* History:
    accepted,     \* the messages enqueued
    given,        \* the numbers of those the driver was called with
    discarded,    \* the numbers of those dropped after an error
    late,         \* those given to the driver after it was closed
    refused       \* the messages whose Log returned errClosed

ring == <<queue, sizeBytes, closed, accepted>>
goroutine == <<run, hand>>
closing == <<closeFlag, closer, rest, logErr, discarded, shut>>
driver == <<given, late>>
ringVars == <<ring, calling, refused, goroutine, closing, driver>>

RingInit ==
    /\ queue = <<>> /\ sizeBytes = 0 /\ closed = FALSE /\ accepted = <<>>
    /\ closeFlag = FALSE
    /\ calling = [w \in Writers |-> None]
    /\ run = "loop" /\ hand = None
    /\ closer = "open" /\ rest = <<>> /\ logErr = FALSE /\ discarded = {}
    /\ shut = FALSE /\ given = <<>> /\ late = {} /\ refused = {}

\* The driver is called with message i.
Gives(i) ==
    /\ given' = Append(given, i)
    /\ late' = IF shut THEN late \cup {i} ELSE late
-----------------------------------------------------------------------------
\* Log: an error when the logger is closed, otherwise on to Enqueue.
Log(w, m) ==
    /\ calling[w] = None
    /\ IF closeFlag
         THEN refused' = refused \cup {m} /\ UNCHANGED calling
         ELSE calling' = [calling EXCEPT ![w] = m] /\ UNCHANGED refused
    /\ UNCHANGED <<ring, goroutine, closing, driver>>

\* wait.Signal() and wait.Broadcast(): run is the only one who waits.
Wakes == run' = IF run = "asleep" THEN "dequeue" ELSE run

Accepts(m) ==
    /\ queue' = Append(queue, Len(accepted) + 1)
    /\ sizeBytes' = sizeBytes + Size(m)
    /\ accepted' = Append(accepted, m)

\* Mutant: nobody is told of the message.
EnqueueSilent(w) ==
    /\ calling[w] # None
    /\ calling' = [calling EXCEPT ![w] = None]
    /\ IF closed \/ (Size(calling[w]) + sizeBytes > MaxBytes /\ queue # <<>>)
         THEN UNCHANGED <<queue, sizeBytes, accepted>>
         ELSE Accepts(calling[w])
    /\ UNCHANGED <<run, closed, hand, refused, closing, driver>>

(***************************************************************************)
(* Enqueue: an error when the ring is closed; a message too large for what *)
(* is left of the ring is dropped, unless the ring is empty.               *)
(***************************************************************************)
Enqueue(w) ==
    /\ calling[w] # None
    /\ calling' = [calling EXCEPT ![w] = None]
    /\ \/ /\ closed
          /\ refused' = refused \cup {calling[w]}
          /\ UNCHANGED <<queue, sizeBytes, accepted, run>>
       \/ /\ ~closed
          /\ IF Size(calling[w]) + sizeBytes > MaxBytes /\ queue # <<>>
               THEN UNCHANGED <<queue, sizeBytes, accepted>>
               ELSE Accepts(calling[w])
          /\ Wakes
          /\ UNCHANGED refused
    /\ UNCHANGED <<closed, hand, closing, driver>>
-----------------------------------------------------------------------------
\* run: the test of the flag at the top of the loop.
RunLoops ==
    /\ run = "loop"
    /\ run' = IF closeFlag THEN "ended" ELSE "dequeue"
    /\ UNCHANGED <<ring, calling, refused, hand, closing, driver>>

\* Mutant: the message stays in the queue until the driver has it.
DequeuePeeks ==
    /\ run = "dequeue" /\ ~closed /\ queue # <<>>
    /\ hand' = Head(queue)
    /\ run' = "log"
    /\ UNCHANGED <<queue, sizeBytes, closed, accepted, calling, refused, closing, driver>>

\* Dequeue: a message, the end of the goroutine, or the wait for a signal.
Dequeue ==
    /\ run = "dequeue" /\ ~closed /\ queue # <<>>
    /\ hand' = Head(queue)
    /\ queue' = Tail(queue)
    /\ sizeBytes' = sizeBytes - Size(accepted[Head(queue)])
    /\ run' = "log"
    /\ UNCHANGED <<closed, accepted, calling, refused, closing, driver>>

DequeueWaits ==
    /\ run = "dequeue" /\ ~closed /\ queue = <<>>
    /\ run' = "asleep"
    /\ UNCHANGED <<ring, calling, refused, hand, closing, driver>>

DequeueClosed ==
    /\ run = "dequeue" /\ closed
    /\ run' = "ended"
    /\ UNCHANGED <<ring, calling, refused, hand, closing, driver>>

\* l.Log(msg); an error of the driver is only reported.
RunLogs ==
    /\ run = "log"
    /\ Gives(hand)
    /\ hand' = None
    /\ run' = "loop"
    /\ UNCHANGED <<ring, calling, refused, closing>>
-----------------------------------------------------------------------------
\* Close: setClosed.
SetClosed ==
    /\ closer = "open"
    /\ closer' = "flagged" /\ closeFlag' = TRUE
    /\ UNCHANGED <<ring, calling, refused, goroutine, rest, logErr, discarded, shut, driver>>

\* Mutant: whoever waits in Dequeue is not told.
CloseRingSilent ==
    /\ closer = "flagged"
    /\ closer' = "drain" /\ closed' = TRUE
    /\ UNCHANGED <<run, queue, sizeBytes, accepted, calling, refused, hand, closeFlag, rest, logErr, discarded, shut, driver>>

\* buffer.Close()
CloseRing ==
    /\ closer = "flagged"
    /\ closer' = "drain" /\ closed' = TRUE
    /\ Wakes
    /\ UNCHANGED <<queue, sizeBytes, accepted, calling, refused, hand, closeFlag, rest, logErr, discarded, shut, driver>>

Drain ==
    /\ closer = "drain"
    /\ closer' = "log" /\ rest' = queue
    /\ queue' = <<>> /\ sizeBytes' = 0
    /\ UNCHANGED <<closed, accepted, calling, refused, goroutine, closeFlag, logErr, discarded, shut, driver>>

\* l.Log for each message drained; after an error, those that follow are discarded.
LogsRest(ok) ==
    /\ closer = "log" /\ rest # <<>>
    /\ rest' = Tail(rest)
    /\ IF logErr
         THEN discarded' = discarded \cup {Head(rest)} /\ UNCHANGED <<driver, logErr>>
         ELSE Gives(Head(rest)) /\ logErr' = ~ok /\ UNCHANGED discarded
    /\ UNCHANGED <<ring, calling, refused, goroutine, closeFlag, closer, shut>>

\* l.Close()
CloseDriver ==
    /\ closer = "log" /\ rest = <<>>
    /\ closer' = "closed" /\ shut' = TRUE
    /\ UNCHANGED <<ring, calling, refused, goroutine, closeFlag, rest, logErr, discarded, driver>>

RunStep == RunLoops \/ Dequeue \/ DequeueWaits \/ DequeueClosed \/ RunLogs
CloseStep == CloseRing \/ Drain \/ LogsRest(TRUE) \/ LogsRest(FALSE) \/ CloseDriver

RingNext ==
    \/ \E w \in Writers : Enqueue(w) \/ \E m \in Messages : Log(w, m)
    \/ RunStep \/ SetClosed \/ CloseStep

\* What the logger promises whoever its writers are, and whenever Close is called.
RingSpec == RingInit /\ [][RingNext]_ringVars
-----------------------------------------------------------------------------
Numbers == 1..Len(accepted)

RingTypeOK ==
    /\ accepted \in Seq(Messages)
    /\ queue \in Seq(Numbers) /\ rest \in Seq(Numbers) /\ given \in Seq(Numbers)
    /\ sizeBytes \in Nat
    /\ closed \in BOOLEAN /\ closeFlag \in BOOLEAN /\ logErr \in BOOLEAN /\ shut \in BOOLEAN
    /\ calling \in [Writers -> Messages \cup {None}]
    /\ run \in {"loop", "dequeue", "asleep", "log", "ended"}
    /\ hand \in Numbers \cup {None}
    /\ closer \in {"open", "flagged", "drain", "log", "closed"}
    /\ discarded \subseteq Numbers /\ late \subseteq Numbers
    /\ refused \subseteq Messages

(***************************************************************************)
(* No wake-up is lost: run does not sleep while there is a message to give *)
(* to the driver, or after the ring was closed.                            *)
(***************************************************************************)
NoLostWakeup == run = "asleep" => queue = <<>> /\ ~closed

(***************************************************************************)
(* Nothing the ring accepted is lost or logged twice, whatever Enqueue,    *)
(* run and Close do at the same time: a message is queued, in the hands of *)
(* run or of Close, discarded after an error, or given to the driver, and  *)
(* once only.                                                              *)
(***************************************************************************)
Elements(s) == {s[i] : i \in DOMAIN s}
InHand == IF hand = None THEN {} ELSE {hand}

Conserved ==
    /\ Elements(queue) \cup Elements(rest) \cup Elements(given) \cup discarded \cup InHand = Numbers
    /\ Len(queue) + Len(rest) + Len(given) + Cardinality(discarded) + Cardinality(InHand) = Len(accepted)

(***************************************************************************)
(* When Close returns and the driver did not fail, the driver has all that *)
(* was accepted, but for the one message run may still be giving it.       *)
(***************************************************************************)
ClosedIsFlushed ==
    closer = "closed" /\ ~logErr => Elements(given) \cup InHand = Numbers

(***************************************************************************)
(* The driver is given messages in the order they were accepted, apart     *)
(* from one, which run holds while Close is giving it the rest.            *)
(***************************************************************************)
Ascending(s) == \A i, j \in DOMAIN s : i < j => s[i] < s[j]
Without(s, k) == [i \in 1..(Len(s) - 1) |-> IF i < k THEN s[i] ELSE s[i + 1]]

OrderKept ==
    IF ~closed THEN Ascending(given)
    ELSE Ascending(given) \/ \E k \in DOMAIN given : Ascending(Without(given, k))

(***************************************************************************)
(* A driver that has been closed is called with one more message at most,  *)
(* the one run holds.                                                      *)
(***************************************************************************)
LateIsOne == Cardinality(late \cup IF shut THEN InHand ELSE {}) <= 1

(***************************************************************************)
(* The ring holds no more than its size, or a single message; what it says *)
(* it holds is what the queued messages add up to.                         *)
(***************************************************************************)
SumSizes ==
    LET sum[n \in 0..Len(queue)] ==
            IF n = 0 THEN 0 ELSE sum[n - 1] + Size(accepted[queue[n]])
    IN  sum[Len(queue)]

RingBound ==
    /\ sizeBytes = SumSizes
    /\ sizeBytes <= MaxBytes \/ Len(queue) = 1

(***************************************************************************)
(* The ring loses, doubles and reorders nothing, and is not overfilled.    *)
(***************************************************************************)
RingSound == Conserved /\ OrderKept /\ RingBound

(***************************************************************************)
(* Close meets a goroutine that sleeps, or has a message in its hands: it  *)
(* is woken, all else that was accepted is given to the driver first, and  *)
(* the driver sees one more message at most.                               *)
(***************************************************************************)
CloseSound == NoLostWakeup /\ ClosedIsFlushed /\ LateIsOne
=============================================================================
