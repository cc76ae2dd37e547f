------------------------ MODULE ContainerLogsProofs ------------------------
(***************************************************************************)
(* The ring logger is correct for any writers, messages and sizes, and     *)
(* whenever Close is called.  The argument: the queue, or after Close has  *)
(* drained it what Close still has to give, is always the end of what was  *)
(* accepted, so that all the driver was given, run holds or Close dropped  *)
(* comes before it; and until the ring is closed the driver has a prefix,  *)
(* followed by the message in the hands of run.                            *)
(*                                                                         *)
(* The count of bytes is right: the sums of a sequence of sizes are a      *)
(* recursive function, and appending to the sequence or taking its first   *)
(* adds and subtracts one size.                                            *)
(*                                                                         *)
(* The copiers and Reset use the ring as RingLogger assumes: every message *)
(* is one of Messages, for any streams, newlines, reads and sizes of the   *)
(* buffer.  What is proved of the ring therefore holds of the container's  *)
(* logger.  The argument: the buffer never holds more than BufSize bytes,  *)
(* and each message moves the copier on by a byte at least.                *)
(*                                                                         *)
(* What is logged are the lines of the stream: the last message logged     *)
(* says where the copier is and which partial line is open, which decides  *)
(* what the next message may be.  No message is refused unless Reset has   *)
(* timed out, because otherwise the copiers have ended for good when the   *)
(* logger is closed.                                                       *)
(***************************************************************************)
EXTENDS ContainerLogs, TLAPS, FiniteSetTheorems, WellFoundedInduction

\* The part of RingTypeOK the argument needs; sizeBytes plays no role in it.
Types ==
    /\ accepted \in Seq(Messages)
    /\ queue \in Seq(Nat) /\ rest \in Seq(Nat) /\ given \in Seq(Nat)
    /\ closed \in BOOLEAN /\ closeFlag \in BOOLEAN /\ logErr \in BOOLEAN /\ shut \in BOOLEAN
    /\ calling \in [Writers -> Messages \cup {None}]
    /\ run \in {"loop", "dequeue", "asleep", "log", "ended"}
    /\ hand \in Nat \cup {None}
    /\ closer \in {"open", "flagged", "drain", "log", "closed"}
    /\ discarded \subseteq Nat /\ IsFiniteSet(discarded) /\ late \subseteq Nat

\* How far Close has come, and what that says of the rest.
Stages ==
    /\ run = "log" <=> hand # None
    /\ closeFlag <=> closer # "open"
    /\ closed <=> closer \in {"drain", "log", "closed"}
    /\ shut <=> closer = "closed"
    /\ closer \in {"log", "closed"} => queue = <<>>
    /\ closer # "log" => rest = <<>>
    /\ closer \in {"open", "flagged", "drain"} => ~logErr
    /\ ~logErr => discarded = {}

\* A driver that is closed has seen nothing since, or what run held.
LateOK ==
    /\ ~shut => late = {}
    /\ late # {} => hand = None
    /\ \A i, j \in late : i = j

\* The number of messages that are no longer queued, in the ring or in Close.
Past == Len(accepted) - Len(queue) - Len(rest)

\* The queue, and what Close drained of it, are the end of what was accepted.
SuffixOK ==
    /\ \A i \in DOMAIN queue : queue[i] = Past + i
    /\ \A i \in DOMAIN rest : rest[i] = Past + i
    /\ \A i \in DOMAIN given : 1 <= given[i] /\ given[i] <= Past
    /\ \A i \in discarded : 1 <= i /\ i <= Past
    /\ hand # None => 1 <= hand /\ hand <= Past

\* Each message that is no longer queued is in one place.
PlacesOK ==
    /\ Elements(given) \cup discarded \cup InHand = 1..Past
    /\ Len(given) + Cardinality(discarded) + Cardinality(InHand) = Past

\* What the driver was given is in order; only what run held may be late.
GivenOK ==
    /\ ~closed /\ hand # None => \A i \in DOMAIN given : given[i] < hand
    /\ hand # None \/ ~closed => Ascending(given)
    /\ OrderKept

RingIInv == Types /\ Stages /\ NoLostWakeup /\ LateOK /\ SuffixOK /\ PlacesOK /\ GivenOK
-----------------------------------------------------------------------------
\* What Append does to a sequence and to the set of its elements.
LEMMA AppendFacts ==
  ASSUME NEW S, NEW s \in Seq(S), NEW x \in S
  PROVE  /\ Append(s, x) \in Seq(S) /\ Len(Append(s, x)) = Len(s) + 1
         /\ Append(s, x)[Len(s) + 1] = x
         /\ \A i \in DOMAIN s : Append(s, x)[i] = s[i]
         /\ DOMAIN Append(s, x) = DOMAIN s \cup {Len(s) + 1}
         /\ DOMAIN s = 1..Len(s) /\ Len(s) \in Nat
         /\ Elements(Append(s, x)) = Elements(s) \cup {x}
<1>1. /\ Append(s, x) \in Seq(S) /\ Len(Append(s, x)) = Len(s) + 1
      /\ Append(s, x)[Len(s) + 1] = x
      /\ \A i \in DOMAIN s : Append(s, x)[i] = s[i]
      /\ DOMAIN Append(s, x) = DOMAIN s \cup {Len(s) + 1}
      /\ DOMAIN s = 1..Len(s) /\ Len(s) \in Nat
  OBVIOUS
<1>2. Elements(Append(s, x)) = Elements(s) \cup {x}
  BY <1>1, Zenon DEF Elements
<1> QED
  BY <1>1, <1>2

\* The empty sequence.
LEMMA EmptyFacts ==
  /\ Len(<<>>) = 0 /\ DOMAIN <<>> = {} /\ Elements(<<>>) = {}
  /\ \A S : <<>> \in Seq(S)
<1>1. Len(<<>>) = 0
  OBVIOUS
<1>2. DOMAIN <<>> = {}
  OBVIOUS
<1>3. Elements(<<>>) = {}
  BY <1>2 DEF Elements
<1>4. \A S : <<>> \in Seq(S)
  OBVIOUS
<1> QED
  BY <1>1, <1>2, <1>3, <1>4

\* What Head and Tail do to a sequence that is not empty.
LEMMA TailFacts ==
  ASSUME NEW S, NEW s \in Seq(S), s # <<>>
  PROVE  /\ Head(s) = s[1] /\ 1 \in DOMAIN s /\ Head(s) \in S
         /\ Tail(s) \in Seq(S) /\ Len(Tail(s)) = Len(s) - 1
         /\ DOMAIN s = 1..Len(s) /\ Len(s) \in Nat \ {0}
         /\ DOMAIN Tail(s) = 1..(Len(s) - 1)
         /\ \A i \in DOMAIN Tail(s) : Tail(s)[i] = s[i + 1] /\ i + 1 \in DOMAIN s
  OBVIOUS

\* A message larger than all that the driver was given keeps their order.
LEMMA AppendAscending ==
  ASSUME NEW s \in Seq(Nat), NEW x \in Nat, \A i \in DOMAIN s : s[i] < x
  PROVE  /\ Ascending(s) => Ascending(Append(s, x))
         /\ \A k \in DOMAIN s : Ascending(Without(s, k)) => Ascending(Without(Append(s, x), k))
<1> DEFINE t == Append(s, x)
<1>1. /\ t \in Seq(Nat) /\ Len(t) = Len(s) + 1 /\ t[Len(s) + 1] = x
      /\ \A i \in DOMAIN s : t[i] = s[i]
      /\ DOMAIN t = 1..(Len(s) + 1) /\ DOMAIN s = 1..Len(s) /\ Len(s) \in Nat
  BY AppendFacts
<1>2. \A i \in DOMAIN s : s[i] \in Nat
  OBVIOUS
<1> HIDE DEF t
<1>3. Ascending(s) => Ascending(t)
  BY <1>1, <1>2 DEF Ascending
<1>4. ASSUME NEW k \in DOMAIN s, Ascending(Without(s, k)) PROVE Ascending(Without(t, k))
  <2> DEFINE v == Without(s, k)
             u == Without(t, k)
  <2>1. DOMAIN v = 1..(Len(s) - 1) /\ DOMAIN u = 1..Len(s)
    BY <1>1 DEF Without
  <2>a. u[Len(s)] = x
    BY <1>1 DEF Without
  <2>b. ASSUME NEW i \in 1..(Len(s) - 1) PROVE u[i] = v[i] /\ v[i] < x /\ v[i] \in Nat
    <3>1. v[i] = IF i < k THEN s[i] ELSE s[i + 1]
      BY <1>1 DEF Without
    <3>2. u[i] = IF i < k THEN t[i] ELSE t[i + 1]
      BY <1>1, SMTT(30) DEF Without
    <3>3. i \in DOMAIN s /\ i + 1 \in DOMAIN s
      BY <1>1
    <3> QED
      BY <1>1, <1>2, <3>1, <3>2, <3>3
  <2>2. /\ u[Len(s)] = x
        /\ \A i \in 1..(Len(s) - 1) : u[i] = v[i] /\ v[i] < x /\ v[i] \in Nat
    BY <2>a, <2>b
  <2> HIDE DEF u, v
  <2> SUFFICES ASSUME Ascending(v) PROVE Ascending(u)
    BY <1>4 DEF u, v
  <2> SUFFICES ASSUME NEW i \in DOMAIN u, NEW j \in DOMAIN u, i < j PROVE u[i] < u[j]
    BY Zenon DEF Ascending
  <2>3. i \in 1..(Len(s) - 1) /\ (j = Len(s) \/ j \in 1..(Len(s) - 1))
    BY <1>1, <2>1
  <2>4. j \in DOMAIN v /\ i \in DOMAIN v => v[i] < v[j]
    BY Zenon DEF Ascending
  <2> QED
    BY <2>1, <2>2, <2>3, <2>4
<1> QED
  BY <1>3, <1>4 DEF t

\* Without its last element, a sequence is what it was before.
LEMMA AppendLast ==
  ASSUME NEW s \in Seq(Nat), NEW x \in Nat, Ascending(s)
  PROVE  \E k \in DOMAIN Append(s, x) : Ascending(Without(Append(s, x), k))
<1> DEFINE t == Append(s, x)
<1>1. /\ Len(t) = Len(s) + 1 /\ \A i \in DOMAIN s : t[i] = s[i]
      /\ DOMAIN t = 1..(Len(s) + 1) /\ DOMAIN s = 1..Len(s) /\ Len(s) \in Nat
  BY AppendFacts
<1> HIDE DEF t
<1> DEFINE u == Without(t, Len(s) + 1)
<1>2. DOMAIN u = DOMAIN s /\ \A i \in DOMAIN s : u[i] = s[i]
  BY <1>1 DEF Without
<1> HIDE DEF u
<1>3. Ascending(u)
  BY <1>2 DEF Ascending
<1> QED
  BY <1>1, <1>3 DEF t, u

\* The message in the hands of run is one or none.
LEMMA InHandFacts ==
  /\ hand = None => InHand = {} /\ Cardinality(InHand) = 0
  /\ hand # None => InHand = {hand} /\ Cardinality(InHand) = 1
  BY FS_EmptySet, FS_Singleton DEF InHand
-----------------------------------------------------------------------------
\* Initially the ring is empty, and the driver open.
LEMMA InitRingIInv == RingInit => RingIInv
<1> SUFFICES ASSUME RingInit PROVE RingIInv
  OBVIOUS
<1> USE DEF RingInit
<1>a. queue = <<>> /\ rest = <<>> /\ accepted = <<>> /\ given = <<>>
  OBVIOUS
<1>b. Types
  BY <1>a, EmptyFacts, FS_EmptySet DEF Types
<1>1. Stages /\ NoLostWakeup /\ LateOK
  BY DEF Stages, NoLostWakeup, LateOK
<1>2. Past = 0
  <2> HIDE DEF RingInit
  <2>1. Len(accepted) = 0 /\ Len(queue) = 0 /\ Len(rest) = 0
    BY <1>a, EmptyFacts, Zenon
  <2> QED
    BY <2>1 DEF Past
<1>3. SuffixOK
  BY <1>2 DEF SuffixOK
<1>4. PlacesOK
  BY <1>2, InHandFacts, FS_EmptySet DEF PlacesOK, Elements
<1>5. GivenOK
  BY DEF GivenOK, OrderKept, Ascending
<1> QED
  BY <1>b, <1>1, <1>3, <1>4, <1>5 DEF RingIInv
-----------------------------------------------------------------------------
\* Steps that move no message keep the messages where they are.
LEMMA NothingMoves ==
  ASSUME SuffixOK, PlacesOK, UNCHANGED <<queue, rest, given, discarded, hand, accepted>>
  PROVE  SuffixOK' /\ PlacesOK'
<1>1. Past' = Past /\ Elements(given)' = Elements(given) /\ InHand' = InHand
  BY DEF Past, Elements, InHand
<1>2. SuffixOK'
  BY <1>1 DEF SuffixOK
<1>3. PlacesOK'
  BY <1>1 DEF PlacesOK
<1> QED
  BY <1>2, <1>3

\* Log, and the steps of run and Close that only change how far these have come.
LEMMA QuietSteps ==
  ASSUME RingIInv,
         \/ \E w \in Writers, m \in Messages : Log(w, m)
         \/ RunLoops \/ DequeueWaits \/ DequeueClosed \/ SetClosed \/ CloseRing \/ CloseDriver
         \/ UNCHANGED ringVars
  PROVE  RingIInv'
<1> USE DEF ringVars, ring, goroutine, closing, driver
<1>1. UNCHANGED <<queue, rest, given, discarded, hand, accepted>>
  BY Zenon DEF Log, RunLoops, DequeueWaits, DequeueClosed, SetClosed, CloseRing, CloseDriver
<1>2. SuffixOK' /\ PlacesOK'
  BY <1>1, NothingMoves DEF RingIInv
<1>3. Types' /\ Stages' /\ NoLostWakeup' /\ LateOK'
  <2> USE DEF RingIInv, Types, Stages, NoLostWakeup, LateOK
  <2>1. CASE \E w \in Writers, m \in Messages : Log(w, m)
    <3>1. PICK w \in Writers, m \in Messages : Log(w, m)
      BY <2>1
    <3>2. /\ UNCHANGED <<queue, rest, given, discarded, hand, accepted, closed, closeFlag, logErr, shut, run, closer, late>>
          /\ calling' = calling \/ calling' = [calling EXCEPT ![w] = m]
      BY <3>1 DEF Log
    <3>3. calling' \in [Writers -> Messages \cup {None}]
      BY <3>2
    <3> QED
      BY <3>2, <3>3
  <2>2. CASE RunLoops
    BY <2>2 DEF RunLoops
  <2>3. CASE DequeueWaits
    BY <2>3 DEF DequeueWaits
  <2>4. CASE DequeueClosed
    BY <2>4 DEF DequeueClosed
  <2>5. CASE SetClosed
    BY <2>5 DEF SetClosed
  <2>6. CASE CloseRing
    BY <2>6 DEF CloseRing, Wakes
  <2>7. CASE CloseDriver
    BY <2>7 DEF CloseDriver
  <2>8. CASE UNCHANGED ringVars
    BY <2>8
  <2> QED
    BY <2>1, <2>2, <2>3, <2>4, <2>5, <2>6, <2>7, <2>8
<1>4. closed' = closed \/ (~closed /\ closed')
  BY DEF Log, RunLoops, DequeueWaits, DequeueClosed, SetClosed, CloseRing, CloseDriver,
        RingIInv, Types, Stages
<1>5. GivenOK'
  BY <1>1, <1>4 DEF RingIInv, GivenOK, OrderKept, Ascending, Without
<1> QED
  BY <1>2, <1>3, <1>5 DEF RingIInv

\* Enqueue: the message accepted is the last of the queue.
LEMMA EnqueueStep ==
  ASSUME RingIInv, NEW w \in Writers, Enqueue(w)
  PROVE  RingIInv'
<1> USE DEF ring, goroutine, closing, driver
<1>1. /\ UNCHANGED <<rest, given, discarded, hand, closed, closeFlag, logErr, shut, late, closer>>
      /\ calling' = [calling EXCEPT ![w] = None]
      /\ run' = run \/ (run = "asleep" /\ run' = "dequeue")
  BY DEF Enqueue, Wakes
<1>2. CASE UNCHANGED <<queue, accepted>>
  <2>1. SuffixOK' /\ PlacesOK'
    BY <1>1, <1>2, NothingMoves DEF RingIInv
  <2>2. Types' /\ Stages' /\ NoLostWakeup' /\ LateOK'
    BY <1>1, <1>2 DEF RingIInv, Types, Stages, NoLostWakeup, LateOK
  <2>3. GivenOK'
    BY <1>1 DEF RingIInv, GivenOK, OrderKept, Ascending, Without
  <2> QED
    BY <2>1, <2>2, <2>3 DEF RingIInv
<1>3. CASE ~closed /\ Accepts(calling[w]) /\ Wakes
  <2> DEFINE k == Len(accepted) + 1
  <2>1. queue' = Append(queue, k) /\ accepted' = Append(accepted, calling[w]) /\ run' # "asleep"
    BY <1>3 DEF Accepts, Wakes
  <2>2. /\ queue \in Seq(Nat) /\ k \in Nat /\ calling[w] \in Messages /\ accepted \in Seq(Messages)
        /\ rest = <<>> /\ closer \in {"open", "flagged"}
    BY <1>3 DEF RingIInv, Types, Stages, Enqueue
  <2>3. /\ queue' \in Seq(Nat) /\ Len(queue') = Len(queue) + 1 /\ queue'[Len(queue) + 1] = k
        /\ \A i \in DOMAIN queue : queue'[i] = queue[i]
        /\ DOMAIN queue' = DOMAIN queue \cup {Len(queue) + 1}
        /\ accepted' \in Seq(Messages) /\ Len(accepted') = Len(accepted) + 1
        /\ Len(queue) \in Nat /\ Len(accepted) \in Nat
    BY <2>1, <2>2, AppendFacts
  <2>4. Len(rest) = 0 /\ Past \in Int /\ Past' = Past /\ k = Past + Len(queue) + 1
    BY <1>1, <2>2, <2>3, EmptyFacts DEF Past
  <2>5. SuffixOK'
    <3>1. \A i \in DOMAIN queue' : queue'[i] = Past + i
      BY <2>3, <2>4 DEF RingIInv, SuffixOK
    <3> QED
      BY <1>1, <2>4, <3>1 DEF RingIInv, SuffixOK
  <2>6. PlacesOK'
    BY <1>1, <2>4 DEF RingIInv, PlacesOK, Elements, InHand
  <2>7. Types' /\ Stages' /\ NoLostWakeup' /\ LateOK'
    BY <1>1, <2>1, <2>2, <2>3 DEF RingIInv, Types, Stages, NoLostWakeup, LateOK
  <2>8. GivenOK'
    BY <1>1 DEF RingIInv, GivenOK, OrderKept, Ascending, Without
  <2> QED
    BY <2>5, <2>6, <2>7, <2>8 DEF RingIInv
<1> QED
  BY <1>2, <1>3 DEF Enqueue

\* Dequeue: the first of the queue comes into the hands of run.
LEMMA DequeueStep ==
  ASSUME RingIInv, Dequeue
  PROVE  RingIInv'
<1> USE DEF closing, driver
<1>1. /\ UNCHANGED <<rest, given, discarded, closed, closeFlag, logErr, shut, late, closer, accepted, calling>>
      /\ run = "dequeue" /\ run' = "log" /\ ~closed /\ queue # <<>>
      /\ hand' = Head(queue) /\ queue' = Tail(queue)
  BY DEF Dequeue
<1>2. /\ queue \in Seq(Nat) /\ given \in Seq(Nat) /\ accepted \in Seq(Messages)
      /\ rest = <<>> /\ closer \in {"open", "flagged"} /\ hand = None /\ late = {} /\ ~shut
  BY <1>1 DEF RingIInv, Types, Stages, LateOK
<1>3. /\ Head(queue) = queue[1] /\ 1 \in DOMAIN queue /\ Head(queue) \in Nat
      /\ queue' \in Seq(Nat) /\ Len(queue') = Len(queue) - 1 /\ Len(queue) \in Nat \ {0}
      /\ \A i \in DOMAIN queue' : queue'[i] = queue[i + 1] /\ i + 1 \in DOMAIN queue
      /\ DOMAIN queue' = 1..(Len(queue) - 1)
  BY <1>1, <1>2, TailFacts
<1>4. /\ Len(rest) = 0 /\ Len(accepted) \in Nat /\ Past \in Int /\ Past' = Past + 1
  BY <1>1, <1>2, <1>3, EmptyFacts DEF Past
<1>5. /\ hand' = Past + 1 /\ hand' # None /\ Len(given) \in Nat
      /\ Cardinality(discarded) \in Nat /\ Past \in Nat
  <2>1. hand' = Past + 1 /\ hand' # None
    BY <1>1, <1>3, RingAssumption DEF RingIInv, SuffixOK
  <2>2. Len(given) \in Nat /\ Cardinality(discarded) \in Nat /\ Cardinality(InHand) = 0
    BY <1>2, FS_CardinalityType, InHandFacts DEF RingIInv, Types
  <2> QED
    BY <2>1, <2>2 DEF RingIInv, PlacesOK
<1>6. SuffixOK'
  <2>1. \A i \in DOMAIN queue' : queue'[i] = Past' + i
    BY <1>3, <1>4 DEF RingIInv, SuffixOK
  <2>2. \A i \in DOMAIN rest' : rest'[i] = Past' + i
    BY <1>1, <1>2, EmptyFacts
  <2>3. \A i \in DOMAIN given' : 1 <= given'[i] /\ given'[i] <= Past'
    <3>1. \A i \in DOMAIN given : given[i] \in Nat /\ 1 <= given[i] /\ given[i] <= Past
      BY <1>2 DEF RingIInv, SuffixOK
    <3> QED
      BY <1>1, <1>4, <1>5, <3>1
  <2>4. \A i \in discarded' : 1 <= i /\ i <= Past'
    BY <1>1, <1>4 DEF RingIInv, SuffixOK, Types
  <2> QED
    BY <1>4, <1>5, <2>1, <2>2, <2>3, <2>4 DEF SuffixOK
<1>7. PlacesOK'
  <2>1. InHand' = {Past + 1} /\ Cardinality(InHand') = 1 /\ InHand = {} /\ Cardinality(InHand) = 0
    BY <1>2, <1>5, FS_EmptySet, FS_Singleton DEF InHand
  <2>2. Elements(given)' = Elements(given)
    BY <1>1 DEF Elements
  <2>3. 1..Past' = 1..Past \cup {Past + 1}
    BY <1>4, <1>5
  <2> QED
    BY <1>1, <1>4, <1>5, <2>1, <2>2, <2>3 DEF RingIInv, PlacesOK
<1>8. Types' /\ Stages' /\ NoLostWakeup' /\ LateOK'
  BY <1>1, <1>2, <1>3, <1>5 DEF RingIInv, Types, Stages, NoLostWakeup, LateOK
<1>9. GivenOK'
  <2>1. \A i \in DOMAIN given : given[i] < Past + 1
    BY <1>2, <1>5 DEF RingIInv, SuffixOK
  <2> QED
    BY <1>1, <1>5, <2>1 DEF RingIInv, GivenOK, OrderKept, Ascending, Without
<1> QED
  BY <1>6, <1>7, <1>8, <1>9 DEF RingIInv

\* RunLogs: the driver is given the message in the hands of run.
LEMMA RunLogsStep ==
  ASSUME RingIInv, RunLogs
  PROVE  RingIInv'
<1> USE DEF ring, closing, driver
<1>1. /\ UNCHANGED <<queue, rest, discarded, closed, closeFlag, logErr, shut, closer, accepted, calling>>
      /\ run' = "loop" /\ hand' = None
      /\ given' = Append(given, hand) /\ late' = IF shut THEN late \cup {hand} ELSE late
  BY DEF RunLogs, Gives
<1>2. given \in Seq(Nat) /\ hand \in Nat /\ hand # None /\ late = {} /\ late \subseteq Nat
  BY DEF RingIInv, Types, Stages, LateOK, RunLogs
<1>3. /\ given' \in Seq(Nat) /\ Len(given') = Len(given) + 1 /\ given'[Len(given) + 1] = hand
      /\ \A i \in DOMAIN given : given'[i] = given[i]
      /\ DOMAIN given' = DOMAIN given \cup {Len(given) + 1} /\ Len(given) \in Nat
      /\ Elements(given)' = Elements(given) \cup {hand}
  BY <1>1, <1>2, AppendFacts DEF Elements
<1>4. Past' = Past
  BY <1>1 DEF Past
<1>5. SuffixOK'
  <2>1. \A i \in DOMAIN given' : 1 <= given'[i] /\ given'[i] <= Past
    BY <1>2, <1>3 DEF RingIInv, SuffixOK
  <2> QED
    BY <1>1, <1>4, <2>1 DEF RingIInv, SuffixOK
<1>6. PlacesOK'
  <2>1. InHand' = {} /\ Cardinality(InHand') = 0 /\ InHand = {hand} /\ Cardinality(InHand) = 1
    BY <1>1, <1>2, FS_EmptySet, FS_Singleton DEF InHand
  <2>2. Cardinality(discarded) \in Nat
    BY FS_CardinalityType DEF RingIInv, Types
  <2> QED
    BY <1>1, <1>3, <1>4, <2>1, <2>2 DEF RingIInv, PlacesOK
<1>7. Types' /\ Stages' /\ NoLostWakeup' /\ LateOK'
  BY <1>1, <1>2, <1>3 DEF RingIInv, Types, Stages, NoLostWakeup, LateOK, RunLogs
<1>8. GivenOK'
  <2>1. CASE ~closed
    <3>1. \A i \in DOMAIN given : given[i] < hand
      BY <1>2, <2>1 DEF RingIInv, GivenOK
    <3>2. Ascending(given')
      BY <1>1, <1>2, <2>1, <3>1, AppendAscending DEF RingIInv, GivenOK
    <3> QED
      BY <1>1, <2>1, <3>2 DEF GivenOK, OrderKept
  <2>2. CASE closed
    <3>1. Ascending(given)
      BY <1>2 DEF RingIInv, GivenOK
    <3>2. \E k \in DOMAIN given' : Ascending(Without(given', k))
      BY <1>1, <1>2, <3>1, AppendLast
    <3> QED
      BY <1>1, <2>2, <3>2 DEF GivenOK, OrderKept
  <2> QED
    BY <2>1, <2>2
<1> QED
  BY <1>5, <1>6, <1>7, <1>8 DEF RingIInv

\* Drain: what was queued is now what Close has to give.
LEMMA DrainStep ==
  ASSUME RingIInv, Drain
  PROVE  RingIInv'
<1> USE DEF goroutine, driver
<1>1. /\ UNCHANGED <<given, late, hand, run, discarded, closed, closeFlag, logErr, shut, accepted, calling>>
      /\ closer = "drain" /\ closer' = "log" /\ rest' = queue /\ queue' = <<>>
  BY DEF Drain
<1>2. rest = <<>> /\ queue \in Seq(Nat) /\ accepted \in Seq(Messages)
  BY <1>1 DEF RingIInv, Types, Stages
<1>3. Len(rest) = 0 /\ Len(queue') = 0 /\ DOMAIN queue' = {} /\ queue' \in Seq(Nat)
  BY <1>1, <1>2, EmptyFacts
<1>4. Past' = Past
  BY <1>1, <1>2, <1>3 DEF Past
<1>5. SuffixOK'
  BY <1>1, <1>3, <1>4 DEF RingIInv, SuffixOK
<1>6. PlacesOK'
  BY <1>1, <1>4 DEF RingIInv, PlacesOK, Elements, InHand
<1>7. Types' /\ Stages' /\ NoLostWakeup' /\ LateOK'
  BY <1>1, <1>2, <1>3 DEF RingIInv, Types, Stages, NoLostWakeup, LateOK
<1>8. GivenOK'
  BY <1>1 DEF RingIInv, GivenOK, OrderKept, Ascending, Without
<1> QED
  BY <1>5, <1>6, <1>7, <1>8 DEF RingIInv

\* LogsRest: Close gives the driver the next message, or drops it after an error.
LEMMA LogsRestStep ==
  ASSUME RingIInv, NEW ok \in BOOLEAN, LogsRest(ok)
  PROVE  RingIInv'
<1> USE DEF ring, goroutine, driver
<1> DEFINE x == Head(rest)
<1>1. /\ UNCHANGED <<queue, hand, run, closed, closeFlag, shut, closer, accepted, calling>>
      /\ closer = "log" /\ rest # <<>> /\ rest' = Tail(rest)
      /\ \/ logErr /\ logErr' = logErr /\ discarded' = discarded \cup {x} /\ given' = given /\ late' = late
         \/ ~logErr /\ logErr' = ~ok /\ discarded' = discarded /\ given' = Append(given, x)
            /\ late' = IF shut THEN late \cup {x} ELSE late
  BY DEF LogsRest, Gives
<1>2. /\ rest \in Seq(Nat) /\ given \in Seq(Nat) /\ accepted \in Seq(Messages)
      /\ queue = <<>> /\ closed /\ ~shut /\ late = {} /\ logErr \in BOOLEAN
      /\ discarded \subseteq Nat /\ IsFiniteSet(discarded)
  BY <1>1 DEF RingIInv, Types, Stages, LateOK
<1>3. /\ x = rest[1] /\ 1 \in DOMAIN rest /\ x \in Nat
      /\ rest' \in Seq(Nat) /\ Len(rest') = Len(rest) - 1 /\ Len(rest) \in Nat \ {0}
      /\ \A i \in DOMAIN rest' : rest'[i] = rest[i + 1] /\ i + 1 \in DOMAIN rest
      /\ DOMAIN rest' = 1..(Len(rest) - 1)
  BY <1>1, <1>2, TailFacts
<1>4. Len(queue) = 0 /\ Len(accepted) \in Nat /\ Past \in Int /\ Past' = Past + 1
  BY <1>1, <1>2, <1>3, EmptyFacts DEF Past
<1>5. /\ x = Past + 1 /\ Past \in Nat /\ Len(given) \in Nat
      /\ Cardinality(discarded) \in Nat /\ Cardinality(InHand) \in Nat
      /\ InHand' = InHand
  <2>1. x = Past + 1
    BY <1>3, <1>4 DEF RingIInv, SuffixOK
  <2>2. Len(given) \in Nat /\ Cardinality(discarded) \in Nat /\ Cardinality(InHand) \in Nat
    BY <1>2, FS_CardinalityType, InHandFacts
  <2>3. InHand' = InHand
    BY <1>1 DEF InHand
  <2> QED
    BY <2>1, <2>2, <2>3 DEF RingIInv, PlacesOK
<1> HIDE DEF x
<1>6. /\ given' \in Seq(Nat) /\ discarded' \subseteq Nat /\ IsFiniteSet(discarded')
      /\ Elements(given)' \cup discarded' = Elements(given) \cup discarded \cup {x}
      /\ Len(given') + Cardinality(discarded') = Len(given) + Cardinality(discarded) + 1
      /\ \A i \in DOMAIN given' : 1 <= given'[i] /\ given'[i] <= Past + 1
      /\ \A i \in discarded' : 1 <= i /\ i <= Past + 1
  <2>0. /\ \A i \in DOMAIN given : given[i] \in Nat /\ 1 <= given[i] /\ given[i] <= Past
        /\ \A i \in discarded : i \in Nat /\ 1 <= i /\ i <= Past
    BY <1>2 DEF RingIInv, SuffixOK
  <2>1. CASE logErr
    <3>1. discarded' = discarded \cup {x} /\ given' = given
      BY <1>1, <2>1
    <3>2. x \notin discarded
      BY <1>5, <2>0
    <3>3. IsFiniteSet(discarded') /\ Cardinality(discarded') = Cardinality(discarded) + 1
      BY <1>2, <3>1, <3>2, FS_AddElement
    <3>4. Elements(given)' \cup discarded' = Elements(given) \cup discarded \cup {x}
      BY <3>1 DEF Elements
    <3>5. Len(given') + Cardinality(discarded') = Len(given) + Cardinality(discarded) + 1
      BY <1>5, <3>1, <3>3
    <3>6. discarded' \subseteq Nat /\ \A i \in discarded' : 1 <= i /\ i <= Past + 1
      BY <1>3, <1>5, <2>0, <3>1
    <3>7. \A i \in DOMAIN given' : 1 <= given'[i] /\ given'[i] <= Past + 1
      BY <1>5, <2>0, <3>1
    <3> QED
      BY <1>2, <3>1, <3>3, <3>4, <3>5, <3>6, <3>7
  <2>2. CASE ~logErr
    <3>1. discarded' = discarded /\ given' = Append(given, x)
      BY <1>1, <2>2
    <3>2. /\ given' \in Seq(Nat) /\ Len(given') = Len(given) + 1 /\ given'[Len(given) + 1] = x
          /\ \A i \in DOMAIN given : given'[i] = given[i]
          /\ DOMAIN given' = DOMAIN given \cup {Len(given) + 1}
          /\ Elements(given)' = Elements(given) \cup {x}
      BY <1>2, <1>3, <3>1, AppendFacts DEF Elements
    <3>3. \A i \in DOMAIN given' : 1 <= given'[i] /\ given'[i] <= Past + 1
      BY <1>5, <2>0, <3>2
    <3>4. Len(given') + Cardinality(discarded') = Len(given) + Cardinality(discarded) + 1
      BY <1>5, <3>1, <3>2
    <3>5. \A i \in discarded' : 1 <= i /\ i <= Past + 1
      BY <1>5, <2>0, <3>1
    <3>6. Elements(given)' \cup discarded' = Elements(given) \cup discarded \cup {x}
      BY <3>1, <3>2
    <3> QED
      BY <1>2, <3>1, <3>2, <3>3, <3>4, <3>5, <3>6
  <2> QED
    BY <1>2, <2>1, <2>2
<1>7. SuffixOK'
  <2>1. \A i \in DOMAIN rest' : rest'[i] = Past' + i
    BY <1>3, <1>4 DEF RingIInv, SuffixOK
  <2>2. \A i \in DOMAIN queue' : queue'[i] = Past' + i
    BY <1>1, <1>2, EmptyFacts
  <2>3. hand' # None => 1 <= hand' /\ hand' <= Past'
    BY <1>1, <1>4 DEF RingIInv, SuffixOK, Types
  <2> QED
    BY <1>4, <1>6, <2>1, <2>2, <2>3 DEF SuffixOK
<1>8. PlacesOK'
  <2>1. 1..Past' = 1..Past \cup {x}
    BY <1>4, <1>5
  <2>2. Elements(given)' \cup discarded' \cup InHand' = 1..Past'
    BY <1>5, <1>6, <2>1 DEF RingIInv, PlacesOK
  <2>3. Len(given') \in Nat /\ Cardinality(discarded') \in Nat
    BY <1>6, FS_CardinalityType
  <2> QED
    BY <1>4, <1>5, <1>6, <2>2, <2>3 DEF RingIInv, PlacesOK
<1>9. Types' /\ Stages' /\ NoLostWakeup' /\ LateOK'
  <2>1. logErr' \in BOOLEAN /\ late' = late /\ (~logErr' => discarded' = {})
    BY <1>1, <1>2 DEF RingIInv, Stages
  <2>2. Types'
    BY <1>1, <1>2, <1>3, <1>6, <2>1 DEF RingIInv, Types
  <2>3. Stages'
    BY <1>1, <1>2, <2>1 DEF RingIInv, Stages
  <2>4. NoLostWakeup' /\ LateOK'
    BY <1>1, <1>2, <2>1 DEF RingIInv, NoLostWakeup, LateOK
  <2> QED
    BY <2>2, <2>3, <2>4
<1>10. GivenOK'
  <2>1. CASE given' = given
    BY <1>1, <2>1 DEF RingIInv, GivenOK, OrderKept, Ascending, Without
  <2>2. CASE given' = Append(given, x)
    <3>1. \A i \in DOMAIN given : given[i] < x
      BY <1>2, <1>5 DEF RingIInv, SuffixOK
    <3>2. /\ Ascending(given) => Ascending(given')
          /\ \A k \in DOMAIN given : Ascending(Without(given, k)) => Ascending(Without(given', k))
      BY <1>2, <1>3, <2>2, <3>1, AppendAscending
    <3>3. DOMAIN given \subseteq DOMAIN given'
      BY <1>2, <1>3, <2>2, AppendFacts
    <3> QED
      BY <1>1, <1>2, <3>2, <3>3 DEF RingIInv, GivenOK, OrderKept
  <2> QED
    BY <1>1, <2>1, <2>2
<1> QED
  BY <1>7, <1>8, <1>9, <1>10 DEF RingIInv
-----------------------------------------------------------------------------
\* The inductive invariant holds in every reachable state.
THEOREM RingInvariance == RingSpec => []RingIInv
<1>1. RingIInv /\ [RingNext]_ringVars => RingIInv'
  BY QuietSteps, EnqueueStep, DequeueStep, RunLogsStep, DrainStep, LogsRestStep
  DEF RingNext, RunStep, CloseStep
<1> QED
  BY <1>1, InitRingIInv, PTL DEF RingSpec

\* Wherever a message is, it is one of those accepted.
LEMMA RingConserved == RingIInv => Conserved
<1> SUFFICES ASSUME RingIInv PROVE Conserved
  OBVIOUS
<1> DEFINE QR == Elements(queue) \cup Elements(rest)
<1>1. /\ queue \in Seq(Nat) /\ rest \in Seq(Nat) /\ given \in Seq(Nat) /\ accepted \in Seq(Messages)
      /\ queue = <<>> \/ rest = <<>>
  BY DEF RingIInv, Types, Stages
<1>2. /\ Len(queue) \in Nat /\ Len(rest) \in Nat /\ Len(given) \in Nat /\ Len(accepted) \in Nat
      /\ DOMAIN queue = 1..Len(queue) /\ DOMAIN rest = 1..Len(rest)
      /\ Cardinality(discarded) \in Nat /\ Cardinality(InHand) \in Nat
  BY <1>1, FS_CardinalityType, InHandFacts DEF RingIInv, Types
<1>3. Past \in Nat /\ Len(accepted) = Past + Len(queue) + Len(rest)
  BY <1>2 DEF RingIInv, PlacesOK, Past
<1>4. \A s \in Seq(Nat) : (\A i \in DOMAIN s : s[i] = Past + i) => Elements(s) = (Past + 1)..(Past + Len(s))
  <2> SUFFICES ASSUME NEW s \in Seq(Nat), \A i \in DOMAIN s : s[i] = Past + i
               PROVE  Elements(s) = (Past + 1)..(Past + Len(s))
    OBVIOUS
  <2>1. Len(s) \in Nat /\ DOMAIN s = 1..Len(s)
    OBVIOUS
  <2>2. Elements(s) = {Past + i : i \in 1..Len(s)}
    BY <2>1 DEF Elements
  <2>3. ASSUME NEW j \in (Past + 1)..(Past + Len(s)) PROVE \E i \in 1..Len(s) : j = Past + i
    <3>1. j - Past \in 1..Len(s) /\ j = Past + (j - Past)
      BY <1>3, <2>1
    <3> QED
      BY <3>1
  <2> QED
    BY <1>3, <2>1, <2>2, <2>3
<1>5. QR = (Past + 1)..Len(accepted)
  <2>1. Elements(queue) = (Past + 1)..(Past + Len(queue)) /\ Elements(rest) = (Past + 1)..(Past + Len(rest))
    BY <1>1, <1>4 DEF RingIInv, SuffixOK
  <2>2. Len(queue) = 0 \/ Len(rest) = 0
    BY <1>1, EmptyFacts
  <2> QED
    BY <1>2, <1>3, <2>1, <2>2
<1>6. QR \cup 1..Past = Numbers
  BY <1>2, <1>3, <1>5 DEF Numbers
<1> HIDE DEF QR
<1>7. QR \cup (Elements(given) \cup discarded \cup InHand) = Numbers
  BY <1>6 DEF RingIInv, PlacesOK
<1>8. Len(queue) + Len(rest) + Len(given) + Cardinality(discarded) + Cardinality(InHand) = Len(accepted)
  <2>1. Len(given) + Cardinality(discarded) + Cardinality(InHand) = Past
    BY DEF RingIInv, PlacesOK
  <2> QED
    BY <1>2, <1>3, <2>1
<1>9. Elements(queue) \cup Elements(rest) \cup Elements(given) \cup discarded \cup InHand = Numbers
  BY <1>7 DEF QR
<1> QED
  BY <1>8, <1>9 DEF Conserved

(***************************************************************************)
(* For any writers, messages and sizes: run is never left asleep, Close    *)
(* returns with all given to a driver that did not fail, a closed driver   *)
(* sees one more message at most (CloseSound); no message is lost or given *)
(* twice, and the driver sees them in order but for the one run held.      *)
(***************************************************************************)
THEOREM RingCorrectness == RingSpec => [](CloseSound /\ Conserved /\ OrderKept)
<1>1. ASSUME RingIInv PROVE ClosedIsFlushed
  <2> SUFFICES ASSUME closer = "closed", ~logErr PROVE Elements(given) \cup InHand = Numbers
    BY DEF ClosedIsFlushed
  <2>1. queue = <<>> /\ rest = <<>> /\ discarded = {}
    BY <1>1 DEF RingIInv, Stages
  <2>2. Elements(queue) = {} /\ Elements(rest) = {}
    BY <2>1, EmptyFacts
  <2> QED
    BY <1>1, <2>1, <2>2, RingConserved DEF Conserved
<1>2. ASSUME RingIInv PROVE LateIsOne
  <2> DEFINE L == late \cup IF shut THEN InHand ELSE {}
  <2>1. \A i, j \in L : i = j
    BY <1>2 DEF RingIInv, LateOK, InHand
  <2>2. L = {} \/ \E i \in L : L = {i}
    BY <2>1, Zenon
  <2> HIDE DEF L
  <2>3. Cardinality(L) = 0 \/ Cardinality(L) = 1
    BY <2>2, FS_EmptySet, FS_Singleton, Zenon
  <2> QED
    BY <2>3 DEF LateIsOne, L
<1>3. RingIInv => CloseSound /\ Conserved /\ OrderKept
  BY <1>1, <1>2, RingConserved DEF CloseSound, RingIInv, GivenOK
<1> QED
  BY <1>3, RingInvariance, PTL
-----------------------------------------------------------------------------
(***************************************************************************)
(* The size of the ring.  f is the function of the sums of the first       *)
(* values of g: f[k] is the sum of g[1] to g[k].                           *)
(***************************************************************************)
Sums(g, N, f) == f = [k \in 0..N |-> IF k = 0 THEN 0 ELSE f[k - 1] + g[k]]

Sizes == [i \in 1..Len(queue) |-> Size(accepted[queue[i]])]

\* sizeBytes is the sum of the sizes queued, and within its bound; and types.
SizeOK ==
    /\ \E f : Sums(Sizes, Len(queue), f) /\ sizeBytes = f[Len(queue)]
    /\ sizeBytes \in Nat
    /\ sizeBytes <= MaxBytes \/ Len(queue) = 1
    /\ late \subseteq Elements(given)
    /\ refused \subseteq Messages

\* A set of natural numbers has a least element: induction, as a statement about sets.
LEMMA LeastElement ==
  ASSUME NEW T, T \subseteq Nat, T # {}
  PROVE  \E k \in T : \A j \in T : k <= j
<1> DEFINE R == OpToRel(<, Nat)
<1>1. IsWellFoundedOn(R, Nat)
  BY NatLessThanWellFounded, Zenon DEF R
<1>2. \A a, b \in Nat : a < b => <<a, b>> \in R
  BY DEF OpToRel
<1> HIDE DEF R
<1>3. PICK k \in T : \A j \in T : ~(<<j, k>> \in R)
  BY <1>1, WFMin, Zenon
<1>4. \A j \in T : k <= j
  <2> TAKE j \in T
  <2>1. k \in Nat /\ j \in Nat
    OBVIOUS
  <2>2. ~(j < k)
    BY <1>2, <1>3, <2>1, Zenon
  <2> QED
    BY <2>1, <2>2
<1> QED
  BY <1>4

\* Any values have sums.
LEMMA SumsExist ==
  ASSUME NEW g, NEW N \in Nat
  PROVE  \E f : Sums(g, N, f)
<1> DEFINE T == {k \in Nat : ~\E f : Sums(g, k, f)}
<1> SUFFICES ASSUME T # {} PROVE FALSE
  OBVIOUS
<1>1. PICK k \in T : \A j \in T : k <= j
  BY LeastElement
<1>2. k # 0
  <2>1. Sums(g, 0, [i \in 0..0 |-> 0])
    BY DEF Sums
  <2> QED
    BY <2>1
<1>3. k \in Nat /\ k - 1 \in Nat /\ k - 1 \notin T
  BY <1>1, <1>2
<1>4. PICK f : Sums(g, k - 1, f)
  BY <1>3
<1> DEFINE h == [i \in 0..k |-> IF i = k THEN f[k - 1] + g[k] ELSE f[i]]
<1>5. Sums(g, k, h)
  <2> HIDE DEF T
  <2>1. \A i \in 0..(k - 1) : h[i] = f[i]
    BY <1>3
  <2>2. h[k] = f[k - 1] + g[k] /\ h = [i \in 0..k |-> h[i]]
    BY <1>3
  <2> HIDE DEF h
  <2>3. \A i \in 0..(k - 1) : f[i] = IF i = 0 THEN 0 ELSE f[i - 1] + g[i]
    BY <1>4, Zenon DEF Sums
  <2>4. \A i \in 0..k : h[i] = IF i = 0 THEN 0 ELSE h[i - 1] + g[i]
    <3> TAKE i \in 0..k
    <3>1. CASE i = k
      <4>1. h[k - 1] = f[k - 1]
        BY <1>3, <2>1
      <4> QED
        BY <1>2, <2>2, <3>1, <4>1
    <3>2. CASE i # k
      <4>1. i \in 0..(k - 1) /\ (i # 0 => i - 1 \in 0..(k - 1))
        BY <1>3, <3>2
      <4> QED
        BY <2>1, <2>3, <4>1
    <3> QED
      BY <3>1, <3>2
  <2> QED
    BY <2>2, <2>4 DEF Sums
<1> QED
  BY <1>5

\* Each sum is the one before it and a value.
LEMMA SumsFacts ==
  ASSUME NEW g, NEW N \in Nat, NEW f, Sums(g, N, f), \A i \in 1..N : g[i] \in Nat
  PROVE  /\ f[0] = 0 /\ \A i \in 1..N : f[i] = f[i - 1] + g[i]
         /\ \A i \in 0..N : f[i] \in Nat
<1>1. \A i \in 0..N : f[i] = IF i = 0 THEN 0 ELSE f[i - 1] + g[i]
  BY Zenon DEF Sums
<1>2. f[0] = 0 /\ \A i \in 1..N : f[i] = f[i - 1] + g[i]
  BY <1>1
<1>3. \A i \in 0..N : f[i] \in Nat
  <2> DEFINE T == {i \in 0..N : f[i] \notin Nat}
  <2> SUFFICES ASSUME T # {} PROVE FALSE
    OBVIOUS
  <2>1. PICK k \in T : \A j \in T : k <= j
    <3>1. T \subseteq Nat
      OBVIOUS
    <3> HIDE DEF T
    <3> QED
      BY <3>1, LeastElement, Zenon
  <2>2. k \in 1..N /\ k - 1 \in 0..N /\ k - 1 \notin T
    BY <1>2, <2>1
  <2>3. f[k - 1] \in Nat
    BY <2>2
  <2> QED
    BY <1>2, <2>1, <2>2, <2>3
<1> QED
  BY <1>2, <1>3

\* The sums of some of the values, from the one after d on, are differences of the sums of all.
LEMMA SumsOfPart ==
  ASSUME NEW g, NEW N \in Nat, NEW f, Sums(g, N, f), \A i \in 1..N : g[i] \in Nat,
         NEW h, NEW M \in Nat, NEW e, Sums(h, M, e), NEW d \in Nat, M + d <= N,
         \A i \in 1..M : h[i] = g[i + d],
         NEW m \in 0..M
  PROVE  e[m] = f[m + d] - f[d]
<1>1. /\ f[0] = 0 /\ \A i \in 1..N : f[i] = f[i - 1] + g[i]
      /\ \A i \in 0..N : f[i] \in Nat
  BY SumsFacts
<1>2. \A i \in 1..M : h[i] \in Nat /\ i + d \in 1..N
  OBVIOUS
<1>3. /\ e[0] = 0 /\ \A i \in 1..M : e[i] = e[i - 1] + h[i]
      /\ \A i \in 0..M : e[i] \in Nat
  BY <1>2, SumsFacts
<1> DEFINE T == {i \in 0..M : e[i] # f[i + d] - f[d]}
<1> SUFFICES ASSUME T # {} PROVE FALSE
  OBVIOUS
<1>4. PICK k \in T : \A j \in T : k <= j
  <2>1. T \subseteq Nat
    OBVIOUS
  <2> HIDE DEF T
  <2> QED
    BY <2>1, LeastElement, Zenon
<1>5. k \in 0..M /\ e[k] # f[k + d] - f[d]
  BY <1>4
<1>6. k # 0
  <2>1. f[d] \in Nat /\ 0 + d = d
    BY <1>1
  <2> QED
    BY <1>3, <1>5, <2>1
<1>7. k - 1 \in 0..M /\ k \in 1..M /\ ~(k <= k - 1)
  BY <1>5, <1>6
<1>8. e[k - 1] = f[k - 1 + d] - f[d]
  BY <1>4, <1>7
<1>9. e[k] = e[k - 1] + g[k + d]
  BY <1>3, <1>7
<1>10. k + d \in 1..N /\ k + d - 1 = k - 1 + d /\ k - 1 + d \in 0..N /\ d \in 0..N
  BY <1>7
<1>11. f[k + d] = f[k - 1 + d] + g[k + d]
  BY <1>1, <1>10
<1>12. f[d] \in Nat /\ f[k - 1 + d] \in Nat /\ f[k + d] \in Nat /\ g[k + d] \in Nat
  BY <1>1, <1>10
<1> HIDE DEF T
<1> QED
  BY <1>5, <1>8, <1>9, <1>11, <1>12

\* The sum of no values.
LEMMA SumsZero ==
  ASSUME NEW g, NEW N \in Nat, NEW f, Sums(g, N, f)
  PROVE  f[0] = 0
<1>1. 0 \in 0..N
  OBVIOUS
<1> QED
  BY <1>1, Zenon DEF Sums

\* The sum when a value is added at the end,
LEMMA SumsAppend ==
  ASSUME NEW h, NEW N \in Nat \ {0}, NEW e, Sums(h, N, e), \A i \in 1..N : h[i] \in Nat,
         NEW g, NEW f, Sums(g, N - 1, f), \A i \in 1..(N - 1) : g[i] = h[i]
  PROVE  e[N] = f[N - 1] + h[N] /\ e[N] \in Nat
<1>1. PICK M \in Nat : M = N - 1
  OBVIOUS
<1>2. /\ N \in Nat /\ 0 \in Nat /\ M + 0 <= N /\ M \in 0..M /\ M + 0 = M
      /\ N \in 1..N /\ N \in 0..N /\ M \in 0..N /\ \A i \in 1..M : g[i] = h[i + 0]
  BY <1>1
<1>3. Sums(g, M, f)
  BY <1>1
<1>4. f[M] = e[M + 0] - e[0]
  BY <1>2, <1>3, SumsOfPart
<1>5. /\ e[0] = 0 /\ \A i \in 1..N : e[i] = e[i - 1] + h[i]
      /\ \A i \in 0..N : e[i] \in Nat
  BY <1>2, SumsFacts
<1> QED
  BY <1>1, <1>2, <1>4, <1>5

\* and when the first is taken away.
LEMMA SumsTail ==
  ASSUME NEW g, NEW N \in Nat \ {0}, NEW f, Sums(g, N, f), \A i \in 1..N : g[i] \in Nat,
         NEW h, NEW e, Sums(h, N - 1, e), \A i \in 1..(N - 1) : h[i] = g[i + 1]
  PROVE  e[N - 1] = f[N] - g[1] /\ e[N - 1] \in Nat
<1>1. N - 1 \in Nat /\ N \in Nat /\ 1 \in Nat /\ N - 1 + 1 <= N /\ N - 1 \in 0..(N - 1) /\ N - 1 + 1 = N
  OBVIOUS
<1>2. e[N - 1] = f[N - 1 + 1] - f[1]
  BY <1>1, SumsOfPart
<1>3. /\ f[0] = 0 /\ \A i \in 1..N : f[i] = f[i - 1] + g[i]
  BY <1>1, SumsFacts
<1>4. f[1] = g[1]
  <2>1. 1 \in 1..N /\ 1 - 1 = 0
    OBVIOUS
  <2> QED
    BY <1>3, <2>1
<1>5. \A i \in 1..(N - 1) : h[i] \in Nat
  <2> TAKE i \in 1..(N - 1)
  <2>1. i + 1 \in 1..N
    OBVIOUS
  <2> QED
    BY <2>1
<1>6. e[N - 1] \in Nat
  BY <1>1, <1>5, SumsFacts
<1> QED
  BY <1>1, <1>2, <1>4, <1>6

\* Wherever a message is, its number is that of one accepted.
LEMMA NumbersOnly ==
  ASSUME RingIInv
  PROVE  /\ queue \in Seq(Numbers) /\ rest \in Seq(Numbers) /\ given \in Seq(Numbers)
         /\ Elements(given) \subseteq Numbers /\ discarded \subseteq Numbers /\ hand \in Numbers \cup {None}
         /\ accepted \in Seq(Messages) /\ Len(accepted) \in Nat /\ DOMAIN accepted = Numbers
<1>1. /\ queue \in Seq(Nat) /\ rest \in Seq(Nat) /\ given \in Seq(Nat) /\ accepted \in Seq(Messages)
  BY DEF RingIInv, Types
<1>2. Elements(queue) \cup Elements(rest) \cup Elements(given) \cup discarded \cup InHand = Numbers
  BY RingConserved DEF Conserved
<1>3. ASSUME NEW s \in Seq(Nat), Elements(s) \subseteq Numbers PROVE s \in Seq(Numbers)
  <2>1. \A i \in DOMAIN s : s[i] \in Numbers
    BY <1>3 DEF Elements
  <2> QED
    BY <2>1
<1>4. hand \in Numbers \cup {None}
  BY <1>2 DEF InHand
<1>5. Len(accepted) \in Nat /\ DOMAIN accepted = Numbers
  BY <1>1 DEF Numbers
<1> QED
  BY <1>1, <1>2, <1>3, <1>4, <1>5

\* Each message queued has a size.
LEMMA SizesFacts ==
  ASSUME RingIInv
  PROVE  /\ Len(queue) \in Nat /\ DOMAIN queue = 1..Len(queue)
         /\ \A i \in 1..Len(queue) : /\ queue[i] \in DOMAIN accepted /\ accepted[queue[i]] \in Messages
                                     /\ Sizes[i] = Size(accepted[queue[i]]) /\ Sizes[i] \in Nat
<1>1. queue \in Seq(Numbers) /\ accepted \in Seq(Messages) /\ DOMAIN accepted = Numbers
  BY NumbersOnly
<1>2. Len(queue) \in Nat /\ DOMAIN queue = 1..Len(queue) /\ \A i \in 1..Len(queue) : queue[i] \in DOMAIN accepted
  BY <1>1
<1>3. \A i \in DOMAIN accepted : accepted[i] \in Messages
  BY <1>1
<1> QED
  BY <1>2, <1>3, RingAssumption DEF Sizes

\* Initially the ring is empty.
LEMMA InitSizeOK == RingInit => SizeOK
<1> SUFFICES ASSUME RingInit PROVE SizeOK
  OBVIOUS
<1>1. queue = <<>> /\ Len(queue) = 0 /\ sizeBytes = 0 /\ late = {} /\ refused = {} /\ MaxBytes \in Nat
  BY EmptyFacts, RingAssumption DEF RingInit
<1>2. PICK f : Sums(Sizes, 0, f)
  BY SumsExist
<1>3. f[0] = 0
  BY <1>2, SumsZero
<1> QED
  BY <1>1, <1>2, <1>3 DEF SizeOK

\* Steps that do not change what is queued.
LEMMA SizeKept ==
  ASSUME RingIInv, SizeOK, UNCHANGED <<queue, accepted, sizeBytes>>,
         late' \subseteq Elements(given'), refused' \subseteq Messages
  PROVE  SizeOK'
<1>1. Sizes' = Sizes
  BY DEF Sizes
<1>2. PICK f : Sums(Sizes, Len(queue), f) /\ sizeBytes = f[Len(queue)]
  BY DEF SizeOK
<1>3. Sums(Sizes, Len(queue), f)' /\ sizeBytes' = f[Len(queue')]
  BY <1>1, <1>2 DEF Sums
<1> QED
  BY <1>3 DEF SizeOK

\* A message is accepted: the sums are those before, and one more.
LEMMA SizeGrows ==
  ASSUME RingIInv, SizeOK, NEW m \in Messages, Accepts(m), RingIInv',
         Size(m) + sizeBytes <= MaxBytes \/ queue = <<>>, UNCHANGED <<late, given, refused>>
  PROVE  SizeOK'
<1> DEFINE N == Len(queue)
<1>1. /\ queue' = Append(queue, Len(accepted) + 1) /\ accepted' = Append(accepted, m)
      /\ sizeBytes' = sizeBytes + Size(m) /\ Size(m) \in Nat /\ MaxBytes \in Nat
  BY RingAssumption DEF Accepts
<1>2. /\ queue \in Seq(Nat) /\ accepted \in Seq(Messages) /\ N \in Nat /\ Len(accepted) \in Nat
      /\ Len(accepted) + 1 \in Nat /\ N + 1 \in Nat
  BY NumbersOnly, SizesFacts DEF RingIInv, Types
<1>3. /\ Len(queue') = N + 1 /\ queue'[N + 1] = Len(accepted) + 1 /\ DOMAIN queue = 1..N
      /\ \A i \in DOMAIN queue : queue'[i] = queue[i]
      /\ accepted'[Len(accepted) + 1] = m
      /\ \A i \in DOMAIN accepted : accepted'[i] = accepted[i]
  BY <1>1, <1>2, AppendFacts
<1>4. PICK f : Sums(Sizes, N, f) /\ sizeBytes = f[N]
  BY DEF SizeOK
<1>5. /\ \A i \in 1..N : Sizes'[i] = Sizes[i]
      /\ \A i \in 1..(N + 1) : Sizes'[i] \in Nat
      /\ Sizes'[N + 1] = Size(m)
  <2>1. \A i \in 1..N : /\ queue[i] \in DOMAIN accepted /\ Sizes[i] = Size(accepted[queue[i]])
    BY SizesFacts
  <2>2. \A i \in 1..(N + 1) : Sizes'[i] = Size(accepted'[queue'[i]])
    BY <1>3 DEF Sizes
  <2>3. \A i \in 1..N : Sizes'[i] = Sizes[i]
    <3> TAKE i \in 1..N
    <3>1. i \in 1..(N + 1)
      BY <1>2
    <3>2. queue'[i] = queue[i] /\ queue[i] \in DOMAIN accepted
      BY <1>3, <2>1
    <3>3. accepted'[queue'[i]] = accepted[queue[i]]
      BY <1>3, <3>2
    <3> QED
      BY <2>1, <2>2, <3>1, <3>3
  <2>4. Sizes'[N + 1] = Size(m)
    <3>1. N + 1 \in 1..(N + 1) /\ accepted'[queue'[N + 1]] = m
      BY <1>2, <1>3
    <3> QED
      BY <2>2, <3>1
  <2>5. \A i \in 1..(N + 1) : i \in 1..N \/ i = N + 1
    BY <1>2
  <2> QED
    BY <1>1, <2>3, <2>4, <2>5, SizesFacts
<1>6. PICK e : Sums(Sizes', N + 1, e)
  BY <1>2, SumsExist
<1>7. e[N + 1] = f[N] + Sizes'[N + 1] /\ e[N + 1] \in Nat
  <2> DEFINE M == N + 1
  <2>1. /\ M \in Nat \ {0} /\ M - 1 = N
    BY <1>2
  <2>2. /\ Sums(Sizes', M, e) /\ Sums(Sizes, M - 1, f)
        /\ (\A i \in 1..M : Sizes'[i] \in Nat) /\ (\A i \in 1..(M - 1) : Sizes[i] = Sizes'[i])
    BY <1>4, <1>5, <1>6, <2>1
  <2>3. e[M] = f[M - 1] + Sizes'[M] /\ e[M] \in Nat
    <3> HIDE DEF M
    <3> QED
      BY <2>1, <2>2, SumsAppend
  <2> QED
    BY <2>1, <2>3
<1>8. sizeBytes' = e[N + 1] /\ sizeBytes' \in Nat
  BY <1>1, <1>4, <1>5, <1>7
<1>9. sizeBytes' <= MaxBytes \/ Len(queue') = 1
  BY <1>1, <1>3, EmptyFacts DEF SizeOK
<1>10. Sums(Sizes, Len(queue), e)'
  BY <1>3, <1>6 DEF Sums
<1> QED
  BY <1>3, <1>8, <1>9, <1>10 DEF SizeOK

\* The first message is taken: the sums are those of the rest.
LEMMA SizeShrinks ==
  ASSUME RingIInv, SizeOK, Dequeue
  PROVE  SizeOK'
<1> DEFINE N == Len(queue)
<1>1. /\ queue' = Tail(queue) /\ queue # <<>> /\ sizeBytes' = sizeBytes - Size(accepted[Head(queue)])
      /\ UNCHANGED <<accepted, late, given, refused>> /\ MaxBytes \in Nat
  BY RingAssumption DEF Dequeue, driver
<1>2. /\ queue \in Seq(Nat) /\ N \in Nat \ {0} /\ Len(queue') = N - 1 /\ N - 1 \in Nat
      /\ Head(queue) = queue[1] /\ \A i \in 1..(N - 1) : queue'[i] = queue[i + 1] /\ i + 1 \in 1..N
  <2>1. queue \in Seq(Nat)
    BY DEF RingIInv, Types
  <2> QED
    BY <1>1, <2>1, TailFacts
<1>3. PICK f : Sums(Sizes, N, f) /\ sizeBytes = f[N]
  BY DEF SizeOK
<1>4. \A i \in 1..N : Sizes[i] = Size(accepted[queue[i]]) /\ Sizes[i] \in Nat
  BY SizesFacts
<1>5. \A i \in 1..(N - 1) : Sizes'[i] = Sizes[i + 1] /\ Sizes'[i] \in Nat
  <2>1. \A i \in 1..(N - 1) : Sizes'[i] = Size(accepted[queue'[i]])
    BY <1>1, <1>2 DEF Sizes
  <2> TAKE i \in 1..(N - 1)
  <2>2. queue'[i] = queue[i + 1] /\ i + 1 \in 1..N
    BY <1>2
  <2> QED
    BY <1>4, <2>1, <2>2
<1>6. PICK e : Sums(Sizes', N - 1, e)
  BY <1>2, SumsExist
<1>7. e[N - 1] = f[N] - Sizes[1] /\ e[N - 1] \in Nat
  <2> HIDE DEF N
  <2> QED
    BY <1>2, <1>3, <1>4, <1>5, <1>6, SumsTail
<1>8. sizeBytes' = e[N - 1]
  <2>1. 1 \in 1..N
    BY <1>2
  <2> QED
    BY <1>1, <1>2, <1>3, <1>4, <1>7, <2>1
<1>9. sizeBytes' <= MaxBytes
  <2>1. CASE N = 1
    <3>1. e[0] = 0
      BY <1>2, <1>6, SumsZero
    <3> QED
      BY <1>1, <1>8, <2>1, <3>1
  <2>2. CASE N # 1
    <3>1. sizeBytes \in Nat /\ sizeBytes <= MaxBytes /\ Size(accepted[Head(queue)]) \in Nat
      <4>1. 1 \in 1..N
        BY <1>2
      <4> QED
        BY <1>2, <1>4, <2>2, <4>1 DEF SizeOK
    <3> QED
      BY <1>1, <3>1
  <2> QED
    BY <2>1, <2>2
<1>10. Sums(Sizes, Len(queue), e)' /\ sizeBytes' = e[Len(queue')] /\ sizeBytes' \in Nat
  BY <1>2, <1>6, <1>7, <1>8 DEF Sums
<1> QED
  BY <1>1, <1>9, <1>10 DEF SizeOK

\* SizeOK is inductive, beside RingIInv.
LEMMA SizeStep == RingIInv /\ RingIInv' /\ SizeOK /\ [RingNext]_ringVars => SizeOK'
<1> SUFFICES ASSUME RingIInv, RingIInv', SizeOK, [RingNext]_ringVars PROVE SizeOK'
  OBVIOUS
<1> USE DEF ring, goroutine, closing, driver
<1>1. late \subseteq Elements(given) /\ refused \subseteq Messages /\ given \in Seq(Nat)
  BY DEF SizeOK, RingIInv, Types
<1>2. CASE \E w \in Writers : Enqueue(w)
  <2>1. PICK w \in Writers : Enqueue(w)
    BY <1>2
  <2>2. calling[w] \in Messages
    BY <2>1 DEF Enqueue, RingIInv, Types
  <2>3. /\ UNCHANGED <<late, given>>
        /\ \/ UNCHANGED <<queue, accepted, sizeBytes>> /\ refused' \subseteq Messages
           \/ /\ Accepts(calling[w]) /\ UNCHANGED refused
              /\ ~(Size(calling[w]) + sizeBytes > MaxBytes /\ queue # <<>>)
    BY <1>1, <2>1, <2>2 DEF Enqueue
  <2>4. CASE UNCHANGED <<queue, accepted, sizeBytes>> /\ refused' \subseteq Messages
    BY <1>1, <2>3, <2>4, SizeKept
  <2>5. CASE /\ Accepts(calling[w]) /\ UNCHANGED refused
             /\ ~(Size(calling[w]) + sizeBytes > MaxBytes /\ queue # <<>>)
    <3>1. Size(calling[w]) + sizeBytes <= MaxBytes \/ queue = <<>>
      BY <2>2, <2>5, RingAssumption DEF SizeOK
    <3> QED
      BY <2>2, <2>3, <2>5, <3>1, SizeGrows
  <2> QED
    BY <2>3, <2>4, <2>5
<1>3. CASE \E w \in Writers, m \in Messages : Log(w, m)
  BY <1>1, <1>3, SizeKept DEF Log
<1>4. CASE RunLoops \/ DequeueWaits \/ DequeueClosed \/ SetClosed \/ CloseRing \/ CloseDriver \/ UNCHANGED ringVars
  <2>1. UNCHANGED <<queue, accepted, sizeBytes, late, given, refused>>
    BY <1>4, Zenon DEF RunLoops, DequeueWaits, DequeueClosed, SetClosed, CloseRing, CloseDriver,
          ringVars
  <2> QED
    BY <1>1, <2>1, SizeKept
<1>5. CASE Dequeue
  BY <1>5, SizeShrinks
<1>6. CASE RunLogs
  <2>1. /\ UNCHANGED <<queue, accepted, sizeBytes, refused>> /\ hand \in Nat
        /\ given' = Append(given, hand) /\ late' \subseteq late \cup {hand}
    BY <1>6 DEF RunLogs, Gives, RingIInv, Types, Stages
  <2>2. Elements(given') = Elements(given) \cup {hand}
    BY <1>1, <2>1, AppendFacts
  <2> QED
    BY <1>1, <2>1, <2>2, SizeKept
<1>7. CASE \E ok \in BOOLEAN : LogsRest(ok)
  <2>1. /\ UNCHANGED <<queue, accepted, sizeBytes, refused>> /\ rest # <<>>
        /\ \/ UNCHANGED <<given, late>>
           \/ given' = Append(given, Head(rest)) /\ late' \subseteq late \cup {Head(rest)}
    BY <1>7 DEF LogsRest, Gives
  <2>2. Head(rest) \in Nat
    <3>1. rest \in Seq(Nat)
      BY DEF RingIInv, Types
    <3> QED
      BY <2>1, <3>1, TailFacts
  <2>3. Elements(Append(given, Head(rest))) = Elements(given) \cup {Head(rest)}
    BY <1>1, <2>2, AppendFacts
  <2>4. late' \subseteq Elements(given')
    BY <1>1, <2>1, <2>3
  <2> QED
    BY <1>1, <2>1, <2>4, SizeKept
<1>8. CASE Drain
  <2>1. queue' = <<>> /\ sizeBytes' = 0 /\ UNCHANGED <<late, given, refused>> /\ Len(queue') = 0 /\ MaxBytes \in Nat
    BY <1>8, EmptyFacts, RingAssumption DEF Drain
  <2>2. PICK e : Sums(Sizes', 0, e)
    BY SumsExist
  <2>3. e[0] = 0
    BY <2>2, SumsZero
  <2>4. Sums(Sizes, Len(queue), e)' /\ sizeBytes' = e[Len(queue')]
    BY <2>1, <2>2, <2>3 DEF Sums
  <2> QED
    BY <1>1, <2>1, <2>4 DEF SizeOK
<1> QED
  BY <1>2, <1>3, <1>4, <1>5, <1>6, <1>7, <1>8 DEF RingNext, RunStep, CloseStep

\* The sum that RingBound speaks of.
LEMMA SizeBound == RingIInv /\ SizeOK => RingBound
<1> SUFFICES ASSUME RingIInv, SizeOK PROVE RingBound
  OBVIOUS
<1> DEFINE N == Len(queue)
<1>1. N \in Nat /\ \A i \in 1..N : Sizes[i] = Size(accepted[queue[i]]) /\ Sizes[i] \in Nat
  BY SizesFacts
<1>2. PICK f : Sums(Sizes, N, f) /\ sizeBytes = f[N]
  BY DEF SizeOK
<1>3. f = [k \in 0..N |-> IF k = 0 THEN 0 ELSE f[k - 1] + Size(accepted[queue[k]])]
  <2> HIDE DEF N
  <2>1. f = [k \in 0..N |-> f[k]] /\ \A k \in 0..N : f[k] = IF k = 0 THEN 0 ELSE f[k - 1] + Sizes[k]
    BY <1>2, Zenon DEF Sums
  <2>2. \A k \in 0..N : k # 0 => k \in 1..N
    BY <1>1
  <2>3. \A k \in 0..N : f[k] = IF k = 0 THEN 0 ELSE f[k - 1] + Size(accepted[queue[k]])
    BY <1>1, <2>1, <2>2
  <2> QED
    BY <2>1, <2>3
<1>4. PICK e : SumSizes = e[N] /\ e = [k \in 0..N |-> IF k = 0 THEN 0 ELSE e[k - 1] + Size(accepted[queue[k]])]
  BY <1>3 DEF SumSizes
<1>5. Sums(Sizes, N, e)
  <2> HIDE DEF N
  <2>1. e = [k \in 0..N |-> e[k]] /\ \A k \in 0..N : e[k] = IF k = 0 THEN 0 ELSE e[k - 1] + Size(accepted[queue[k]])
    BY <1>4, Zenon
  <2>2. \A k \in 0..N : k # 0 => k \in 1..N
    BY <1>1
  <2>3. \A k \in 0..N : e[k] = IF k = 0 THEN 0 ELSE e[k - 1] + Sizes[k]
    BY <1>1, <2>1, <2>2
  <2> QED
    BY <2>1, <2>3 DEF Sums
<1>6. e[N] = f[N]
  <2> HIDE DEF N
  <2>1. N + 0 <= N /\ N \in 0..N /\ 0 \in Nat /\ \A i \in 1..N : Sizes[i] = Sizes[i + 0]
    BY <1>1
  <2>2. e[N] = f[N + 0] - f[0]
    BY <1>1, <1>2, <1>5, <2>1, SumsOfPart
  <2>3. f[0] = 0 /\ f[N] \in Nat
    BY <1>1, <1>2, <2>1, SumsFacts
  <2> QED
    BY <1>1, <2>2, <2>3
<1> QED
  BY <1>2, <1>4, <1>6 DEF RingBound, SizeOK

(***************************************************************************)
(* For any writers, messages and sizes: the ring loses, doubles and        *)
(* reorders nothing, its count of bytes is what the queued messages add up *)
(* to, and it holds no more than its size, or a single message (RingSound).*)
(***************************************************************************)
THEOREM RingIsSound == RingSpec => []RingSound
<1>1. RingIInv /\ SizeOK => RingSound
  BY SizeBound, RingConserved DEF RingSound, RingIInv, GivenOK
<1> QED
  BY <1>1, RingInvariance, InitSizeOK, SizeStep, PTL DEF RingSpec
-----------------------------------------------------------------------------
Sent == [lo : Nat, hi : Nat, id : Nat, ord : Nat, last : BOOLEAN]

\* Where each copier is in its stream.
CopierOK ==
    /\ length \in Lengths
    /\ base \in [Writers -> Nat] /\ p \in [Writers -> Nat] /\ n \in [Writers -> Nat]
    /\ partialid \in [Writers -> Nat] /\ ordinal \in [Writers -> Nat] /\ ids \in [Writers -> Nat]
    /\ sent \in [Writers -> Seq(Sent)]
    /\ \A w \in Writers :
          /\ base[w] <= p[w] /\ p[w] <= n[w] /\ n[w] <= length[w]
          /\ n[w] - base[w] <= BufSize
          /\ Len(sent[w]) <= p[w]

\* How a copier goes on after the messages s: the byte it is at, and the partial line that is open.
Goes(s, at, part, ord, top) ==
    /\ at = IF Len(s) = 0 THEN 0 ELSE Cut(s[Len(s)])
    /\ part = 0 <=> Len(s) = 0 \/ s[Len(s)].last
    /\ part # 0 => part = s[Len(s)].id /\ ord = s[Len(s)].ord + 1
    /\ \A j \in DOMAIN s : s[j].id <= top

StreamOK ==
    \A w \in Writers :
        /\ Goes(sent[w], p[w], partialid[w], ordinal[w], ids[w])
        /\ pc[w] = "read" => p[w] = base[w] /\ n[w] - base[w] < BufSize /\ ~eof[w]
        /\ pc[w] = "ended" /\ eof[w] => p[w] = n[w]

\* LinesKept, of the messages s of one stream, whose copier is at st.
LinesOf(nl, w, s, st) ==
    \A i \in DOMAIN s :
        /\ s[i].lo = IF i = 1 THEN 0 ELSE Cut(s[i - 1])
        /\ \A q \in (s[i].lo + 1)..s[i].hi : <<w, q>> \notin nl
        /\ s[i].last => <<w, s[i].hi + 1>> \in nl
        /\ ~s[i].last => s[i].hi - s[i].lo = BufSize \/ (s[i].lo < s[i].hi /\ i = Len(s) /\ st = "ended")
        /\ IF i > 1 /\ ~s[i - 1].last THEN s[i].id = s[i - 1].id /\ s[i].ord = s[i - 1].ord + 1
           ELSE \/ s[i].last /\ s[i].id = 0
                \/ /\ ~s[i].last /\ s[i].ord = 1
                   /\ \A j \in 1..(i - 1) : s[j].id # s[i].id

\* The logger is closed when the copiers have ended, or Reset has not waited.
ResetOK ==
    /\ newline \subseteq Positions /\ pc \in [Writers -> {"read", "scan", "ended"}]
    /\ eof \in [Writers -> BOOLEAN] /\ resetting \in BOOLEAN /\ timedOut \in BOOLEAN
    /\ closer # "open" => timedOut \/ Copied
    /\ refused # {} => timedOut

IInv == RingIInv /\ SizeOK /\ CopierOK /\ StreamOK /\ LinesKept /\ ResetOK
-----------------------------------------------------------------------------
\* Initially nothing has been read.
LEMMA InitCopierOK == Init => CopierOK
<1> SUFFICES ASSUME Init PROVE CopierOK
  OBVIOUS
<1>1. \A w \in Writers : length[w] \in Nat
  BY LogsAssumption DEF Init
<1>2. <<>> \in Seq(Sent) /\ Len(<<>>) = 0
  BY EmptyFacts, Zenon
<1> QED
  BY <1>1, <1>2, LogsAssumption DEF Init, CopierOK

\* A copier that logs has a message of Messages, and moves on by a byte.
LEMMA LogsMessage ==
  ASSUME CopierOK, NEW w \in Writers, NEW hi \in Nat, NEW ident \in Nat, NEW ord \in Nat, NEW last \in BOOLEAN,
         p[w] <= hi, hi <= n[w], p[w] < n[w], Logs(w, hi, ident, ord, last)
  PROVE  /\ \E m \in Messages : Log(w, m)
         /\ sent' \in [Writers -> Seq(Sent)]
         /\ Len(sent'[w]) = Len(sent[w]) + 1
         /\ \A v \in Writers \ {w} : sent'[v] = sent[v]
<1> DEFINE r == [lo |-> p[w], hi |-> hi, id |-> ident, ord |-> ord, last |-> last]
           k == Len(sent[w]) + 1
           z == hi - p[w]
<1>1. p[w] \in Nat /\ base[w] \in Nat /\ n[w] \in Nat /\ length[w] \in Nat /\ sent[w] \in Seq(Sent)
  BY LogsAssumption DEF CopierOK
<1>2. r \in Sent
  BY <1>1 DEF Sent
<1>3. k \in 1..length[w] /\ z \in 0..BufSize
  <2>1. Len(sent[w]) \in Nat /\ BufSize \in Nat
    BY <1>1, LogsAssumption
  <2> QED
    BY <1>1, <2>1, SMTT(30) DEF CopierOK
<1>4. [src |-> w, no |-> k, size |-> z] \in Messages
  BY <1>3, LogsAssumption DEF CopierOK
<1>5. Log(w, [src |-> w, no |-> k, size |-> z]) /\ sent' = [sent EXCEPT ![w] = Append(@, r)]
  BY DEF Logs
<1> HIDE DEF r
<1>6. Append(sent[w], r) \in Seq(Sent) /\ Len(Append(sent[w], r)) = Len(sent[w]) + 1
  BY <1>1, <1>2, AppendFacts
<1>7. sent \in [Writers -> Seq(Sent)]
  BY DEF CopierOK
<1>8. sent'[w] = Append(sent[w], r) /\ \A v \in Writers \ {w} : sent'[v] = sent[v]
  BY <1>5, <1>7
<1>9. sent' \in [Writers -> Seq(Sent)]
  BY <1>5, <1>6, <1>7
<1> QED
  BY <1>4, <1>5, <1>6, <1>8, <1>9

\* A line, or a part of one, is a call of Log and keeps the copier's bounds.
LEMMA LineStep ==
  ASSUME CopierOK, NEW w \in Writers, Line(w) \/ Part(w)
  PROVE  CopierOK' /\ \E m \in Messages : Log(w, m)
<1>1. p[w] \in Nat /\ base[w] \in Nat /\ n[w] \in Nat /\ length[w] \in Nat
  BY LogsAssumption DEF CopierOK
<1>2. CASE Line(w)
  <2>1. PICK q \in Ends(w) :
             /\ Logs(w, q - 1, partialid[w], IF partialid[w] = 0 THEN 0 ELSE ordinal[w], TRUE)
             /\ p' = [p EXCEPT ![w] = q]
             /\ partialid' = [partialid EXCEPT ![w] = 0]
             /\ ordinal' = [ordinal EXCEPT ![w] = 0]
             /\ UNCHANGED <<length, base, n, ids>>
    BY <1>2 DEF Line, streams
  <2>2. q \in Nat /\ q - 1 \in Nat /\ p[w] <= q - 1 /\ q - 1 <= n[w] /\ q <= n[w] /\ p[w] < n[w]
    BY <1>1 DEF Ends
  <2>3. partialid[w] \in Nat /\ (IF partialid[w] = 0 THEN 0 ELSE ordinal[w]) \in Nat
    BY DEF CopierOK
  <2>4. /\ \E m \in Messages : Log(w, m)
        /\ sent' \in [Writers -> Seq(Sent)] /\ Len(sent'[w]) = Len(sent[w]) + 1
        /\ \A v \in Writers \ {w} : sent'[v] = sent[v]
    BY <2>1, <2>2, <2>3, LogsMessage
  <2>5. CopierOK'
    <3>1. /\ length' \in Lengths /\ base' \in [Writers -> Nat] /\ p' \in [Writers -> Nat] /\ n' \in [Writers -> Nat]
          /\ partialid' \in [Writers -> Nat] /\ ordinal' \in [Writers -> Nat] /\ ids' \in [Writers -> Nat]
      BY <2>1, <2>2 DEF CopierOK
    <3>2. Len(sent[w]) \in Nat /\ Len(sent[w]) <= p[w]
      BY DEF CopierOK
    <3>3. ASSUME NEW v \in Writers
          PROVE  /\ base'[v] <= p'[v] /\ p'[v] <= n'[v] /\ n'[v] <= length'[v]
                 /\ n'[v] - base'[v] <= BufSize /\ Len(sent'[v]) <= p'[v]
      <4>1. CASE v = w
        BY <1>1, <2>1, <2>2, <2>4, <3>2, <4>1 DEF CopierOK
      <4>2. CASE v # w
        BY <2>1, <2>4, <4>2 DEF CopierOK
      <4> QED
        BY <4>1, <4>2
    <3> QED
      BY <2>4, <3>1, <3>3 DEF CopierOK
  <2> QED
    BY <2>4, <2>5
<1>3. CASE Part(w)
  <2>1. PICK ident \in Nat, ord \in Nat :
             /\ Logs(w, n[w], ident, ord, FALSE)
             /\ partialid' = [partialid EXCEPT ![w] = ident]
             /\ ids' = [ids EXCEPT ![w] = IF partialid[w] = 0 THEN @ + 1 ELSE @]
             /\ ordinal' = [ordinal EXCEPT ![w] = ord + 1]
    <3>1. /\ (IF partialid[w] = 0 THEN ids[w] + 1 ELSE partialid[w]) \in Nat
          /\ (IF partialid[w] = 0 THEN 1 ELSE ordinal[w]) \in Nat
      BY DEF CopierOK
    <3> QED
      BY <1>3, <3>1 DEF Part
  <2>2. /\ p' = [p EXCEPT ![w] = n[w]] /\ base' = [base EXCEPT ![w] = n[w]]
        /\ UNCHANGED <<length, n>> /\ p[w] < n[w]
    BY <1>3 DEF Part, streams
  <2>3. /\ \E m \in Messages : Log(w, m)
        /\ sent' \in [Writers -> Seq(Sent)] /\ Len(sent'[w]) = Len(sent[w]) + 1
        /\ \A v \in Writers \ {w} : sent'[v] = sent[v]
    <3>1. p[w] <= n[w] /\ n[w] <= n[w] /\ n[w] \in Nat /\ FALSE \in BOOLEAN
      BY <1>1 DEF CopierOK
    <3> QED
      BY <2>1, <2>2, <3>1, LogsMessage, Zenon
  <2>4. CopierOK'
    <3>1. /\ length' \in Lengths /\ base' \in [Writers -> Nat] /\ p' \in [Writers -> Nat] /\ n' \in [Writers -> Nat]
          /\ partialid' \in [Writers -> Nat] /\ ordinal' \in [Writers -> Nat] /\ ids' \in [Writers -> Nat]
      BY <1>1, <2>1, <2>2, SMTT(30) DEF CopierOK
    <3>2. Len(sent[w]) \in Nat /\ Len(sent[w]) <= p[w] /\ BufSize \in Nat
      BY LogsAssumption DEF CopierOK
    <3>3. ASSUME NEW v \in Writers
          PROVE  /\ base'[v] <= p'[v] /\ p'[v] <= n'[v] /\ n'[v] <= length'[v]
                 /\ n'[v] - base'[v] <= BufSize /\ Len(sent'[v]) <= p'[v]
      <4>1. CASE v = w
        BY <1>1, <2>2, <2>3, <3>2, <4>1 DEF CopierOK
      <4>2. CASE v # w
        BY <2>2, <2>3, <4>2 DEF CopierOK
      <4> QED
        BY <4>1, <4>2
    <3> QED
      BY <2>3, <3>1, <3>3 DEF CopierOK
  <2> QED
    BY <2>3, <2>4
<1> QED
  BY <1>2, <1>3

\* The other steps, of which none logs.
LEMMA OtherStep ==
  ASSUME CopierOK, NEW w \in Writers,
         \/ \E k \in 1..ReadSize : Read(w, k)
         \/ ReadEOF(w) \/ ReadFails(w) \/ Move(w)
  PROVE  CopierOK' /\ UNCHANGED ringVars
<1>1. p[w] \in Nat /\ base[w] \in Nat /\ n[w] \in Nat /\ length[w] \in Nat
  BY LogsAssumption DEF CopierOK
<1>2. CASE \E k \in 1..ReadSize : Read(w, k)
  <2>1. PICK k \in 1..ReadSize : Read(w, k)
    BY <1>2
  <2>2. k \in Nat /\ n[w] + k - base[w] <= BufSize /\ n[w] + k <= length[w] /\ n' = [n EXCEPT ![w] = @ + k]
    BY <2>1, LogsAssumption DEF Read
  <2>3. UNCHANGED <<ringVars, length, base, p, partialid, ordinal, ids, sent>>
    BY <2>1 DEF Read, streams
  <2>4. n' \in [Writers -> Nat]
    BY <1>1, <2>2 DEF CopierOK
  <2>5. ASSUME NEW v \in Writers
        PROVE  p[v] <= n'[v] /\ n'[v] <= length[v] /\ n'[v] - base[v] <= BufSize
    <3>1. CASE v = w
      BY <1>1, <2>2, <3>1 DEF CopierOK
    <3>2. CASE v # w
      BY <2>2, <3>2 DEF CopierOK
    <3> QED
      BY <3>1, <3>2
  <2> QED
    BY <2>3, <2>4, <2>5 DEF CopierOK
<1>3. CASE ReadEOF(w) \/ ReadFails(w)
  BY <1>3 DEF ReadEOF, ReadFails, streams, CopierOK
<1>4. CASE Move(w)
  <2>1. base' = [base EXCEPT ![w] = p[w]] /\ UNCHANGED <<ringVars, length, p, n, partialid, ordinal, ids, sent>>
    BY <1>4 DEF Move, streams
  <2>2. base' \in [Writers -> Nat]
    BY <1>1, <2>1 DEF CopierOK
  <2>3. ASSUME NEW v \in Writers
        PROVE  base'[v] <= p[v] /\ n[v] - base'[v] <= BufSize
    <3>1. CASE v = w
      BY <1>1, <2>1, <3>1, LogsAssumption DEF CopierOK
    <3>2. CASE v # w
      BY <2>1, <3>2 DEF CopierOK
    <3> QED
      BY <3>1, <3>2
  <2> QED
    BY <2>1, <2>2, <2>3 DEF CopierOK
<1> QED
  BY <1>2, <1>3, <1>4

\* A step of the container's logs keeps the copiers' bounds, and is one of the ring, or none.
LEMMA StepIsRing == CopierOK /\ [Next]_vars => CopierOK' /\ [RingNext]_ringVars
<1> SUFFICES ASSUME CopierOK, [Next]_vars PROVE CopierOK' /\ [RingNext]_ringVars
  OBVIOUS
<1>1. CASE \E w \in Writers : \/ \E k \in 1..ReadSize : Read(w, k)
                              \/ ReadEOF(w) \/ ReadFails(w) \/ Move(w)
  BY <1>1, OtherStep, Zenon
<1>2. CASE \E w \in Writers : Line(w) \/ Part(w)
  BY <1>2, LineStep, Zenon DEF RingNext
<1>3. CASE (\E w \in Writers : EnqueueLine(w)) \/ Reset \/ Exits \/ TimesOut \/ Logger \/ UNCHANGED vars
  <2>1. UNCHANGED <<streams, copier>>
    BY <1>3, Zenon DEF EnqueueLine, Reset, Exits, TimesOut, Logger, vars
  <2>2. CopierOK'
    BY <2>1 DEF CopierOK, streams, copier
  <2>3. [RingNext]_ringVars
    BY <1>3, Zenon DEF EnqueueLine, Reset, Exits, TimesOut, Logger, vars, RingNext
  <2> QED
    BY <2>2, <2>3
<1> QED
  BY <1>1, <1>2, <1>3, Zenon DEF Next, CopierStep

(***************************************************************************)
(* The logger of a container, with its copiers and Reset, is a ring logger *)
(* as RingLogger describes it.                                             *)
(***************************************************************************)
THEOREM ImplementsRing == Init /\ [][Next]_vars => RingSpec
<1>1. Init => RingInit
  BY DEF Init
<1> QED
  BY <1>1, InitCopierOK, StepIsRing, PTL DEF RingSpec

(***************************************************************************)
(* For any streams of a container, however they are cut into messages and  *)
(* whenever Reset gives up waiting for the copiers: CloseSound, and the    *)
(* messages the ring accepted are conserved and in order.                  *)
(***************************************************************************)
THEOREM LogsCorrectness == Spec => [](CloseSound /\ Conserved /\ OrderKept)
  BY ImplementsRing, RingCorrectness, PTL DEF Spec
-----------------------------------------------------------------------------
\* The lines of every stream.
LEMMA LinesOfAll == LinesKept <=> \A w \in Writers : LinesOf(newline, w, sent[w], pc[w])
  BY DEF LinesKept, LinesOf

\* A message that follows those logged, and cuts the stream where the code cuts it, keeps the lines.
LEMMA LineAdded ==
  ASSUME NEW w, NEW s \in Seq(Sent), NEW r \in Sent, NEW st,
         NEW at \in Nat, NEW part \in Nat, NEW ord \in Nat, NEW top \in Nat,
         LinesOf(newline, w, s, "scan"), Goes(s, at, part, ord, top), r.lo = at,
         r.id = IF r.last \/ part # 0 THEN part ELSE top + 1,
         r.ord = IF part # 0 THEN ord ELSE IF r.last THEN 0 ELSE 1,
         \A q \in (r.lo + 1)..r.hi : <<w, q>> \notin newline,
         r.last => <<w, r.hi + 1>> \in newline,
         ~r.last => r.hi - r.lo = BufSize \/ (r.lo < r.hi /\ st = "ended")
  PROVE  LinesOf(newline, w, Append(s, r), st)
<1> DEFINE t == Append(s, r)
           k == Len(s)
<1>1. /\ k \in Nat /\ DOMAIN s = 1..k /\ DOMAIN t = 1..(k + 1) /\ Len(t) = k + 1
      /\ t[k + 1] = r /\ \A i \in 1..k : t[i] = s[i] /\ s[i] \in Sent
  BY AppendFacts
<1> HIDE DEF t, k
<1>2. ASSUME NEW i \in 1..k
      PROVE  /\ t[i].lo = IF i = 1 THEN 0 ELSE Cut(t[i - 1])
             /\ \A q \in (t[i].lo + 1)..t[i].hi : <<w, q>> \notin newline
             /\ t[i].last => <<w, t[i].hi + 1>> \in newline
             /\ ~t[i].last => t[i].hi - t[i].lo = BufSize
             /\ IF i > 1 /\ ~t[i - 1].last THEN t[i].id = t[i - 1].id /\ t[i].ord = t[i - 1].ord + 1
                ELSE \/ t[i].last /\ t[i].id = 0
                     \/ /\ ~t[i].last /\ t[i].ord = 1
                        /\ \A j \in 1..(i - 1) : t[j].id # t[i].id
  <2>1. /\ t[i] = s[i] /\ (i > 1 => i - 1 \in 1..k) /\ (i > 1 => t[i - 1] = s[i - 1])
        /\ i \in DOMAIN s /\ (i = 1 \/ i > 1)
    BY <1>1, <1>2
  <2>2. \A j \in 1..(i - 1) : t[j] = s[j]
    BY <1>1, <1>2
  <2>3. "scan" # "ended"
    OBVIOUS
  <2>4. /\ s[i].lo = IF i = 1 THEN 0 ELSE Cut(s[i - 1])
        /\ \A q \in (s[i].lo + 1)..s[i].hi : <<w, q>> \notin newline
        /\ s[i].last => <<w, s[i].hi + 1>> \in newline
        /\ ~s[i].last => s[i].hi - s[i].lo = BufSize
    BY <2>1, <2>3 DEF LinesOf
  <2>5. IF i > 1 /\ ~s[i - 1].last THEN s[i].id = s[i - 1].id /\ s[i].ord = s[i - 1].ord + 1
        ELSE \/ s[i].last /\ s[i].id = 0
             \/ ~s[i].last /\ s[i].ord = 1 /\ \A j \in 1..(i - 1) : s[j].id # s[i].id
    BY <2>1 DEF LinesOf
  <2>6. t[i].lo = IF i = 1 THEN 0 ELSE Cut(t[i - 1])
    BY <2>1, <2>4
  <2>7. IF i > 1 /\ ~t[i - 1].last THEN t[i].id = t[i - 1].id /\ t[i].ord = t[i - 1].ord + 1
        ELSE \/ t[i].last /\ t[i].id = 0
             \/ ~t[i].last /\ t[i].ord = 1 /\ \A j \in 1..(i - 1) : t[j].id # t[i].id
    BY <2>1, <2>2, <2>5
  <2> QED
    BY <2>1, <2>4, <2>6, <2>7
<1>3. /\ r.lo = IF k + 1 = 1 THEN 0 ELSE Cut(t[k + 1 - 1])
      /\ IF k + 1 > 1 /\ ~t[k + 1 - 1].last THEN r.id = t[k + 1 - 1].id /\ r.ord = t[k + 1 - 1].ord + 1
         ELSE \/ r.last /\ r.id = 0
              \/ /\ ~r.last /\ r.ord = 1
                 /\ \A j \in 1..k : t[j].id # r.id
  <2>1. CASE k = 0
    <3>1. part = 0 /\ at = 0
      BY <2>1 DEF Goes, k
    <3> QED
      BY <1>1, <2>1, <3>1
  <2>2. CASE k # 0
    <3>1. k \in 1..k /\ k + 1 - 1 = k /\ k + 1 > 1 /\ k + 1 # 1 /\ t[k] = s[k]
      BY <1>1, <2>2
    <3>2. /\ at = Cut(s[k]) /\ (part = 0 <=> s[k].last) /\ (part # 0 => part = s[k].id /\ ord = s[k].ord + 1)
      BY <2>2 DEF Goes, k
    <3>3. \A j \in 1..k : s[j].id <= top /\ s[j].id \in Nat /\ t[j] = s[j]
      BY <1>1 DEF Goes, Sent
    <3>4. r.lo = Cut(t[k])
      BY <3>1, <3>2
    <3>5. CASE part # 0
      BY <3>1, <3>2, <3>4, <3>5
    <3>6. CASE part = 0
      <4>1. s[k].last /\ (r.last => r.id = 0) /\ (~r.last => r.id = top + 1 /\ r.ord = 1)
        BY <3>2, <3>6
      <4>2. ~r.last => \A j \in 1..k : t[j].id # r.id
        BY <3>3, <4>1
      <4> QED
        BY <3>1, <3>4, <4>1, <4>2
    <3> QED
      BY <3>5, <3>6
  <2> QED
    BY <2>1, <2>2
<1>4. ASSUME NEW i \in DOMAIN t
      PROVE  /\ t[i].lo = IF i = 1 THEN 0 ELSE Cut(t[i - 1])
             /\ \A q \in (t[i].lo + 1)..t[i].hi : <<w, q>> \notin newline
             /\ t[i].last => <<w, t[i].hi + 1>> \in newline
             /\ ~t[i].last => t[i].hi - t[i].lo = BufSize \/ (t[i].lo < t[i].hi /\ i = Len(t) /\ st = "ended")
             /\ IF i > 1 /\ ~t[i - 1].last THEN t[i].id = t[i - 1].id /\ t[i].ord = t[i - 1].ord + 1
                ELSE \/ t[i].last /\ t[i].id = 0
                     \/ /\ ~t[i].last /\ t[i].ord = 1
                        /\ \A j \in 1..(i - 1) : t[j].id # t[i].id
  <2>1. CASE i \in 1..k
    BY <1>2, <2>1
  <2>2. CASE i = k + 1
    <3>1. k + 1 - 1 = k
      BY <1>1
    <3> QED
      BY <1>1, <1>3, <2>2, <3>1
  <2> QED
    BY <1>1, <2>1, <2>2
<1> QED
  BY <1>4 DEF LinesOf, t

\* A step of the copier of w that logs r, and how its stream goes on.
Sends(w, r) ==
    /\ pc[w] = "scan"
    /\ sent' = [sent EXCEPT ![w] = Append(@, r)]
    /\ \A v \in Writers \ {w} : /\ p'[v] = p[v] /\ partialid'[v] = partialid[v] /\ ordinal'[v] = ordinal[v]
                                /\ ids'[v] = ids[v] /\ pc'[v] = pc[v] /\ base'[v] = base[v]
    /\ newline' = newline /\ n' = n /\ eof' = eof
    /\ r.lo = p[w]
    /\ r.id = IF r.last \/ partialid[w] # 0 THEN partialid[w] ELSE ids[w] + 1
    /\ r.ord = IF partialid[w] # 0 THEN ordinal[w] ELSE IF r.last THEN 0 ELSE 1
    /\ \A q \in (r.lo + 1)..r.hi : <<w, q>> \notin newline
    /\ r.last => <<w, r.hi + 1>> \in newline
    /\ ~r.last => r.hi - r.lo = BufSize \/ (r.lo < r.hi /\ pc'[w] = "ended")
    /\ p'[w] = Cut(r) /\ partialid'[w] = (IF r.last THEN 0 ELSE r.id) /\ (~r.last => ordinal'[w] = r.ord + 1)
    /\ ids'[w] = IF r.last \/ partialid[w] # 0 THEN ids[w] ELSE ids[w] + 1
    /\ pc'[w] = "read" => p'[w] = base'[w] /\ n[w] - base'[w] < BufSize /\ ~eof[w]
    /\ pc'[w] = "ended" /\ eof[w] => p'[w] = n[w]

\* The copier goes on after that message.
LEMMA GoesOn ==
  ASSUME CopierOK, StreamOK, NEW w \in Writers, NEW r \in Sent, Sends(w, r)
  PROVE  Goes(sent'[w], p'[w], partialid'[w], ordinal'[w], ids'[w])
<1> DEFINE s == sent[w]
           t == sent'[w]
           k == Len(s)
<1>1. /\ s \in Seq(Sent) /\ t = Append(s, r) /\ partialid[w] \in Nat /\ ids[w] \in Nat /\ ordinal[w] \in Nat
  BY DEF CopierOK, Sends
<1>2. /\ k \in Nat /\ DOMAIN s = 1..k /\ DOMAIN t = 1..(k + 1) /\ Len(t) = k + 1 /\ k + 1 # 0
      /\ t[k + 1] = r /\ \A i \in 1..k : t[i] = s[i] /\ s[i] \in Sent
  BY <1>1, AppendFacts
<1>3. Goes(s, p[w], partialid[w], ordinal[w], ids[w])
  BY DEF StreamOK
<1> HIDE DEF s, t, k
<1>4. partialid[w] <= ids[w]
  <2>1. CASE partialid[w] = 0
    BY <1>1, <2>1
  <2>2. CASE partialid[w] # 0
    <3>1. k # 0 /\ partialid[w] = s[k].id
      BY <1>3, <2>2 DEF Goes, k
    <3>2. k \in DOMAIN s
      BY <1>2, <3>1
    <3> QED
      BY <1>3, <3>1, <3>2 DEF Goes
  <2> QED
    BY <2>1, <2>2
<1>5. /\ p'[w] = Cut(r) /\ partialid'[w] = (IF r.last THEN 0 ELSE r.id)
      /\ ~r.last => ordinal'[w] = r.ord + 1
      /\ ids'[w] = IF r.last \/ partialid[w] # 0 THEN ids[w] ELSE ids[w] + 1
      /\ r.id = IF r.last \/ partialid[w] # 0 THEN partialid[w] ELSE ids[w] + 1
  BY DEF Sends
<1>6. ids[w] <= ids'[w] /\ r.id <= ids'[w] /\ ids'[w] \in Nat
  BY <1>1, <1>4, <1>5
<1>7. \A j \in DOMAIN t : t[j].id <= ids'[w]
  <2>1. \A j \in 1..k : s[j].id <= ids[w] /\ s[j].id \in Nat /\ t[j].id = s[j].id
    BY <1>2, <1>3 DEF Goes, Sent
  <2>2. ASSUME NEW j \in 1..k PROVE t[j].id <= ids'[w]
    <3>1. s[j].id <= ids[w] /\ s[j].id \in Nat /\ t[j].id = s[j].id
      BY <2>1
    <3>2. s[j].id <= ids'[w]
      BY <1>1, <1>6, <3>1
    <3> QED
      BY <3>1, <3>2
  <2> QED
    BY <1>2, <1>6, <2>2
<1>8. partialid'[w] = 0 <=> r.last
  BY <1>1, <1>5
<1> QED
  BY <1>2, <1>5, <1>7, <1>8 DEF Goes, t

\* Such a step keeps the lines.
LEMMA StreamGrows ==
  ASSUME CopierOK, StreamOK, LinesKept, NEW w \in Writers, NEW r \in Sent, Sends(w, r)
  PROVE  StreamOK' /\ LinesKept'
<1>1. /\ sent[w] \in Seq(Sent) /\ p[w] \in Nat /\ partialid[w] \in Nat /\ ordinal[w] \in Nat /\ ids[w] \in Nat
      /\ sent'[w] = Append(sent[w], r) /\ \A v \in Writers \ {w} : sent'[v] = sent[v]
  BY DEF CopierOK, Sends
<1>2. Goes(sent[w], p[w], partialid[w], ordinal[w], ids[w]) /\ LinesOf(newline, w, sent[w], "scan")
  BY LinesOfAll DEF StreamOK, Sends
<1>3. Goes(sent'[w], p'[w], partialid'[w], ordinal'[w], ids'[w])
  BY GoesOn
<1>4. LinesOf(newline, w, sent[w], pc[w])'
  <2>1. LinesOf(newline, w, Append(sent[w], r), pc'[w])
    BY <1>1, <1>2, LineAdded DEF Sends
  <2> QED
    BY <1>1, <2>1 DEF Sends
<1>5. ASSUME NEW v \in Writers, v # w
      PROVE  /\ Goes(sent'[v], p'[v], partialid'[v], ordinal'[v], ids'[v])
             /\ pc'[v] = "read" => p'[v] = base'[v] /\ n'[v] - base'[v] < BufSize /\ ~eof'[v]
             /\ pc'[v] = "ended" /\ eof'[v] => p'[v] = n'[v]
             /\ LinesOf(newline, v, sent[v], pc[v])'
  <2>1. /\ p'[v] = p[v] /\ partialid'[v] = partialid[v] /\ ordinal'[v] = ordinal[v] /\ newline' = newline
        /\ ids'[v] = ids[v] /\ pc'[v] = pc[v] /\ base'[v] = base[v] /\ n' = n /\ eof' = eof /\ sent'[v] = sent[v]
    BY <1>1, <1>5 DEF Sends
  <2>2. LinesOf(newline, v, sent[v], pc[v])'
    BY <2>1, LinesOfAll
  <2> QED
    BY <2>1, <2>2 DEF StreamOK
<1>6. StreamOK'
  <2> SUFFICES ASSUME NEW v \in Writers
               PROVE  /\ Goes(sent'[v], p'[v], partialid'[v], ordinal'[v], ids'[v])
                      /\ pc'[v] = "read" => p'[v] = base'[v] /\ n'[v] - base'[v] < BufSize /\ ~eof'[v]
                      /\ pc'[v] = "ended" /\ eof'[v] => p'[v] = n'[v]
    BY DEF StreamOK
  <2>1. CASE v = w
    BY <1>3, <2>1 DEF Sends
  <2>2. CASE v # w
    BY <1>5, <2>2
  <2> QED
    BY <2>1, <2>2
<1>7. LinesKept'
  <2>1. \A v \in Writers : LinesOf(newline, v, sent[v], pc[v])'
    BY <1>4, <1>5
  <2> QED
    BY <2>1 DEF LinesKept, LinesOf
<1> QED
  BY <1>6, <1>7

\* A copier logs a line, or a part of one.
LEMMA LogsStep ==
  ASSUME CopierOK, StreamOK, LinesKept, ResetOK, NEW w \in Writers, Line(w) \/ Part(w)
  PROVE  StreamOK' /\ LinesKept'
<1>1. /\ p[w] \in Nat /\ base[w] \in Nat /\ n[w] \in Nat /\ partialid[w] \in Nat /\ ordinal[w] \in Nat
      /\ ids[w] \in Nat /\ BufSize \in Nat \ {0} /\ p[w] <= n[w]
  BY LogsAssumption DEF CopierOK
<1>2. CASE Line(w)
  <2>1. PICK q \in Ends(w) :
             /\ pc[w] = "scan" /\ \A r \in Ends(w) : q <= r
             /\ Logs(w, q - 1, partialid[w], IF partialid[w] = 0 THEN 0 ELSE ordinal[w], TRUE)
             /\ p' = [p EXCEPT ![w] = q]
             /\ partialid' = [partialid EXCEPT ![w] = 0]
             /\ ordinal' = [ordinal EXCEPT ![w] = 0]
             /\ UNCHANGED <<streams, pc, base, n, eof, ids>>
    BY <1>2 DEF Line
  <2>2. q \in Nat /\ q - 1 \in Nat /\ p[w] <= q - 1 /\ q <= n[w] /\ <<w, q>> \in newline
    BY <1>1 DEF Ends
  <2> DEFINE o == IF partialid[w] = 0 THEN 0 ELSE ordinal[w]
             r == [lo |-> p[w], hi |-> q - 1, id |-> partialid[w], ord |-> o, last |-> TRUE]
  <2>3. r \in Sent
    BY <1>1, <2>2 DEF Sent
  <2>4. sent' = [sent EXCEPT ![w] = Append(@, r)]
    BY <2>1 DEF Logs
  <2>5. /\ r.lo = p[w] /\ r.hi = q - 1 /\ r.id = partialid[w] /\ r.last = TRUE
        /\ r.ord = IF partialid[w] # 0 THEN ordinal[w] ELSE 0
    OBVIOUS
  <2>6. Cut(r) = q /\ r.hi + 1 = q
    BY <2>2 DEF Cut
  <2>7. \A x \in (p[w] + 1)..(q - 1) : <<w, x>> \notin newline
    <3> SUFFICES ASSUME NEW x \in (p[w] + 1)..(q - 1), <<w, x>> \in newline PROVE FALSE
      OBVIOUS
    <3>1. x \in Ends(w) /\ ~(q <= x)
      BY <1>1, <2>2 DEF Ends
    <3> QED
      BY <2>1, <3>1
  <2> HIDE DEF r
  <2>8. /\ p'[w] = q /\ partialid'[w] = 0 /\ ids'[w] = ids[w] /\ pc'[w] = "scan"
        /\ \A v \in Writers \ {w} : /\ p'[v] = p[v] /\ partialid'[v] = partialid[v] /\ ordinal'[v] = ordinal[v]
                                    /\ ids'[v] = ids[v] /\ pc'[v] = pc[v] /\ base'[v] = base[v]
        /\ newline' = newline /\ n' = n /\ eof' = eof
    BY <2>1 DEF CopierOK, streams
  <2> QED
    <3>1. Sends(w, r)
      BY <2>1, <2>2, <2>4, <2>5, <2>6, <2>7, <2>8 DEF Sends
    <3> QED
      BY <2>3, <3>1, StreamGrows
<1>3. CASE Part(w)
  <2> DEFINE i == IF partialid[w] = 0 THEN ids[w] + 1 ELSE partialid[w]
             o == IF partialid[w] = 0 THEN 1 ELSE ordinal[w]
             r == [lo |-> p[w], hi |-> n[w], id |-> i, ord |-> o, last |-> FALSE]
  <2>1. /\ pc[w] = "scan" /\ Ends(w) = {} /\ p[w] < n[w] /\ (eof[w] \/ Full(w))
        /\ sent' = [sent EXCEPT ![w] = Append(@, r)]
        /\ partialid' = [partialid EXCEPT ![w] = i]
        /\ ids' = [ids EXCEPT ![w] = IF partialid[w] = 0 THEN @ + 1 ELSE @]
        /\ ordinal' = [ordinal EXCEPT ![w] = o + 1]
        /\ p' = [p EXCEPT ![w] = n[w]] /\ base' = [base EXCEPT ![w] = n[w]]
        /\ pc' = [pc EXCEPT ![w] = IF eof[w] THEN "ended" ELSE "read"]
        /\ UNCHANGED <<streams, n, eof>>
    BY <1>3 DEF Part, Logs
  <2>2. i \in Nat /\ o \in Nat /\ i # 0
    BY <1>1
  <2>3. r \in Sent
    BY <1>1, <2>2 DEF Sent
  <2>4. /\ r.lo = p[w] /\ r.hi = n[w] /\ r.last = FALSE
        /\ r.id = (IF partialid[w] # 0 THEN partialid[w] ELSE ids[w] + 1)
        /\ r.ord = IF partialid[w] # 0 THEN ordinal[w] ELSE 1
        /\ r.id = i /\ r.ord = o
    OBVIOUS
  <2>5. Cut(r) = n[w]
    BY <2>4 DEF Cut
  <2>6. \A x \in (p[w] + 1)..n[w] : <<w, x>> \notin newline
    BY <2>1 DEF Ends
  <2> HIDE DEF r, i, o
  <2>7. /\ p'[w] = n[w] /\ base'[w] = n[w] /\ partialid'[w] = i /\ ordinal'[w] = o + 1
        /\ ids'[w] = (IF partialid[w] # 0 THEN ids[w] ELSE ids[w] + 1)
        /\ pc'[w] = (IF eof[w] THEN "ended" ELSE "read")
        /\ \A v \in Writers \ {w} : /\ p'[v] = p[v] /\ partialid'[v] = partialid[v] /\ ordinal'[v] = ordinal[v]
                                    /\ ids'[v] = ids[v] /\ pc'[v] = pc[v] /\ base'[v] = base[v]
        /\ newline' = newline /\ n' = n /\ eof' = eof
    BY <2>1 DEF CopierOK, streams, ResetOK
  <2>8. r.hi - r.lo = BufSize \/ (r.lo < r.hi /\ pc'[w] = "ended")
    BY <1>1, <2>1, <2>4, <2>7 DEF Full
  <2>9. pc'[w] = "read" => p'[w] = base'[w] /\ n[w] - base'[w] < BufSize /\ ~eof[w]
    <3>1. n[w] - n[w] < BufSize
      BY <1>1
    <3> QED
      BY <2>7, <3>1
  <2> QED
    <3>1. Sends(w, r)
      BY <2>1, <2>4, <2>5, <2>6, <2>7, <2>8, <2>9 DEF Sends
    <3> QED
      BY <2>3, <3>1, StreamGrows
<1> QED
  BY <1>2, <1>3

\* The steps of a copier that do not log.
LEMMA QuietCopier ==
  ASSUME CopierOK, StreamOK, LinesKept, ResetOK, NEW w \in Writers,
         \/ \E k \in 1..ReadSize : Read(w, k)
         \/ ReadEOF(w) \/ ReadFails(w) \/ Move(w)
  PROVE  StreamOK' /\ LinesKept'
<1>1. /\ p[w] \in Nat /\ base[w] \in Nat /\ n[w] \in Nat /\ BufSize \in Nat \ {0}
      /\ base[w] <= p[w] /\ p[w] <= n[w] /\ n[w] - base[w] <= BufSize
  BY LogsAssumption DEF CopierOK
<1>2. /\ UNCHANGED <<newline, p, partialid, ordinal, ids, sent>> /\ pc[w] # "ended"
      /\ \A v \in Writers \ {w} : pc'[v] = pc[v] /\ eof'[v] = eof[v] /\ n'[v] = n[v] /\ base'[v] = base[v]
  BY DEF Read, ReadEOF, ReadFails, Move, streams, CopierOK, ResetOK
<1>3. /\ pc'[w] = "read" => p[w] = base'[w] /\ n'[w] - base'[w] < BufSize /\ ~eof'[w]
      /\ pc'[w] = "ended" /\ eof'[w] => p[w] = n'[w]
  <2>1. CASE \E k \in 1..ReadSize : Read(w, k)
    <3>1. pc'[w] = "scan"
      BY <2>1 DEF Read, ResetOK
    <3> QED
      BY <3>1
  <2>2. CASE ReadEOF(w)
    <3>1. /\ pc[w] = "read" /\ n' = n /\ base' = base
          /\ pc'[w] = IF n[w] = base[w] THEN "ended" ELSE "scan"
      BY <2>2 DEF ReadEOF, ResetOK
    <3> QED
      BY <3>1 DEF StreamOK
  <2>3. CASE ReadFails(w)
    <3>1. pc[w] = "read" /\ pc'[w] = "ended" /\ eof' = eof
      BY <2>3 DEF ReadFails, ResetOK
    <3> QED
      BY <3>1 DEF StreamOK
  <2>4. CASE Move(w)
    <3>1. /\ p[w] = n[w] \/ ~(eof[w] \/ Full(w))
          /\ n' = n /\ eof' = eof /\ base'[w] = p[w]
          /\ pc'[w] = IF eof[w] THEN "ended" ELSE "read"
      BY <2>4 DEF Move, ResetOK, CopierOK
    <3>2. p[w] = n[w] \/ ~Full(w) => n[w] - p[w] < BufSize
      BY <1>1 DEF Full
    <3> QED
      BY <3>1, <3>2
  <2> QED
    BY <2>1, <2>2, <2>3, <2>4
<1>4. StreamOK'
  <2> SUFFICES ASSUME NEW v \in Writers
               PROVE  /\ Goes(sent'[v], p'[v], partialid'[v], ordinal'[v], ids'[v])
                      /\ pc'[v] = "read" => p'[v] = base'[v] /\ n'[v] - base'[v] < BufSize /\ ~eof'[v]
                      /\ pc'[v] = "ended" /\ eof'[v] => p'[v] = n'[v]
    BY DEF StreamOK
  <2>1. Goes(sent'[v], p'[v], partialid'[v], ordinal'[v], ids'[v])
    BY <1>2 DEF StreamOK
  <2>2. CASE v = w
    BY <1>2, <1>3, <2>1, <2>2
  <2>3. CASE v # w
    BY <1>2, <2>1, <2>3 DEF StreamOK
  <2> QED
    BY <2>2, <2>3
<1>5. LinesKept'
  <2>1. ASSUME NEW v \in Writers PROVE LinesOf(newline', v, sent'[v], pc'[v])
    <3>1. LinesOf(newline, v, sent[v], pc[v]) /\ newline' = newline /\ sent' = sent
      BY <1>2, LinesOfAll
    <3>2. pc'[v] = pc[v] \/ pc[v] # "ended"
      BY <1>2
    <3> QED
      BY <3>1, <3>2 DEF LinesOf
  <2> QED
    BY <2>1 DEF LinesKept, LinesOf
<1> QED
  BY <1>4, <1>5

\* A message is refused, or the copiers go on, only while Reset has not closed the logger behind them.
LEMMA ResetStep ==
  ASSUME RingIInv, CopierOK, ResetOK, [Next]_vars
  PROVE  ResetOK'
<1>1. Stages /\ Types
  BY DEF RingIInv
<1>2. /\ newline' \subseteq Positions' /\ pc' \in [Writers -> {"read", "scan", "ended"}]
      /\ eof' \in [Writers -> BOOLEAN] /\ resetting' \in BOOLEAN /\ timedOut' \in BOOLEAN
  <2>1. UNCHANGED streams
    BY Zenon DEF Next, CopierStep, Read, ReadEOF, ReadFails, Line, Part, Move, EnqueueLine,
          Reset, Exits, TimesOut, Logger, vars
  <2>2. newline' \subseteq Positions'
    BY <2>1 DEF streams, Positions, ResetOK
  <2>3. /\ pc' \in [Writers -> {"read", "scan", "ended"}] /\ eof' \in [Writers -> BOOLEAN]
    BY DEF Next, CopierStep, Read, ReadEOF, ReadFails, Line, Part, Move, EnqueueLine, Reset,
          Exits, TimesOut, Logger, vars, copier, ResetOK
  <2>4. resetting' \in BOOLEAN /\ timedOut' \in BOOLEAN
    BY Zenon DEF Next, CopierStep, Read, ReadEOF, ReadFails, Line, Part, Move, EnqueueLine,
          Reset, Exits, TimesOut, Logger, vars, ResetOK
  <2> QED
    BY <2>2, <2>3, <2>4
<1>3. (closer' # "open" => timedOut' \/ Copied') /\ (refused' # {} => timedOut')
  <2>1. CASE \E w \in Writers : \/ \E k \in 1..ReadSize : Read(w, k)
                                \/ ReadEOF(w) \/ ReadFails(w) \/ Move(w)
    <3>1. ~Copied /\ closer' = closer /\ refused' = refused /\ timedOut' = timedOut
      BY <2>1 DEF Read, ReadEOF, ReadFails, Move, Copied, ringVars, closing
    <3> QED
      BY <3>1 DEF ResetOK
  <2>2. CASE \E w \in Writers : Line(w) \/ Part(w)
    <3>1. ~Copied /\ timedOut' = timedOut /\ \E w \in Writers : \E m : Log(w, m)
      BY <2>2, Zenon DEF Line, Part, Logs, Copied
    <3>2. closer' = closer /\ (~closeFlag => refused' = refused)
      BY <3>1, Zenon DEF Log, closing
    <3> QED
      BY <1>1, <3>1, <3>2 DEF ResetOK, Stages
  <2>3. CASE \E w \in Writers : EnqueueLine(w)
    <3>1. ~Copied /\ timedOut' = timedOut /\ closer' = closer /\ (~closed => refused' = refused)
      BY <2>3 DEF EnqueueLine, Enqueue, Copied, closing
    <3> QED
      BY <1>1, <3>1 DEF ResetOK, Stages
  <2>4. CASE Reset \/ UNCHANGED vars
    <3>1. closer' = closer /\ refused' = refused /\ timedOut' = timedOut /\ pc' = pc /\ calling' = calling
      BY <2>4 DEF Reset, vars, ringVars, closing, copier
    <3> QED
      BY <3>1 DEF ResetOK, Copied
  <2>5. CASE Exits
    <3>1. Copied /\ refused' = refused /\ timedOut' = timedOut /\ pc' = pc /\ calling' = calling
      BY <2>5 DEF Exits, SetClosed, copier
    <3> QED
      BY <3>1 DEF ResetOK, Copied
  <2>6. CASE TimesOut
    BY <2>6 DEF TimesOut
  <2>7. CASE Logger
    <3>1. refused' = refused /\ timedOut' = timedOut /\ pc' = pc /\ calling' = calling
      BY <2>7 DEF Logger, RunStep, CloseStep, RunLoops, Dequeue, DequeueWaits, DequeueClosed,
            RunLogs,
                  CloseRing, Drain, LogsRest, CloseDriver, copier
    <3>2. closer = "open" => closer' = "open"
      BY <2>7 DEF Logger, RunStep, CloseStep, RunLoops, Dequeue, DequeueWaits, DequeueClosed,
            RunLogs,
                  CloseRing, Drain, LogsRest, CloseDriver, closing
    <3> QED
      BY <3>1, <3>2 DEF ResetOK, Copied
  <2> QED
    BY <2>1, <2>2, <2>3, <2>4, <2>5, <2>6, <2>7, Zenon DEF Next, CopierStep
<1> QED
  BY <1>2, <1>3 DEF ResetOK

\* The streams of the copiers, in any step.
LEMMA StreamStep ==
  ASSUME CopierOK, StreamOK, LinesKept, ResetOK, [Next]_vars
  PROVE  StreamOK' /\ LinesKept'
<1>1. CASE \E w \in Writers : \/ \E k \in 1..ReadSize : Read(w, k)
                              \/ ReadEOF(w) \/ ReadFails(w) \/ Move(w)
  BY <1>1, QuietCopier, Zenon
<1>2. CASE \E w \in Writers : Line(w) \/ Part(w)
  BY <1>2, LogsStep, Zenon
<1>3. CASE (\E w \in Writers : EnqueueLine(w)) \/ Reset \/ Exits \/ TimesOut \/ Logger \/ UNCHANGED vars
  <2>1. UNCHANGED <<streams, copier>>
    BY <1>3, Zenon DEF EnqueueLine, Reset, Exits, TimesOut, Logger, vars
  <2>2. StreamOK'
    BY <2>1 DEF StreamOK, streams, copier
  <2>3. LinesKept'
    BY <2>1 DEF LinesKept, streams, copier
  <2> QED
    BY <2>2, <2>3
<1> QED
  BY <1>1, <1>2, <1>3, Zenon DEF Next, CopierStep

\* Initially nothing has been logged.
LEMMA InitStreams == Init => StreamOK /\ LinesKept /\ ResetOK
<1> SUFFICES ASSUME Init PROVE StreamOK /\ LinesKept /\ ResetOK
  OBVIOUS
<1>1. \A w \in Writers : sent[w] = <<>> /\ Len(sent[w]) = 0 /\ DOMAIN sent[w] = {}
  BY EmptyFacts DEF Init
<1>2. StreamOK
  <2> SUFFICES ASSUME NEW w \in Writers
               PROVE  /\ Goes(sent[w], p[w], partialid[w], ordinal[w], ids[w])
                      /\ pc[w] = "read" => p[w] = base[w] /\ n[w] - base[w] < BufSize /\ ~eof[w]
                      /\ pc[w] = "ended" /\ eof[w] => p[w] = n[w]
    BY DEF StreamOK
  <2>1. p[w] = 0 /\ n[w] = 0 /\ base[w] = 0 /\ partialid[w] = 0 /\ ~eof[w] /\ 0 < BufSize
    BY LogsAssumption DEF Init
  <2>2. Goes(sent[w], p[w], partialid[w], ordinal[w], ids[w])
    BY <1>1, <2>1 DEF Goes
  <2> QED
    BY <2>1, <2>2
<1>3. LinesKept
  BY <1>1, Zenon DEF LinesKept
<1>4. ResetOK
  BY DEF ResetOK, Init, RingInit
<1> QED
  BY <1>2, <1>3, <1>4

(***************************************************************************)
(* The invariant of the copiers and the ring they log to.                  *)
(***************************************************************************)
THEOREM LogsInvariance == Spec => []IInv
<1>1. Init => RingIInv /\ SizeOK /\ CopierOK /\ StreamOK /\ LinesKept /\ ResetOK
  BY InitRingIInv, InitSizeOK, InitCopierOK, InitStreams DEF Init
<1>2. CopierOK /\ StreamOK /\ LinesKept /\ ResetOK /\ RingIInv /\ [Next]_vars
      => CopierOK' /\ StreamOK' /\ LinesKept' /\ ResetOK'
  BY StepIsRing, StreamStep, ResetStep
<1> QED
  BY <1>1, <1>2, ImplementsRing, RingInvariance, StepIsRing, SizeStep, PTL DEF Spec, IInv

(***************************************************************************)
(* For any streams, newlines, sizes of the buffer and of the reads, and    *)
(* however the copiers, the ring and Reset interleave: the messages logged *)
(* are the lines of the stream, their parts joined by identifier and       *)
(* ordinal; nothing read stays in the buffer of a stream that has ended;   *)
(* and a message is refused only after Reset gave up waiting (LogComplete).*)
(***************************************************************************)
THEOREM LinesLogged == Spec => []LogComplete
<1>1. IInv => LogComplete
  <2> SUFFICES ASSUME IInv PROVE LogComplete
    OBVIOUS
  <2>1. RingIInv /\ SizeOK /\ CopierOK /\ StreamOK /\ LinesKept /\ ResetOK
    BY DEF IInv
  <2>2. RingTypeOK
    <3>1. late \subseteq Numbers
      BY <2>1, NumbersOnly DEF SizeOK
    <3> QED
      BY <2>1, <3>1, NumbersOnly, Zenon DEF RingTypeOK, RingIInv, Types, SizeOK
  <2>3. TypeOK
    <3>1. \A w \in Writers : 0 <= base[w] /\ base[w] <= p[w] /\ p[w] <= n[w] /\ n[w] <= length[w]
      BY <2>1 DEF CopierOK
    <3> QED
      BY <2>1, <2>2, <3>1 DEF TypeOK, CopierOK, ResetOK, Sent
  <2>4. NothingKept
    <3>1. \A w \in Writers : sent[w] = <<>> <=> Len(sent[w]) = 0
      BY <2>1 DEF CopierOK
    <3> QED
      BY <2>1, <3>1 DEF NothingKept, StreamOK, Goes
  <2>5. TruncatedOnlyLate
    BY <2>1 DEF TruncatedOnlyLate, ResetOK
  <2> QED
    BY <2>1, <2>3, <2>4, <2>5 DEF LogComplete
<1> QED
  BY <1>1, LogsInvariance, PTL

(***************************************************************************)
(* The ring of a container's logger loses, doubles and reorders nothing of *)
(* what it accepts, and its count of bytes is right (RingSound).           *)
(***************************************************************************)
THEOREM LogsRingIsSound == Spec => []RingSound
  BY ImplementsRing, RingIsSound, PTL DEF Spec
=============================================================================
