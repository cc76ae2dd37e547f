------------------------- MODULE EventStreamProofs -------------------------
(***************************************************************************)
(* The event queue is a queue, for any set of ids and of handlers.  The    *)
(* argument: the channel a handler waits for is that of the last handler   *)
(* appended before it under its id; if there was none, all of those had    *)
(* returned, because the map forgets only the channel of the last one.     *)
(*                                                                         *)
(* The handlers of the event stream, which store and send their events     *)
(* before they return, still use the event queue as EventQueue describes   *)
(* it, whatever the clients do.  So, while an event is not yet sent, its   *)
(* handler runs, and no later handler of the container has logged one: the *)
(* order of the queue becomes the order that clients see.  A client that   *)
(* loads the past holds Events.mu, so that nothing is stored between what  *)
(* it is given and its place among the subscribers.                        *)
(***************************************************************************)
EXTENDS EventStream, TLAPS, WellFoundedInduction

Appended(h) == pc[h] # "new"

\* No two handlers have the same rank.
RanksOK ==
    /\ \A h \in Handlers : Appended(h) => rank[h] < appended
    /\ \A g, h \in Handlers : Appended(g) /\ Appended(h) /\ rank[g] = rank[h] => g = h

\* The map has the last handler of an id, or all of them have returned.
LastOK ==
    \A d \in Ids :
        /\ fns[d] = None =>
              \A g \in Handlers : Appended(g) /\ id[g] = d => Returned(g)
        /\ fns[d] # None =>
              /\ Appended(fns[d]) /\ id[fns[d]] = d
              /\ \A g \in Handlers : Appended(g) /\ id[g] = d => rank[g] <= rank[fns[d]]

\* A handler waits for the one before it, or all before it have returned.
WaitsOK ==
    \A h \in Handlers : Appended(h) =>
        /\ fn[h] = None =>
              \A g \in Handlers :
                 Appended(g) /\ id[g] = id[h] /\ rank[g] < rank[h] => Returned(g)
        /\ fn[h] # None =>
              /\ Appended(fn[h]) /\ id[fn[h]] = id[h] /\ rank[fn[h]] < rank[h]
              /\ \A g \in Handlers :
                    Appended(g) /\ id[g] = id[h] /\ rank[g] < rank[h] => rank[g] <= rank[fn[h]]

QueueIInv == QueueTypeOK /\ RanksOK /\ LastOK /\ WaitsOK /\ InOrder /\ NoLeak

\* Initially nothing was appended.
LEMMA InitQueueIInv == QueueInit => QueueIInv
  BY QueueAssumption
  DEF QueueInit, QueueIInv, QueueTypeOK, RanksOK, LastOK, WaitsOK, InOrder, NoLeak, Appended, Returned

\* Append makes its handler the last one of its id.
LEMMA AppendStep ==
  ASSUME QueueIInv, NEW h \in Handlers, NEW d \in Ids, AppendHandler(h, d)
  PROVE  QueueIInv'
<1> USE QueueAssumption DEF AppendHandler, QueueIInv, Appended, Returned
<1>1. QueueTypeOK'
  BY DEF QueueTypeOK
<1>2. RanksOK'
  BY DEF QueueTypeOK, RanksOK
<1>3. LastOK'
  BY DEF QueueTypeOK, RanksOK, LastOK
<1>4. WaitsOK'
  BY DEF QueueTypeOK, RanksOK, LastOK, WaitsOK
<1>5. InOrder'
  BY DEF QueueTypeOK, RanksOK, InOrder
<1>6. NoLeak'
  BY DEF QueueTypeOK, NoLeak
<1> QED
  BY <1>1, <1>2, <1>3, <1>4, <1>5, <1>6

\* A handler runs when the one before it, and so every earlier one, has returned.
LEMMA RunStep ==
  ASSUME QueueIInv, NEW h \in Handlers, Run(h)
  PROVE  QueueIInv'
<1> USE QueueAssumption DEF Run, QueueIInv, Appended, Returned
<1>1. QueueTypeOK' /\ RanksOK' /\ LastOK' /\ WaitsOK' /\ NoLeak'
  BY DEF QueueTypeOK, RanksOK, LastOK, WaitsOK, NoLeak
<1>2. \A g \in Handlers : Appended(g) /\ id[g] = id[h] /\ rank[g] < rank[h] => Returned(g)
  <2> SUFFICES ASSUME NEW g \in Handlers, Appended(g), id[g] = id[h], rank[g] < rank[h]
               PROVE  Returned(g)
    OBVIOUS
  <2>1. CASE fn[h] = None
    BY <2>1 DEF WaitsOK
  <2>2. CASE fn[h] # None
    <3>1. fn[h] \in Handlers /\ Returned(fn[h]) /\ id[fn[h]] = id[h] /\ rank[g] <= rank[fn[h]]
      BY <2>2 DEF WaitsOK, QueueTypeOK
    <3>2. CASE g = fn[h]
      BY <3>1, <3>2
    <3>3. CASE g # fn[h]
      <4>1. rank[g] < rank[fn[h]]
        BY <3>1, <3>3 DEF RanksOK, QueueTypeOK
      <4> QED
        BY <3>1, <4>1 DEF InOrder
    <3> QED
      BY <3>2, <3>3
  <2> QED
    BY <2>1, <2>2
<1>3. InOrder'
  BY <1>2 DEF InOrder, QueueTypeOK
<1> QED
  BY <1>1, <1>3

\* A handler returns.
LEMMA ReturnStep ==
  ASSUME QueueIInv, NEW h \in Handlers, Return(h)
  PROVE  QueueIInv'
  BY DEF Return, QueueIInv, QueueTypeOK, RanksOK, LastOK, WaitsOK, InOrder, NoLeak, Appended,
        Returned

\* The map forgets a handler that is the last one, when all have returned.
LEMMA FinishStep ==
  ASSUME QueueIInv, NEW h \in Handlers, Finish(h)
  PROVE  QueueIInv'
<1> USE QueueAssumption DEF Finish, QueueIInv, Appended, Returned
<1>1. QueueTypeOK'
  BY DEF QueueTypeOK, Clean
<1>2. RanksOK' /\ WaitsOK' /\ InOrder'
  BY DEF QueueTypeOK, RanksOK, WaitsOK, InOrder
<1>3. CASE fns[id[h]] = h
  <2>1. \A g \in Handlers : Appended(g) /\ id[g] = id[h] => Returned(g)
    <3> SUFFICES ASSUME NEW g \in Handlers, Appended(g), id[g] = id[h], g # h
                 PROVE  Returned(g)
      OBVIOUS
    <3>1. rank[g] < rank[h]
      BY <1>3 DEF LastOK, RanksOK, QueueTypeOK
    <3> QED
      BY <3>1 DEF InOrder
  <2>2. fns' = [fns EXCEPT ![id[h]] = None]
    BY <1>3 DEF Clean
  <2>3. LastOK'
    BY <2>1, <2>2 DEF LastOK, QueueTypeOK
  <2>4. NoLeak'
    BY <1>3, <2>2 DEF NoLeak, QueueTypeOK, LastOK
  <2> QED
    BY <1>1, <1>2, <2>3, <2>4
<1>4. CASE fns[id[h]] # h
  <2>1. fns' = fns
    BY <1>4 DEF Clean
  <2>2. LastOK'
    BY <2>1 DEF LastOK, QueueTypeOK
  <2>3. NoLeak'
    BY <1>4, <2>1 DEF NoLeak, QueueTypeOK, LastOK
  <2> QED
    BY <1>1, <1>2, <2>2, <2>3
<1> QED
  BY <1>3, <1>4

\* QueueIInv is inductive.
LEMMA QueueStep == QueueIInv /\ [QueueNext]_queueVars => QueueIInv'
<1> SUFFICES ASSUME QueueIInv, [QueueNext]_queueVars PROVE QueueIInv'
  OBVIOUS
<1>1. CASE UNCHANGED queueVars
  BY <1>1 DEF queueVars, QueueIInv, QueueTypeOK, RanksOK, LastOK, WaitsOK, InOrder, NoLeak,
        Appended, Returned
<1> QED
  BY <1>1, AppendStep, RunStep, ReturnStep, FinishStep DEF QueueNext

\* The inductive invariant holds in every reachable state.
THEOREM QueueInvariance == QueueSpec => []QueueIInv
  BY InitQueueIInv, QueueStep, PTL DEF QueueSpec

\* The handlers of an id run in order, one at a time, and the map does not leak.
THEOREM QueueCorrectness == QueueSpec => [](InOrder /\ NoLeak)
<1>1. QueueIInv => InOrder /\ NoLeak
  BY DEF QueueIInv
<1> QED
  BY <1>1, QueueInvariance, PTL
-----------------------------------------------------------------------------
\* A subscriber is evicted, or added, only while nothing is being sent.
TargetsOK ==
    /\ stage \in [Messages -> {"none", "stored", "sending", "published"}]
    /\ targets \in [Messages -> SUBSET Subscribers]
    /\ sub \in [Subscribers -> {"new", "loads", "subscribed", "leaving", "gone"}]
    /\ \A m \in Messages : \A s \in targets[m] :
          stage[m] = "sending" /\ sub[s] \in {"subscribed", "leaving"}

\* The types of what is stored and sent; a client that loads the past has the lock.
ChannelsOK ==
    /\ events \in Seq(Messages) /\ Len(events) <= Limit
    /\ mu \in Subscribers \cup {None}
    /\ wants \in [Subscribers -> SUBSET Ids]
    /\ channel \in [Subscribers -> Seq(Messages)]
    /\ got \in [Subscribers -> Seq(Messages)]
    /\ forgotten \in [Subscribers -> SUBSET Messages]
    /\ skipped \in [Subscribers -> SUBSET Messages]
    /\ \A s \in Subscribers :
          /\ Len(channel[s]) <= Buffer
          /\ sub[s] = "loads" => mu = s
          /\ sub[s] \in {"new", "loads"} => channel[s] = <<>>

\* An event is stored while its handler runs, and sent before it returns; what
\* is stored, and what a client has seen, are such events.
LoggedOK ==
    /\ \A h \in Handlers : /\ stage[h] # "none" => pc[h] = "running" \/ Returned(h)
                           /\ Returned(h) => stage[h] = "published"
    /\ \A m \in Elements(events) : stage[m] # "none"
    /\ \A s \in Subscribers : \A m \in Elements(got[s]) \cup Elements(channel[s]) : stage[m] # "none"

\* NoGap, and what it rests on while a client loads the past: no event is stored then.
GapOK ==
    \A s \in Subscribers, m \in Messages :
        /\ sub[s] \in {"loads", "subscribed"} /\ stage[m] # "none"
        /\ About(m) \in wants[s] /\ m \notin forgotten[s]
        => \/ m \in Elements(got[s]) \cup Elements(channel[s]) \cup skipped[s]
           \/ sub[s] = "subscribed" /\ (stage[m] = "stored" \/ s \in targets[m])

\* m may come after g.
Rising(g, m) == {g, m} \subseteq Handlers /\ id[g] = id[m] => rank[g] <= rank[m]

Sorted(q) == \A i, j \in DOMAIN q : i < j => Rising(q[i], q[j])

Precedes(q, r) == \A i \in DOMAIN q, j \in DOMAIN r : Rising(q[i], r[j])

OrderOK ==
    /\ Sorted(events)
    /\ \A s \in Subscribers :
          Sorted(got[s]) /\ Sorted(channel[s]) /\ Precedes(got[s], channel[s])

IInv == QueueIInv /\ TargetsOK /\ ChannelsOK /\ LoggedOK /\ GapOK /\ OrderOK
-----------------------------------------------------------------------------
\* Initially there are no subscribers.
LEMMA InitTargetsOK == Init => TargetsOK
  BY DEF Init, TargetsOK

\* Every step but those of the queue leaves the queue alone.
LEMMA StepIsQueue == Next => QueueNext \/ UNCHANGED queueVars
<1> SUFFICES ASSUME Next PROVE QueueNext \/ UNCHANGED queueVars
  OBVIOUS
<1> QED
  BY Zenon DEF Next, Appends, HandlerStep, PublishStep, Store, Publish, Send, SendTimesOut,
        Published,
     Returns, Subscribe, Subscribed, Receive, Leave, Evict, Left, QueueNext

\* The steps that change an event or its targets.
LEMMA PublishKeepsTargets ==
  ASSUME TargetsOK, NEW m \in Messages, Store(m) \/ PublishStep(m)
  PROVE  TargetsOK'
<1> USE DEF subscriber, TargetsOK
<1>1. CASE Store(m)
  BY <1>1 DEF Store
<1>2. CASE Publish(m)
  BY <1>2 DEF Publish
<1>3. CASE Published(m)
  BY <1>3 DEF Published
<1>4. CASE \E s \in Subscribers : Send(m, s) \/ SendTimesOut(m, s)
  BY <1>4 DEF Send, SendTimesOut, Sent
<1> QED
  BY <1>1, <1>2, <1>3, <1>4 DEF PublishStep

\* The steps of a subscriber.
LEMMA SubscriberKeepsTargets ==
  ASSUME TargetsOK, NEW s \in Subscribers,
         (\E want \in Filters : Subscribe(s, want)) \/ Subscribed(s) \/ Receive(s) \/ Leave(s) \/ Evict(s)
  PROVE  TargetsOK'
<1> USE DEF publisher, subscriber, TargetsOK
<1>1. CASE \E want \in Filters : Subscribe(s, want)
  BY <1>1 DEF Subscribe, Given
<1>2. CASE Subscribed(s)
  BY <1>2 DEF Subscribed
<1>3. CASE Receive(s)
  BY <1>3 DEF Receive
<1>4. CASE Leave(s)
  BY <1>4 DEF Leave
<1>5. CASE Evict(s)
  BY <1>5 DEF Evict, Left, NoReaders
<1> QED
  BY <1>1, <1>2, <1>3, <1>4, <1>5

\* TargetsOK is inductive.
LEMMA StepTargetsOK == TargetsOK /\ [Next]_vars => TargetsOK'
<1> SUFFICES ASSUME TargetsOK, [Next]_vars PROVE TargetsOK'
  OBVIOUS
<1>1. CASE \E h \in Handlers : Appends(h) \/ ((Run(h) \/ Finish(h)) /\ UNCHANGED aside) \/ Returns(h)
  BY <1>1 DEF Appends, Returns, aside, publisher, subscriber, TargetsOK
<1>2. CASE \E m \in Messages : Store(m) \/ PublishStep(m)
  BY <1>2, PublishKeepsTargets
<1>3. CASE \E s \in Subscribers :
              (\E want \in Filters : Subscribe(s, want)) \/ Subscribed(s) \/ Receive(s) \/ Leave(s) \/ Evict(s)
  BY <1>3, SubscriberKeepsTargets
<1>4. CASE UNCHANGED vars
  BY <1>4 DEF vars, publisher, subscriber, TargetsOK
<1> QED
  BY <1>1, <1>2, <1>3, <1>4, Zenon DEF Next, HandlerStep, Messages

(***************************************************************************)
(* The event stream implements the event queue: a handler that publishes   *)
(* its event is a handler of the queue.                                    *)
(***************************************************************************)
THEOREM ImplementsQueue == Init /\ [][Next]_vars => QueueSpec
<1>1. Init => QueueInit
  BY DEF Init
<1>2. [Next]_vars => [QueueNext]_queueVars
  BY StepIsQueue DEF vars
<1> QED
  BY <1>1, <1>2, PTL DEF QueueSpec

(***************************************************************************)
(* For any containers, handlers, calls and clients, however slow: the      *)
(* handlers of a container run in order, one at a time, and the queue      *)
(* leaks no channel (InOrder, NoLeak); and no event is sent to a closed    *)
(* channel (SentToOpen).                                                   *)
(***************************************************************************)
THEOREM StreamCorrectness == Spec => [](InOrder /\ NoLeak /\ SentToOpen)
<1>1. TargetsOK => SentToOpen
  BY DEF TargetsOK, SentToOpen
<1> QED
  BY <1>1, InitTargetsOK, StepTargetsOK, ImplementsQueue, QueueCorrectness, PTL DEF Spec
-----------------------------------------------------------------------------
\* A set of natural numbers has a least element: induction, as a statement about sets.
LEMMA LeastElement ==
  ASSUME NEW T, T \subseteq Nat, T # {}
  PROVE  \E k \in T : \A j \in T : k <= j
<1> DEFINE R == OpToRel(<, Nat)
<1>1. IsWellFoundedOn(R, Nat)
  BY NatLessThanWellFounded, Zenon DEF R
<1>2. \A a, b \in Nat : a < b => <<a, b>> \in R
  BY DEF OpToRel
<1> HIDE DEF R
<1>3. PICK k \in T : \A j \in T : ~(<<j, k>> \in R)
  BY <1>1, WFMin, Zenon
<1>4. \A j \in T : k <= j
  <2> TAKE j \in T
  <2>1. k \in Nat /\ j \in Nat
    OBVIOUS
  <2>2. ~(j < k)
    BY <1>2, <1>3, <2>1, Zenon
  <2> QED
    BY <2>1, <2>2
<1> QED
  BY <1>4

\* What Append does to a sequence and to the set of its elements.
LEMMA AppendFacts ==
  ASSUME NEW S, NEW q \in Seq(S), NEW x \in S
  PROVE  /\ Append(q, x) \in Seq(S) /\ Len(Append(q, x)) = Len(q) + 1
         /\ Append(q, x)[Len(q) + 1] = x /\ \A i \in DOMAIN q : Append(q, x)[i] = q[i]
         /\ DOMAIN Append(q, x) = DOMAIN q \cup {Len(q) + 1}
         /\ DOMAIN q = 1..Len(q) /\ Len(q) \in Nat
         /\ Elements(Append(q, x)) = Elements(q) \cup {x}
<1>1. /\ Append(q, x) \in Seq(S) /\ Len(Append(q, x)) = Len(q) + 1
      /\ Append(q, x)[Len(q) + 1] = x /\ \A i \in DOMAIN q : Append(q, x)[i] = q[i]
      /\ DOMAIN Append(q, x) = DOMAIN q \cup {Len(q) + 1}
      /\ DOMAIN q = 1..Len(q) /\ Len(q) \in Nat
  OBVIOUS
<1>2. Elements(Append(q, x)) = Elements(q) \cup {x}
  BY <1>1, Zenon DEF Elements
<1> QED
  BY <1>1, <1>2

\* The same for Head and Tail of one that is not empty.
LEMMA TailFacts ==
  ASSUME NEW S, NEW q \in Seq(S), q # <<>>
  PROVE  /\ Head(q) = q[1] /\ Head(q) \in S /\ Head(q) \in Elements(q) /\ 1 \in DOMAIN q
         /\ Tail(q) \in Seq(S) /\ Len(Tail(q)) = Len(q) - 1 /\ Len(q) \in Nat \ {0}
         /\ DOMAIN q = 1..Len(q) /\ DOMAIN Tail(q) = 1..(Len(q) - 1)
         /\ \A i \in DOMAIN Tail(q) : Tail(q)[i] = q[i + 1] /\ i + 1 \in DOMAIN q
         /\ Elements(q) = {Head(q)} \cup Elements(Tail(q))
<1>1. /\ Head(q) = q[1] /\ Head(q) \in S /\ 1 \in DOMAIN q
      /\ Tail(q) \in Seq(S) /\ Len(Tail(q)) = Len(q) - 1 /\ Len(q) \in Nat \ {0}
      /\ DOMAIN q = 1..Len(q) /\ DOMAIN Tail(q) = 1..(Len(q) - 1)
      /\ \A i \in DOMAIN Tail(q) : Tail(q)[i] = q[i + 1] /\ i + 1 \in DOMAIN q
  OBVIOUS
<1>2. \A i \in DOMAIN q : i = 1 \/ \E j \in DOMAIN Tail(q) : q[i] = Tail(q)[j]
  <2> TAKE i \in DOMAIN q
  <2>1. i \in Int /\ (i # 1 => i - 1 \in DOMAIN Tail(q) /\ i = (i - 1) + 1)
    BY <1>1
  <2> QED
    BY <1>1, <2>1
<1>3. Elements(q) = {Head(q)} \cup Elements(Tail(q))
  <2>1. Elements(q) = {q[i] : i \in DOMAIN q} /\ Elements(Tail(q)) = {Tail(q)[i] : i \in DOMAIN Tail(q)}
    BY DEF Elements
  <2> QED
    BY <1>1, <1>2, <2>1, Zenon
<1> QED
  BY <1>1, <1>3

\* The empty sequence.
LEMMA EmptyFacts ==
  /\ Len(<<>>) = 0 /\ DOMAIN <<>> = {} /\ Elements(<<>>) = {}
  /\ \A S : <<>> \in Seq(S)
<1>1. Len(<<>>) = 0 /\ DOMAIN <<>> = {} /\ \A S : <<>> \in Seq(S)
  OBVIOUS
<1>2. Elements(<<>>) = {}
  BY <1>1, Zenon DEF Elements
<1> QED
  BY <1>1, <1>2

\* A sequence stays sorted with an event after all of its own.
LEMMA AppendSorted ==
  ASSUME NEW q \in Seq(Messages), NEW m \in Messages, Sorted(q), \A g \in Elements(q) : Rising(g, m)
  PROVE  Sorted(Append(q, m))
<1>1. \A i \in DOMAIN q : q[i] \in Elements(q)
  BY DEF Elements
<1> QED
  BY <1>1, AppendFacts DEF Sorted

(***************************************************************************)
(* The loop of loadBufferedEvents, as an equation for what it has after    *)
(* each event: the events that were asked for, and no other, in their      *)
(* order.  By induction: there is no least k for which it is not so.       *)
(***************************************************************************)
Loop(want, N, b) ==
    b = [k \in 0..N |-> IF k = 0 THEN <<>>
                        ELSE IF About(events[k]) \in want THEN Append(b[k - 1], events[k])
                        ELSE b[k - 1]]

\* The loop can be run: there is a function with this equation.
LEMMA LoopExists ==
  ASSUME NEW N \in Nat, NEW want
  PROVE  \E b : Loop(want, N, b)
<1> DEFINE T == {k \in Nat : ~\E b : Loop(want, k, b)}
<1> SUFFICES ASSUME T # {} PROVE FALSE
  OBVIOUS
<1>1. PICK k \in T : \A j \in T : k <= j
  BY LeastElement
<1>2. k # 0
  <2>1. Loop(want, 0, [i \in 0..0 |-> <<>>])
    BY DEF Loop
  <2> QED
    BY <2>1
<1>3. k \in Nat /\ k - 1 \in Nat /\ k - 1 \notin T
  BY <1>1, <1>2
<1>4. PICK b : Loop(want, k - 1, b)
  BY <1>3
<1> DEFINE last == IF About(events[k]) \in want THEN Append(b[k - 1], events[k]) ELSE b[k - 1]
<1> DEFINE c == [i \in 0..k |-> IF i = k THEN last ELSE b[i]]
<1>5. Loop(want, k, c)
  <2> HIDE DEF T
  <2>1. \A i \in 0..(k - 1) : c[i] = b[i]
    BY <1>3
  <2>2. \A i \in 0..(k - 1) : b[i] = IF i = 0 THEN <<>>
                              ELSE IF About(events[i]) \in want THEN Append(b[i - 1], events[i])
                              ELSE b[i - 1]
    <3> HIDE DEF c, last
    <3> QED
      BY <1>4, Zenon DEF Loop
  <2>3. \A i \in 0..k : c[i] = IF i = 0 THEN <<>>
                               ELSE IF About(events[i]) \in want THEN Append(c[i - 1], events[i])
                               ELSE c[i - 1]
    <3> TAKE i \in 0..k
    <3>1. CASE i = k
      <4>1. c[k] = last /\ c[k - 1] = b[k - 1]
        BY <1>3
      <4> HIDE DEF c
      <4> QED
        BY <1>2, <3>1, <4>1
    <3>2. CASE i # k
      <4>1. i \in 0..(k - 1) /\ (i # 0 => i - 1 \in 0..(k - 1))
        BY <1>3, <3>2
      <4> HIDE DEF c
      <4> QED
        BY <2>1, <2>2, <4>1
    <3> QED
      BY <3>1, <3>2
  <2>4. c = [i \in 0..k |-> c[i]]
    OBVIOUS
  <2> HIDE DEF c
  <2> QED
    BY <2>3, <2>4 DEF Loop
<1> QED
  BY <1>5

\* Each part of it has the events asked for among those read so far.
LEMMA LoopFacts ==
  ASSUME events \in Seq(Messages), Sorted(events), NEW want, NEW b, Loop(want, Len(events), b),
         NEW k \in 0..Len(events)
  PROVE  /\ b[k] \in Seq(Messages) /\ Sorted(b[k])
         /\ Elements(b[k]) = {m \in Messages : About(m) \in want /\ \E i \in 1..k : events[i] = m}
<1> DEFINE Upto(j) == {m \in Messages : About(m) \in want /\ \E i \in 1..j : events[i] = m}
           P(j) == b[j] \in Seq(Messages) /\ Sorted(b[j]) /\ Elements(b[j]) = Upto(j)
           T == {j \in 0..Len(events) : ~P(j)}
<1> SUFFICES ASSUME T # {} PROVE FALSE
  BY Zenon
<1>a. Len(events) \in Nat /\ DOMAIN events = 1..Len(events) /\ \A i \in 1..Len(events) : events[i] \in Messages
  OBVIOUS
<1>1. PICK j \in T : \A i \in T : j <= i
  <2>1. T \subseteq Nat
    BY <1>a
  <2> QED
    BY <2>1, LeastElement, Zenon
<1>2. j \in 0..Len(events) /\ ~P(j)
  BY <1>1
<1>3. j # 0
  <2> SUFFICES P(0)
    BY <1>2
  <2>1. b[0] = <<>>
    BY <1>a DEF Loop
  <2>2. Upto(0) = {}
    OBVIOUS
  <2>3. Sorted(<<>>)
    BY EmptyFacts DEF Sorted
  <2> QED
    BY <2>1, <2>2, <2>3, EmptyFacts
<1>4. j - 1 \in 0..Len(events) /\ j \in 1..Len(events) /\ events[j] \in Messages
  BY <1>2, <1>3, <1>a
<1>5. P(j - 1)
  <2> HIDE DEF P
  <2>1. j - 1 \in 0..Len(events) /\ ~(j <= j - 1)
    BY <1>2, <1>4
  <2> QED
    BY <1>1, <2>1
<1>6. b[j] = IF About(events[j]) \in want THEN Append(b[j - 1], events[j]) ELSE b[j - 1]
  BY <1>2, <1>3, <1>4 DEF Loop
<1>7. \A m : (\E i \in 1..j : events[i] = m) <=> m = events[j] \/ \E i \in 1..(j - 1) : events[i] = m
  BY <1>4
<1>8. CASE About(events[j]) \in want
  <2>1. Upto(j) = Upto(j - 1) \cup {events[j]}
    BY <1>4, <1>7, <1>8, Zenon
  <2>2. \A g \in Elements(b[j - 1]) : Rising(g, events[j])
    <3> SUFFICES ASSUME NEW g \in Upto(j - 1) PROVE Rising(g, events[j])
      BY <1>5
    <3>1. PICK i \in 1..(j - 1) : events[i] = g
      OBVIOUS
    <3>2. i \in DOMAIN events /\ j \in DOMAIN events /\ i < j
      BY <1>4, <1>a
    <3> QED
      BY <3>1, <3>2 DEF Sorted
  <2>3. /\ Append(b[j - 1], events[j]) \in Seq(Messages) /\ Sorted(Append(b[j - 1], events[j]))
        /\ Elements(Append(b[j - 1], events[j])) = Elements(b[j - 1]) \cup {events[j]}
    BY <1>4, <1>5, <2>2, AppendFacts, AppendSorted
  <2> QED
    BY <1>2, <1>5, <1>6, <1>8, <2>1, <2>3
<1>9. CASE About(events[j]) \notin want
  <2>1. Upto(j) = Upto(j - 1)
    BY <1>7, <1>9, Zenon
  <2> QED
    BY <1>2, <1>5, <1>6, <1>9, <2>1
<1> QED
  BY <1>8, <1>9

\* So loadBufferedEvents returns the events asked for, in their order.
LEMMA BufferedFacts ==
  ASSUME events \in Seq(Messages), Sorted(events), NEW want
  PROVE  /\ Buffered(want) \in Seq(Messages) /\ Sorted(Buffered(want))
         /\ Elements(Buffered(want)) = {m \in Elements(events) : About(m) \in want}
<1>1. Len(events) \in Nat /\ DOMAIN events = 1..Len(events) /\ Len(events) \in 0..Len(events)
  OBVIOUS
<1>2. PICK c : Loop(want, Len(events), c)
  BY <1>1, LoopExists
<1>3. PICK b : Buffered(want) = b[Len(events)] /\ Loop(want, Len(events), b)
  BY <1>2 DEF Buffered, Loop
<1>4. \A m : (\E i \in 1..Len(events) : events[i] = m) <=> m \in Elements(events)
  BY <1>1, Zenon DEF Elements
<1>5. Elements(events) \subseteq Messages
  BY DEF Elements
<1>6. {m \in Messages : About(m) \in want /\ \E i \in 1..Len(events) : events[i] = m}
         = {m \in Elements(events) : About(m) \in want}
  BY <1>4, <1>5, Zenon
<1> QED
  BY <1>1, <1>3, <1>6, LoopFacts
-----------------------------------------------------------------------------
(***************************************************************************)
(* The heart of the order: while the event of m is not sent, its handler   *)
(* runs, so that no handler after it in its queue has logged anything.     *)
(***************************************************************************)
LEMMA LogsInOrder ==
  ASSUME QueueIInv, LoggedOK, NEW m \in Messages, NEW g \in Messages, stage[g] # "none",
         m \in Handlers => pc[m] = "running"
  PROVE  Rising(g, m)
<1> SUFFICES ASSUME g \in Handlers, m \in Handlers, id[g] = id[m], ~(rank[g] <= rank[m])
             PROVE  FALSE
  BY DEF Rising
<1>1. rank[g] \in Nat /\ rank[m] \in Nat
  BY DEF QueueIInv, QueueTypeOK
<1>2. rank[m] < rank[g]
  BY <1>1
<1>3. pc[g] = "running" \/ Returned(g)
  BY DEF LoggedOK
<1>4. Returned(m)
  BY <1>2, <1>3 DEF QueueIInv, InOrder
<1> QED
  BY <1>4 DEF Returned

\* A handler whose event was stored and is not published runs.
LEMMA UnsentRuns ==
  ASSUME LoggedOK, NEW m \in Messages, stage[m] \in {"stored", "sending"}
  PROVE  m \in Handlers => pc[m] = "running"
  BY DEF LoggedOK

\* What is about events that were stored does not change when a handler is appended, runs or returns.
LEMMA QueueMoves ==
  ASSUME IInv, NEW h \in Handlers, UNCHANGED aside, QueueIInv',
         (\E d \in Ids : AppendHandler(h, d)) \/ Run(h) \/ (Return(h) /\ stage[h] = "published") \/ Finish(h)
  PROVE  IInv'
<1> USE DEF aside, publisher, subscriber
<1>1. /\ \A g \in Handlers : g # h => pc'[g] = pc[g]
      /\ \A g \in Handlers : g # h \/ pc[h] # "new" => id'[g] = id[g] /\ rank'[g] = rank[g]
      /\ \/ pc[h] = "new" /\ pc'[h] = "waiting"
         \/ pc[h] = "waiting" /\ pc'[h] = "running"
         \/ pc[h] = "running" /\ pc'[h] = "returned" /\ stage[h] = "published"
         \/ pc[h] = "returned" /\ pc'[h] = "done"
  BY DEF AppendHandler, Run, Return, Finish, IInv, QueueIInv, QueueTypeOK
<1>2. \A m \in Messages : stage[m] # "none" => m # h \/ pc[h] # "new"
  BY DEF IInv, LoggedOK, Returned
<1>3. \A m \in Messages : stage[m] # "none" => About(m)' = About(m)
  BY <1>1, <1>2 DEF About
<1>4. \A g, m \in Messages : stage[g] # "none" /\ stage[m] # "none" => (Rising(g, m)' <=> Rising(g, m))
  BY <1>1, <1>2 DEF Rising
<1>5. TargetsOK'
  BY DEF IInv, TargetsOK
<1>6. ChannelsOK'
  BY DEF IInv, ChannelsOK
<1>7. LoggedOK'
  <2>1. \A g \in Handlers : /\ stage[g] # "none" => pc'[g] = "running" \/ Returned(g)'
                            /\ Returned(g)' => stage[g] = "published"
    BY <1>1 DEF IInv, LoggedOK, Returned
  <2>2. Elements(events)' = Elements(events)
    BY DEF Elements
  <2>3. \A s \in Subscribers : Elements(got[s])' = Elements(got[s]) /\ Elements(channel[s])' = Elements(channel[s])
    BY DEF Elements
  <2> QED
    BY <2>1, <2>2, <2>3 DEF IInv, LoggedOK
<1>8. GapOK'
  BY <1>3 DEF IInv, GapOK, Elements
<1>9. OrderOK'
  <2>1. \A i \in DOMAIN events : events[i] \in Messages /\ stage[events[i]] # "none"
    BY DEF IInv, ChannelsOK, LoggedOK, Elements
  <2>2. \A s \in Subscribers :
           /\ \A i \in DOMAIN got[s] : got[s][i] \in Messages /\ stage[got[s][i]] # "none"
           /\ \A i \in DOMAIN channel[s] : channel[s][i] \in Messages /\ stage[channel[s][i]] # "none"
    BY DEF IInv, ChannelsOK, LoggedOK, Elements
  <2>3. Sorted(events)'
    BY <1>4, <2>1 DEF IInv, OrderOK, Sorted
  <2>4. \A s \in Subscribers : Sorted(got[s])' /\ Sorted(channel[s])' /\ Precedes(got[s], channel[s])'
    BY <1>4, <2>2 DEF IInv, OrderOK, Sorted, Precedes
  <2> QED
    BY <2>3, <2>4 DEF OrderOK
<1> QED
  BY <1>5, <1>6, <1>7, <1>8, <1>9 DEF IInv

\* What is stored, and what a client has seen, are events that were logged.
LEMMA SeenLogged ==
  ASSUME IInv
  PROVE  /\ \A g \in Elements(events) : g \in Messages /\ stage[g] # "none"
         /\ \A s \in Subscribers : \A g \in Elements(got[s]) \cup Elements(channel[s]) :
               g \in Messages /\ stage[g] # "none"
<1>1. \A q \in Seq(Messages) : Elements(q) \subseteq Messages
  BY DEF Elements
<1>2. /\ events \in Seq(Messages)
      /\ \A s \in Subscribers : got[s] \in Seq(Messages) /\ channel[s] \in Seq(Messages)
  BY DEF IInv, ChannelsOK
<1> QED
  BY <1>1, <1>2 DEF IInv, LoggedOK

\* The steps below leave the queue alone, and what is said of its handlers.
LEMMA QueueKept ==
  ASSUME IInv, UNCHANGED queueVars
  PROVE  /\ QueueIInv' /\ \A m \in Messages : About(m)' = About(m)
         /\ \A g, m \in Messages : Rising(g, m)' <=> Rising(g, m)
         /\ \A h \in Handlers : pc'[h] = pc[h] /\ (Returned(h)' <=> Returned(h))
<1>1. QueueIInv'
  BY QueueStep DEF IInv
<1>2. UNCHANGED <<fns, pc, id, fn, appended, rank>>
  BY DEF queueVars
<1> QED
  BY <1>1, <1>2 DEF About, Rising, Returned

\* Sequences of events that do not change stay sorted.
LEMMA OrderKept ==
  ASSUME IInv, UNCHANGED <<queueVars, events, channel, got>>
  PROVE  OrderOK'
<1>1. \A g, m : Rising(g, m)' <=> Rising(g, m)
  BY DEF queueVars, Rising
<1> QED
  BY <1>1 DEF IInv, OrderOK, Sorted, Precedes

\* PublishMessage stores the event, and drops the oldest.
LEMMA StoreStep ==
  ASSUME IInv, NEW m \in Messages, Store(m)
  PROVE  IInv'
<1> USE DEF subscriber
<1> DEFINE kept == IF Len(events) = Limit THEN Tail(events) ELSE events
<1>1. /\ UNCHANGED queueVars /\ UNCHANGED <<mu, targets, sub, wants, forgotten, channel, got, skipped>>
      /\ stage[m] = "none" /\ mu = None /\ (m \in Handlers => pc[m] = "running")
      /\ events' = Append(kept, m) /\ stage' = [stage EXCEPT ![m] = "stored"]
  BY DEF Store, MayLog
<1>2. QueueIInv' /\ TargetsOK'
  BY <1>1, QueueKept, PublishKeepsTargets DEF IInv
<1>3. /\ \A g \in Messages : g # m => stage'[g] = stage[g]
      /\ stage'[m] = "stored" /\ stage \in [Messages -> {"none", "stored", "sending", "published"}]
  BY <1>1 DEF IInv, TargetsOK
<1>4. /\ events \in Seq(Messages) /\ Len(events) <= Limit /\ Len(events) \in Nat /\ Limit \in Nat \ {0}
  BY StreamAssumption DEF IInv, ChannelsOK
<1>5. kept \in Seq(Messages) /\ Len(kept) < Limit /\ Elements(kept) \subseteq Elements(events) /\ Sorted(kept)
  <2>1. CASE Len(events) = Limit
    <3>1. events # <<>> /\ kept = Tail(events)
      BY <1>4, <2>1, EmptyFacts
    <3>2. Sorted(Tail(events))
      <4>1. Sorted(events)
        BY DEF IInv, OrderOK
      <4>2. \A i, j \in DOMAIN Tail(events) : i < j => i + 1 < j + 1
        BY <1>4, <3>1, TailFacts
      <4> QED
        BY <1>4, <3>1, <4>1, <4>2, TailFacts DEF Sorted
    <3> QED
      BY <1>4, <2>1, <3>1, <3>2, TailFacts
  <2>2. CASE Len(events) # Limit
    BY <1>4, <2>2 DEF IInv, OrderOK
  <2> QED
    BY <2>1, <2>2
<1> HIDE DEF kept
<1>6. /\ events' \in Seq(Messages) /\ Len(events') <= Limit
      /\ Elements(events') = Elements(kept) \cup {m}
  BY <1>1, <1>4, <1>5, AppendFacts
<1>7. ChannelsOK'
  BY <1>1, <1>6 DEF IInv, ChannelsOK
<1>8. LoggedOK'
  <2>1. \A s \in Subscribers : Elements(got'[s]) = Elements(got[s]) /\ Elements(channel'[s]) = Elements(channel[s])
    BY <1>1
  <2>2. \A g \in Messages : stage[g] # "none" => stage'[g] # "none"
    BY <1>3
  <2>3. \A g \in Elements(events') : stage'[g] # "none"
    BY <1>3, <1>5, <1>6, <2>2, SeenLogged
  <2>4. \A s \in Subscribers : \A g \in Elements(got[s]) \cup Elements(channel[s]) : stage'[g] # "none"
    BY <2>2, SeenLogged
  <2>5. \A h \in Handlers : /\ stage'[h] # "none" => pc'[h] = "running" \/ Returned(h)'
                            /\ Returned(h)' => stage'[h] = "published"
    BY <1>1, <1>3, QueueKept DEF IInv, LoggedOK, Returned, Messages
  <2> QED
    BY <2>1, <2>3, <2>4, <2>5 DEF LoggedOK
<1>9. GapOK'
  <2> SUFFICES ASSUME NEW s \in Subscribers, NEW g \in Messages,
                      sub[s] \in {"loads", "subscribed"}, stage'[g] # "none",
                      About(g)' \in wants[s], g \notin forgotten[s]
               PROVE  \/ g \in Elements(got[s]) \cup Elements(channel[s]) \cup skipped[s]
                      \/ sub[s] = "subscribed" /\ (stage'[g] = "stored" \/ s \in targets[g])
    BY <1>1 DEF GapOK
  <2>1. About(g)' = About(g)
    BY <1>1, QueueKept
  <2>2. CASE g = m
    BY <1>1, <1>3, <2>2, StreamAssumption DEF IInv, ChannelsOK
  <2>3. CASE g # m
    BY <1>3, <2>1, <2>3 DEF IInv, GapOK
  <2> QED
    BY <2>2, <2>3
<1>10. OrderOK'
  <2>1. \A g \in Elements(kept) : Rising(g, m)
    <3> TAKE g \in Elements(kept)
    <3>1. g \in Messages /\ stage[g] # "none"
      BY <1>5, SeenLogged
    <3> QED
      BY <1>1, <3>1, LogsInOrder DEF IInv
  <2>2. Sorted(Append(kept, m))
    BY <1>5, <2>1, AppendSorted
  <2>3. \A g, h : Rising(g, h)' <=> Rising(g, h)
    BY <1>1 DEF queueVars, Rising
  <2>4. Sorted(events)'
    BY <1>1, <2>2, <2>3 DEF Sorted
  <2> QED
    BY <1>1, <2>3, <2>4 DEF IInv, OrderOK, Sorted, Precedes
<1> QED
  BY <1>2, <1>7, <1>8, <1>9, <1>10 DEF IInv

\* Publish and its end: the event goes to all who have subscribed.
LEMMA PublishSteps ==
  ASSUME IInv, NEW m \in Messages, Publish(m) \/ Published(m)
  PROVE  IInv'
<1> USE DEF subscriber
<1>1. /\ UNCHANGED queueVars /\ UNCHANGED <<events, mu, sub, wants, forgotten, channel, got, skipped>>
      /\ \A g \in Messages : g # m => stage'[g] = stage[g] /\ targets'[g] = targets[g]
      /\ stage[m] \in {"stored", "sending"} /\ stage'[m] \in {"sending", "published"}
      /\ \A s \in Subscribers : sub[s] = "subscribed" /\ stage[m] = "stored" => s \in targets'[m]
      /\ \A s \in Subscribers : s \in targets[m] => s \in targets'[m]
  BY DEF Publish, Published, IInv, TargetsOK
<1>2. QueueIInv' /\ TargetsOK'
  BY <1>1, QueueKept, PublishKeepsTargets DEF IInv, PublishStep
<1>3. ChannelsOK'
  BY <1>1 DEF IInv, ChannelsOK
<1>4. LoggedOK'
  <2>1. \A h \in Handlers : /\ stage'[h] # "none" => pc'[h] = "running" \/ Returned(h)'
                            /\ Returned(h)' => stage'[h] = "published"
    BY <1>1, QueueKept DEF IInv, LoggedOK, Returned, Messages
  <2>2. \A g \in Messages : stage[g] # "none" => stage'[g] # "none"
    BY <1>1
  <2>3. \A g \in Elements(events) : stage'[g] # "none"
    BY <2>2, SeenLogged
  <2>4. \A s \in Subscribers : \A g \in Elements(got[s]) \cup Elements(channel[s]) : stage'[g] # "none"
    BY <2>2, SeenLogged
  <2> QED
    BY <1>1, <2>1, <2>3, <2>4 DEF LoggedOK
<1>5. GapOK'
  <2> SUFFICES ASSUME NEW s \in Subscribers, NEW g \in Messages,
                      sub[s] \in {"loads", "subscribed"}, stage'[g] # "none",
                      About(g)' \in wants[s], g \notin forgotten[s]
               PROVE  \/ g \in Elements(got[s]) \cup Elements(channel[s]) \cup skipped[s]
                      \/ sub[s] = "subscribed" /\ (stage'[g] = "stored" \/ s \in targets'[g])
    BY <1>1 DEF GapOK
  <2>1. About(g)' = About(g)
    BY <1>1, QueueKept
  <2> QED
    BY <1>1, <2>1 DEF IInv, GapOK
<1>6. OrderOK'
  BY <1>1, OrderKept
<1> QED
  BY <1>2, <1>3, <1>4, <1>5, <1>6 DEF IInv

\* sendTopic: the event is in the channel of a subscriber, after all it has seen, or is not sent.
LEMMA SendSteps ==
  ASSUME IInv, NEW m \in Messages, NEW s \in Subscribers, Send(m, s) \/ SendTimesOut(m, s)
  PROVE  IInv'
<1> USE DEF subscriber
<1>1. /\ UNCHANGED queueVars /\ UNCHANGED <<events, mu, stage, sub, wants, forgotten, got>>
      /\ s \in targets[m] /\ targets' = [targets EXCEPT ![m] = @ \ {s}]
      /\ \/ /\ channel' = [channel EXCEPT ![s] = Append(@, m)] /\ Len(channel[s]) < Buffer
            /\ UNCHANGED skipped
         \/ About(m) \notin wants[s] /\ UNCHANGED <<channel, skipped>>
         \/ skipped' = [skipped EXCEPT ![s] = @ \cup {m}] /\ UNCHANGED channel
  BY DEF Send, SendTimesOut, Sent
<1>2. QueueIInv' /\ TargetsOK'
  BY <1>1, QueueKept, PublishKeepsTargets DEF IInv, PublishStep
<1>3. /\ stage[m] = "sending" /\ sub[s] \in {"subscribed", "leaving"}
      /\ channel \in [Subscribers -> Seq(Messages)] /\ channel[s] \in Seq(Messages)
      /\ skipped \in [Subscribers -> SUBSET Messages]
      /\ Len(channel[s]) \in Nat /\ Buffer \in Nat
  BY <1>1, StreamAssumption DEF IInv, TargetsOK, ChannelsOK
<1>4. /\ \A g \in Messages : g # m => targets'[g] = targets[g]
      /\ \A t \in Subscribers : t # s => (t \in targets'[m] <=> t \in targets[m])
      /\ \A t \in Subscribers : t # s => channel'[t] = channel[t] /\ skipped'[t] = skipped[t]
      /\ channel'[s] \in {channel[s], Append(channel[s], m)}
      /\ skipped[s] \subseteq skipped'[s]
      /\ channel' \in [Subscribers -> Seq(Messages)] /\ skipped' \in [Subscribers -> SUBSET Messages]
      /\ Len(channel'[s]) <= Buffer
  <2>1. Append(channel[s], m) \in Seq(Messages) /\ Len(Append(channel[s], m)) = Len(channel[s]) + 1
    BY <1>3, AppendFacts
  <2>2. /\ \A g \in Messages : g # m => targets'[g] = targets[g]
        /\ \A t \in Subscribers : t # s => (t \in targets'[m] <=> t \in targets[m])
    BY <1>1 DEF IInv, TargetsOK
  <2>3. Len(channel[s]) <= Buffer
    BY DEF IInv, ChannelsOK
  <2>4. CASE channel' = [channel EXCEPT ![s] = Append(@, m)] /\ Len(channel[s]) < Buffer /\ UNCHANGED skipped
    <3>1. channel'[s] = Append(channel[s], m) /\ \A t \in Subscribers : t # s => channel'[t] = channel[t]
      BY <1>3, <2>4
    <3>2. channel' \in [Subscribers -> Seq(Messages)]
      BY <1>3, <2>1, <2>4
    <3> QED
      BY <1>3, <2>1, <2>2, <2>4, <3>1, <3>2
  <2>5. CASE skipped' = [skipped EXCEPT ![s] = @ \cup {m}] /\ UNCHANGED channel
    BY <1>3, <2>2, <2>3, <2>5
  <2>6. CASE UNCHANGED <<channel, skipped>>
    BY <1>3, <2>2, <2>3, <2>6
  <2> QED
    BY <1>1, <2>4, <2>5, <2>6
<1>5. /\ Elements(channel[s]) \subseteq Elements(channel'[s])
      /\ Elements(channel'[s]) \subseteq Elements(channel[s]) \cup {m}
      /\ About(m) \in wants[s] => m \in Elements(channel'[s]) \cup skipped'[s]
  <2>1. Elements(Append(channel[s], m)) = Elements(channel[s]) \cup {m}
    BY <1>3, AppendFacts
  <2>2. About(m) \in wants[s] => channel'[s] = Append(channel[s], m) \/ m \in skipped'[s]
    BY <1>1, <1>3
  <2> QED
    BY <1>4, <2>1, <2>2
<1>6. ChannelsOK'
  BY <1>1, <1>3, <1>4 DEF IInv, ChannelsOK
<1>7. LoggedOK'
  <2>1. \A t \in Subscribers : \A g \in Elements(got[t]) \cup Elements(channel'[t]) : stage[g] # "none"
    BY <1>3, <1>4, <1>5 DEF IInv, LoggedOK
  <2> QED
    BY <1>1, <2>1, QueueKept DEF IInv, LoggedOK
<1>8. GapOK'
  <2> SUFFICES ASSUME NEW t \in Subscribers, NEW g \in Messages,
                      sub[t] \in {"loads", "subscribed"}, stage[g] # "none",
                      About(g)' \in wants[t], g \notin forgotten[t]
               PROVE  \/ g \in Elements(got[t]) \cup Elements(channel'[t]) \cup skipped'[t]
                      \/ sub[t] = "subscribed" /\ (stage[g] = "stored" \/ t \in targets'[g])
    BY <1>1 DEF GapOK
  <2>1. About(g)' = About(g)
    BY <1>1, QueueKept
  <2>2. CASE t = s /\ g = m
    BY <1>5, <2>1, <2>2
  <2>3. CASE ~(t = s /\ g = m)
    <3>1. t \in targets[g] => t \in targets'[g]
      BY <1>4, <2>3
    <3>2. Elements(channel[t]) \subseteq Elements(channel'[t]) /\ skipped[t] \subseteq skipped'[t]
      BY <1>4, <1>5
    <3> QED
      BY <2>1, <3>1, <3>2 DEF IInv, GapOK
  <2> QED
    BY <2>2, <2>3
<1>9. OrderOK'
  <2>1. \A g \in Elements(got[s]) \cup Elements(channel[s]) : Rising(g, m)
    <3> TAKE g \in Elements(got[s]) \cup Elements(channel[s])
    <3>1. g \in Messages /\ stage[g] # "none"
      BY SeenLogged
    <3> QED
      BY <1>3, <3>1, LogsInOrder, UnsentRuns DEF IInv
  <2>2. Sorted(channel'[s])
    BY <1>3, <1>4, <2>1, AppendSorted DEF IInv, OrderOK
  <2>3. Precedes(got[s], channel'[s])
    <3>1. \A i \in DOMAIN got[s] : got[s][i] \in Elements(got[s])
      BY DEF Elements
    <3>2. Precedes(got[s], channel[s])
      BY DEF IInv, OrderOK
    <3>3. Precedes(got[s], Append(channel[s], m))
      BY <1>3, <2>1, <3>1, <3>2, AppendFacts DEF Precedes
    <3> QED
      BY <1>4, <3>2, <3>3
  <2>4. \A g, h : Rising(g, h)' <=> Rising(g, h)
    BY <1>1 DEF queueVars, Rising
  <2>5. \A t \in Subscribers : Sorted(got[t]) /\ Sorted(channel'[t]) /\ Precedes(got[t], channel'[t])
    BY <1>4, <2>2, <2>3 DEF IInv, OrderOK
  <2> QED
    BY <1>1, <2>4, <2>5 DEF IInv, OrderOK, Sorted, Precedes
<1> QED
  BY <1>2, <1>6, <1>7, <1>8, <1>9 DEF IInv

(***************************************************************************)
(* SubscribeTopic reads the stored events under Events.mu: what is not     *)
(* among them was forgotten, and nothing is stored until it has the lock   *)
(* of the publisher.                                                       *)
(***************************************************************************)
LEMMA SubscribeStep ==
  ASSUME IInv, NEW s \in Subscribers, NEW want \in Filters, Subscribe(s, want)
  PROVE  IInv'
<1>1. /\ UNCHANGED queueVars /\ UNCHANGED <<events, stage, targets, channel, skipped>>
      /\ sub[s] = "new" /\ mu = None /\ mu' = s
      /\ sub' = [sub EXCEPT ![s] = "loads"] /\ wants' = [wants EXCEPT ![s] = want]
      /\ forgotten' = [forgotten EXCEPT
            ![s] = {m \in Messages : stage[m] # "none" /\ m \notin Elements(events)}]
      /\ got' = [got EXCEPT ![s] = Buffered(want)]
  BY DEF Subscribe, Given
<1>2. QueueIInv' /\ TargetsOK'
  BY <1>1, QueueKept, SubscriberKeepsTargets DEF IInv
<1>3. /\ Buffered(want) \in Seq(Messages) /\ Sorted(Buffered(want))
      /\ Elements(Buffered(want)) = {m \in Elements(events) : About(m) \in want}
  BY BufferedFacts DEF IInv, ChannelsOK, OrderOK
<1>4. /\ sub \in [Subscribers -> {"new", "loads", "subscribed", "leaving", "gone"}]
      /\ wants \in [Subscribers -> SUBSET Ids] /\ got \in [Subscribers -> Seq(Messages)]
      /\ forgotten \in [Subscribers -> SUBSET Messages] /\ want \in SUBSET Ids
      /\ channel[s] = <<>>
  BY <1>1, StreamAssumption DEF IInv, TargetsOK, ChannelsOK
<1>5. /\ sub'[s] = "loads" /\ wants'[s] = want /\ got'[s] = Buffered(want)
      /\ forgotten'[s] = {m \in Messages : stage[m] # "none" /\ m \notin Elements(events)}
      /\ \A t \in Subscribers : t # s => /\ sub'[t] = sub[t] /\ wants'[t] = wants[t] /\ got'[t] = got[t]
                                         /\ forgotten'[t] = forgotten[t]
  BY <1>1, <1>4
<1>6. ChannelsOK'
  <2>1. /\ wants' \in [Subscribers -> SUBSET Ids] /\ got' \in [Subscribers -> Seq(Messages)]
        /\ forgotten' \in [Subscribers -> SUBSET Messages]
    BY <1>1, <1>3, <1>4
  <2>2. \A t \in Subscribers : /\ sub'[t] = "loads" => mu' = t
                               /\ sub'[t] \in {"new", "loads"} => channel[t] = <<>>
    BY <1>1, <1>4, <1>5, StreamAssumption DEF IInv, ChannelsOK
  <2> QED
    BY <1>1, <2>1, <2>2 DEF IInv, ChannelsOK
<1>7. LoggedOK'
  <2>1. \A t \in Subscribers : \A g \in Elements(got'[t]) \cup Elements(channel[t]) : stage[g] # "none"
    BY <1>3, <1>5, SeenLogged
  <2> QED
    BY <1>1, <2>1, QueueKept DEF IInv, LoggedOK
<1>8. GapOK'
  <2> SUFFICES ASSUME NEW t \in Subscribers, NEW g \in Messages,
                      sub'[t] \in {"loads", "subscribed"}, stage[g] # "none",
                      About(g)' \in wants'[t], g \notin forgotten'[t]
               PROVE  \/ g \in Elements(got'[t]) \cup Elements(channel[t]) \cup skipped[t]
                      \/ sub'[t] = "subscribed" /\ (stage[g] = "stored" \/ t \in targets[g])
    BY <1>1 DEF GapOK
  <2>1. About(g)' = About(g)
    BY <1>1, QueueKept
  <2>2. CASE t = s
    BY <1>3, <1>5, <2>1, <2>2
  <2>3. CASE t # s
    BY <1>5, <2>1, <2>3 DEF IInv, GapOK
  <2> QED
    BY <2>2, <2>3
<1>9. OrderOK'
  <2>1. Precedes(Buffered(want), channel[s])
    BY <1>4, EmptyFacts DEF Precedes
  <2>2. \A t \in Subscribers : Sorted(got'[t]) /\ Sorted(channel[t]) /\ Precedes(got'[t], channel[t])
    BY <1>3, <1>5, <2>1 DEF IInv, OrderOK
  <2>3. \A g, h : Rising(g, h)' <=> Rising(g, h)
    BY <1>1 DEF queueVars, Rising
  <2> QED
    BY <1>1, <2>2, <2>3 DEF IInv, OrderOK, Sorted, Precedes
<1> QED
  BY <1>2, <1>6, <1>7, <1>8, <1>9 DEF IInv

\* The publisher adds the subscriber, or its client stops reading.
LEMMA SubStageSteps ==
  ASSUME IInv, NEW s \in Subscribers, Subscribed(s) \/ Leave(s)
  PROVE  IInv'
<1> USE DEF publisher
<1>1. /\ UNCHANGED queueVars /\ UNCHANGED <<events, stage, targets, wants, forgotten, channel, got, skipped>>
      /\ \/ sub[s] = "loads" /\ sub'[s] = "subscribed" /\ mu' = None
         \/ sub[s] = "subscribed" /\ sub'[s] = "leaving" /\ mu' = mu
      /\ \A t \in Subscribers : t # s => sub'[t] = sub[t]
  BY DEF Subscribed, Leave, IInv, TargetsOK
<1>2. QueueIInv' /\ TargetsOK'
  BY <1>1, QueueKept, SubscriberKeepsTargets DEF IInv
<1>3. ChannelsOK'
  BY <1>1 DEF IInv, ChannelsOK
<1>4. LoggedOK'
  BY <1>1, QueueKept DEF IInv, LoggedOK
<1>5. GapOK'
  <2> SUFFICES ASSUME NEW t \in Subscribers, NEW g \in Messages,
                      sub'[t] \in {"loads", "subscribed"}, stage[g] # "none",
                      About(g)' \in wants[t], g \notin forgotten[t]
               PROVE  \/ g \in Elements(got[t]) \cup Elements(channel[t]) \cup skipped[t]
                      \/ sub'[t] = "subscribed" /\ (stage[g] = "stored" \/ t \in targets[g])
    BY <1>1 DEF GapOK
  <2>1. About(g)' = About(g)
    BY <1>1, QueueKept
  <2> QED
    BY <1>1, <2>1 DEF IInv, GapOK
<1>6. OrderOK'
  BY <1>1, OrderKept
<1> QED
  BY <1>2, <1>3, <1>4, <1>5, <1>6 DEF IInv

\* An event moves from the channel to what the client has.
LEMMA ReceiveStep ==
  ASSUME IInv, NEW s \in Subscribers, Receive(s)
  PROVE  IInv'
<1> USE DEF publisher, subscriber
<1>1. /\ UNCHANGED queueVars /\ UNCHANGED <<events, mu, stage, targets, sub, wants, forgotten, skipped>>
      /\ sub[s] = "subscribed" /\ channel[s] # <<>>
      /\ got' = [got EXCEPT ![s] = Append(@, Head(channel[s]))]
      /\ channel' = [channel EXCEPT ![s] = Tail(@)]
  BY DEF Receive
<1>2. QueueIInv' /\ TargetsOK'
  BY <1>1, QueueKept, SubscriberKeepsTargets DEF IInv
<1>3. /\ channel \in [Subscribers -> Seq(Messages)] /\ got \in [Subscribers -> Seq(Messages)]
      /\ channel[s] \in Seq(Messages) /\ got[s] \in Seq(Messages)
      /\ Len(channel[s]) <= Buffer /\ Buffer \in Nat
  BY StreamAssumption DEF IInv, ChannelsOK
<1>4. /\ Head(channel[s]) \in Messages /\ Tail(channel[s]) \in Seq(Messages)
      /\ Len(Tail(channel[s])) <= Buffer /\ Append(got[s], Head(channel[s])) \in Seq(Messages)
      /\ Elements(channel[s]) = {Head(channel[s])} \cup Elements(Tail(channel[s]))
      /\ Elements(Append(got[s], Head(channel[s]))) = Elements(got[s]) \cup {Head(channel[s])}
  <2>1. /\ Head(channel[s]) \in Messages /\ Tail(channel[s]) \in Seq(Messages)
        /\ Len(Tail(channel[s])) = Len(channel[s]) - 1 /\ Len(channel[s]) \in Nat
        /\ Elements(channel[s]) = {Head(channel[s])} \cup Elements(Tail(channel[s]))
    BY <1>1, <1>3, TailFacts
  <2> QED
    BY <1>3, <2>1, AppendFacts
<1>5. /\ got'[s] = Append(got[s], Head(channel[s])) /\ channel'[s] = Tail(channel[s])
      /\ \A t \in Subscribers : t # s => got'[t] = got[t] /\ channel'[t] = channel[t]
      /\ got' \in [Subscribers -> Seq(Messages)] /\ channel' \in [Subscribers -> Seq(Messages)]
  BY <1>1, <1>3, <1>4
<1>6. ChannelsOK'
  BY <1>1, <1>4, <1>5 DEF IInv, ChannelsOK
<1>7. \A t \in Subscribers : Elements(got'[t]) \cup Elements(channel'[t]) = Elements(got[t]) \cup Elements(channel[t])
  BY <1>4, <1>5
<1>8. LoggedOK'
  BY <1>1, <1>7, QueueKept DEF IInv, LoggedOK
<1>9. GapOK'
  <2>1. \A m \in Messages : About(m)' = About(m)
    BY <1>1, QueueKept
  <2> QED
    BY <1>1, <1>7, <2>1 DEF IInv, GapOK
<1>10. OrderOK'
  <2> DEFINE q == got[s]
             c == channel[s]
  <2>1. Sorted(q) /\ Sorted(c) /\ Precedes(q, c)
    BY DEF IInv, OrderOK
  <2>2. \A g \in Elements(q) : Rising(g, Head(c))
    BY <1>1, <1>3, <2>1, TailFacts DEF Precedes, Elements
  <2>3. Sorted(Append(q, Head(c)))
    BY <1>3, <1>4, <2>1, <2>2, AppendSorted
  <2>4. /\ Head(c) = c[1] /\ 1 \in DOMAIN c
        /\ \A i \in DOMAIN Tail(c) : Tail(c)[i] = c[i + 1] /\ i + 1 \in DOMAIN c /\ i \in Nat /\ 1 < i + 1
    BY <1>1, <1>3, TailFacts
  <2>5. /\ \A i \in DOMAIN q : Append(q, Head(c))[i] = q[i]
        /\ \A i \in DOMAIN Append(q, Head(c)) : i \in DOMAIN q \/ Append(q, Head(c))[i] = Head(c)
    BY <1>3, <1>4, AppendFacts
  <2> HIDE DEF q, c
  <2>6. Sorted(Tail(c))
    BY <2>1, <2>4 DEF Sorted
  <2>7. Precedes(Append(q, Head(c)), Tail(c))
    BY <2>1, <2>4, <2>5 DEF Precedes, Sorted
  <2>8. \A t \in Subscribers : Sorted(got'[t]) /\ Sorted(channel'[t]) /\ Precedes(got'[t], channel'[t])
    BY <1>5, <2>3, <2>6, <2>7 DEF IInv, OrderOK, q, c
  <2>9. \A g, h : Rising(g, h)' <=> Rising(g, h)
    BY <1>1 DEF queueVars, Rising
  <2> QED
    BY <1>1, <2>8, <2>9 DEF IInv, OrderOK, Sorted, Precedes
<1> QED
  BY <1>2, <1>6, <1>8, <1>9, <1>10 DEF IInv

\* A client that leaves has nothing any more.
LEMMA EvictStep ==
  ASSUME IInv, NEW s \in Subscribers, Evict(s)
  PROVE  IInv'
<1> USE DEF publisher
<1>1. /\ UNCHANGED queueVars /\ UNCHANGED <<events, mu, stage, targets>>
      /\ sub[s] = "leaving" /\ sub' = [sub EXCEPT ![s] = "gone"]
      /\ wants' = [wants EXCEPT ![s] = {}] /\ channel' = [channel EXCEPT ![s] = <<>>]
      /\ got' = [got EXCEPT ![s] = <<>>]
      /\ forgotten' = [forgotten EXCEPT ![s] = {}] /\ skipped' = [skipped EXCEPT ![s] = {}]
  BY DEF Evict, Left
<1>2. QueueIInv' /\ TargetsOK'
  BY <1>1, QueueKept, SubscriberKeepsTargets DEF IInv
<1>3. /\ sub'[s] = "gone" /\ channel'[s] = <<>> /\ got'[s] = <<>>
      /\ \A t \in Subscribers : t # s => /\ sub'[t] = sub[t] /\ wants'[t] = wants[t] /\ channel'[t] = channel[t]
                                         /\ got'[t] = got[t] /\ forgotten'[t] = forgotten[t]
                                         /\ skipped'[t] = skipped[t]
  BY <1>1 DEF IInv, TargetsOK, ChannelsOK
<1>4. /\ wants' \in [Subscribers -> SUBSET Ids] /\ channel' \in [Subscribers -> Seq(Messages)]
      /\ got' \in [Subscribers -> Seq(Messages)]
      /\ forgotten' \in [Subscribers -> SUBSET Messages] /\ skipped' \in [Subscribers -> SUBSET Messages]
  BY <1>1, EmptyFacts DEF IInv, ChannelsOK
<1>5. ChannelsOK'
  BY <1>1, <1>3, <1>4, EmptyFacts, StreamAssumption DEF IInv, ChannelsOK
<1>6. LoggedOK'
  <2>1. \A t \in Subscribers : \A g \in Elements(got'[t]) \cup Elements(channel'[t]) : stage[g] # "none"
    BY <1>3, SeenLogged, EmptyFacts
  <2> QED
    BY <1>1, <2>1, QueueKept DEF IInv, LoggedOK
<1>7. GapOK'
  <2>1. \A m \in Messages : About(m)' = About(m)
    BY <1>1, QueueKept
  <2> QED
    BY <1>1, <1>3, <2>1 DEF IInv, GapOK
<1>8. OrderOK'
  <2>1. Sorted(<<>>) /\ Precedes(<<>>, <<>>)
    BY EmptyFacts DEF Sorted, Precedes
  <2>2. \A t \in Subscribers : Sorted(got'[t]) /\ Sorted(channel'[t]) /\ Precedes(got'[t], channel'[t])
    BY <1>3, <2>1 DEF IInv, OrderOK
  <2>3. \A g, h : Rising(g, h)' <=> Rising(g, h)
    BY <1>1 DEF queueVars, Rising
  <2> QED
    BY <1>1, <2>2, <2>3 DEF IInv, OrderOK, Sorted, Precedes
<1> QED
  BY <1>2, <1>5, <1>6, <1>7, <1>8 DEF IInv
-----------------------------------------------------------------------------
\* Initially nothing was logged.
LEMMA InitIInv == Init => IInv
<1> SUFFICES ASSUME Init PROVE IInv
  OBVIOUS
<1>1. QueueIInv /\ TargetsOK
  BY InitQueueIInv, InitTargetsOK DEF Init
<1>2. ChannelsOK
  BY EmptyFacts, StreamAssumption DEF Init, ChannelsOK
<1>3. /\ \A h \in Handlers : stage[h] = "none" /\ pc[h] = "new"
      /\ \A m \in Messages : stage[m] = "none"
      /\ events = <<>> /\ \A s \in Subscribers : got[s] = <<>> /\ channel[s] = <<>>
  BY DEF Init, QueueInit, Messages
<1>4. LoggedOK
  BY <1>3, EmptyFacts DEF LoggedOK, Returned
<1>5. GapOK
  BY <1>3 DEF GapOK
<1>6. OrderOK
  BY <1>3, EmptyFacts DEF OrderOK, Sorted, Precedes
<1> QED
  BY <1>1, <1>2, <1>4, <1>5, <1>6 DEF IInv

\* IInv is inductive.
LEMMA StepIInv == IInv /\ [Next]_vars => IInv'
<1> SUFFICES ASSUME IInv, [Next]_vars PROVE IInv'
  OBVIOUS
<1>1. QueueIInv'
  BY StepIsQueue, QueueStep DEF IInv, vars
<1>2. CASE \E h \in Handlers : Appends(h) \/ ((Run(h) \/ Finish(h)) /\ UNCHANGED aside) \/ Returns(h)
  BY <1>1, <1>2, QueueMoves DEF Appends, Returns, aside
<1>3. CASE \E m \in Messages : Store(m) \/ PublishStep(m)
  BY <1>3, StoreStep, PublishSteps, SendSteps DEF PublishStep
<1>4. CASE \E s \in Subscribers :
              (\E want \in Filters : Subscribe(s, want)) \/ Subscribed(s) \/ Receive(s) \/ Leave(s) \/ Evict(s)
  BY <1>4, SubscribeStep, SubStageSteps, ReceiveStep, EvictStep
<1>5. CASE UNCHANGED vars
  <2>1. /\ UNCHANGED queueVars
        /\ UNCHANGED <<events, mu, stage, targets, sub, wants, forgotten, channel, got, skipped>>
    BY <1>5 DEF vars, publisher, subscriber
  <2>2. TargetsOK' /\ ChannelsOK'
    BY <2>1 DEF IInv, TargetsOK, ChannelsOK
  <2>3. LoggedOK' /\ GapOK'
    BY <2>1, QueueKept DEF IInv, LoggedOK, GapOK
  <2> QED
    BY <1>1, <2>1, <2>2, <2>3, OrderKept DEF IInv
<1> QED
  BY <1>2, <1>3, <1>4, <1>5, Zenon DEF Next, HandlerStep, Messages

\* The inductive invariant holds in every reachable state.
THEOREM StreamInvariance == Spec => []IInv
  BY InitIInv, StepIInv, PTL DEF Spec

\* What a client has seen is what it has and what is in its channel.
LEMMA SeenFacts ==
  ASSUME IInv, NEW s \in Subscribers
  PROVE  /\ Elements(Seen(s)) = Elements(got[s]) \cup Elements(channel[s])
         /\ Sorted(Seen(s))
<1> DEFINE q == got[s]
           c == channel[s]
<1>1. q \in Seq(Messages) /\ c \in Seq(Messages)
  BY DEF IInv, ChannelsOK
<1>2. Sorted(q) /\ Sorted(c) /\ Precedes(q, c)
  BY DEF IInv, OrderOK
<1>3. Seen(s) = q \o c
  BY DEF Seen
<1> HIDE DEF q, c
<1>4. /\ DOMAIN q = 1..Len(q) /\ DOMAIN c = 1..Len(c) /\ Len(q) \in Nat /\ Len(c) \in Nat
      /\ DOMAIN (q \o c) = 1..(Len(q) + Len(c))
      /\ \A i \in DOMAIN (q \o c) : (q \o c)[i] = IF i <= Len(q) THEN q[i] ELSE c[i - Len(q)]
  BY <1>1
<1>5. /\ \A i \in DOMAIN q : i \in DOMAIN (q \o c) /\ (q \o c)[i] = q[i]
      /\ \A i \in DOMAIN c : i + Len(q) \in DOMAIN (q \o c) /\ (q \o c)[i + Len(q)] = c[i]
      /\ \A i \in DOMAIN (q \o c) : \/ i \in DOMAIN q /\ (q \o c)[i] = q[i]
                                    \/ /\ i \notin DOMAIN q /\ i - Len(q) \in DOMAIN c
                                       /\ (q \o c)[i] = c[i - Len(q)]
  BY <1>4
<1>6. Elements(q \o c) = Elements(q) \cup Elements(c)
  <2>1. \A r, x : x \in Elements(r) <=> \E i \in DOMAIN r : r[i] = x
    BY DEF Elements
  <2>2. \A x : (\E i \in DOMAIN (q \o c) : (q \o c)[i] = x)
                 <=> (\E i \in DOMAIN q : q[i] = x) \/ (\E i \in DOMAIN c : c[i] = x)
    BY <1>5
  <2> QED
    BY <2>1, <2>2
<1>7. Sorted(q \o c)
  <2> SUFFICES ASSUME NEW i \in DOMAIN (q \o c), NEW j \in DOMAIN (q \o c), i < j
               PROVE  Rising((q \o c)[i], (q \o c)[j])
    BY DEF Sorted
  <2>1. CASE i \in DOMAIN q /\ j \in DOMAIN q
    BY <1>2, <1>5, <2>1 DEF Sorted
  <2>2. CASE i \in DOMAIN q /\ j \notin DOMAIN q
    BY <1>2, <1>5, <2>2 DEF Precedes
  <2>3. CASE i \notin DOMAIN q
    <3>1. j \notin DOMAIN q /\ i - Len(q) < j - Len(q)
      BY <1>4, <2>3
    <3> QED
      BY <1>2, <1>5, <2>3, <3>1 DEF Sorted
  <2> QED
    BY <2>1, <2>2, <2>3
<1> QED
  BY <1>3, <1>6, <1>7 DEF q, c

(***************************************************************************)
(* For any containers, handlers, calls and clients, and any sizes of the   *)
(* store and the channels: no event falls between those of the past that a *)
(* client is given on subscribing and those sent to it later, and none is  *)
(* sent to a closed channel (StreamKept).                                  *)
(***************************************************************************)
THEOREM NothingFallsBetween == Spec => []StreamKept
<1>1. ASSUME IInv PROVE StreamKept
  <2>1. TypeOK
    BY <1>1 DEF IInv, QueueIInv, TargetsOK, ChannelsOK, TypeOK
  <2>2. NoGap
    BY <1>1, SeenFacts DEF IInv, GapOK, NoGap
  <2>3. SentToOpen
    BY <1>1 DEF IInv, TargetsOK, SentToOpen
  <2> QED
    BY <2>1, <2>2, <2>3 DEF StreamKept
<1> QED
  BY <1>1, StreamInvariance, PTL

(***************************************************************************)
(* For any containers, handlers, calls and clients: a client sees the      *)
(* events of containerd for a container in the order they came, the past   *)
(* and the present together (Ordered).                                     *)
(***************************************************************************)
THEOREM SeenInOrder == Spec => []Ordered
<1>1. IInv => Ordered
  BY SeenFacts DEF Ordered, Sorted, Rising
<1> QED
  BY <1>1, StreamInvariance, PTL
=============================================================================
