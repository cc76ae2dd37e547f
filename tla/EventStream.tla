---------------------------- MODULE EventStream ----------------------------
(***************************************************************************)
(* The stream of events that clients see: the handlers of containerd's     *)
(* events (EventQueue), and API calls beside them, log an event each;      *)
(* daemon/events keeps the last of them and pkg/pubsub sends it to all who *)
(* have subscribed, within a time limit for each.  A client subscribes     *)
(* to the events of some containers, is given those of the past that are   *)
(* stored, reads at its own pace or not at all, and leaves.                *)
(*                                                                         *)
(* The locks: an event is stored under Events.mu, and sent under a read    *)
(* lock of the publisher; a client subscribes under Events.mu and the      *)
(* publisher's write lock, and leaves under the write lock.                *)
(***************************************************************************)
EXTENDS EventQueue, Sequences

CONSTANTS Callers,       \* API calls that log an event
          CallerId,      \* the container of it
          Subscribers,
          Filters,       \* the sets of containers a client may ask for
          Limit,         \* eventsLimit
          Buffer         \* bufferSize

Messages == Handlers \cup Callers

ASSUME StreamAssumption ==
    /\ Handlers \cap Callers = {}
    /\ CallerId \in [Callers -> Ids] /\ Filters \subseteq SUBSET Ids
    /\ Limit \in Nat \ {0} /\ Buffer \in Nat \ {0}
    /\ None \notin Subscribers

VARIABLES
    events,     \* Events.events
    mu,         \* the subscriber that holds Events.mu while it waits for the publisher
    stage,      \* how far the event of each handler and caller is
    targets,    \* the subscribers it is still to be sent to
    sub,        \* each subscriber: new, loads, subscribed, leaving, gone
    wants,      \* the containers it asked for
    channel,
    got,        \* what it was given on subscribing, and what it has received since
    \* History:
    forgotten,  \* the events no longer stored when it subscribed
    skipped     \* the events whose time limit was over

publisher == <<events, mu, stage, targets>>
subscriber == <<sub, wants, forgotten>>
vars == <<queueVars, publisher, subscriber, channel, got, skipped>>

Init ==
    /\ QueueInit
    /\ events = <<>> /\ mu = None
    /\ stage = [m \in Messages |-> "none"]
    /\ targets = [m \in Messages |-> {}]
    /\ sub = [s \in Subscribers |-> "new"]
    /\ wants = [s \in Subscribers |-> {}]
    /\ channel = [s \in Subscribers |-> <<>>]
    /\ got = [s \in Subscribers |-> <<>>]
    /\ forgotten = [s \in Subscribers |-> {}]
    /\ skipped = [s \in Subscribers |-> {}]

Elements(q) == {q[i] : i \in DOMAIN q}

About(m) == IF m \in Handlers THEN id[m] ELSE CallerId[m]

\* Where the goroutine of the event is in the code that logs it.
MayLog(m) == m \in Handlers => pc[m] = "running"

\* The publisher's lock is not held for reading.
NoReaders == \A m \in Messages : stage[m] # "sending"
-----------------------------------------------------------------------------
\* PublishMessage: the event is stored, in place of the oldest if there are too many.
Store(m) ==
    /\ stage[m] = "none" /\ MayLog(m) /\ mu = None
    /\ events' = Append(IF Len(events) = Limit THEN Tail(events) ELSE events, m)
    /\ stage' = [stage EXCEPT ![m] = "stored"]
    /\ UNCHANGED <<queueVars, mu, targets, subscriber, channel, got, skipped>>

\* Publish: a goroutine is started for every subscriber.
Publish(m) ==
    LET subscribed == {s \in Subscribers : sub[s] \in {"subscribed", "leaving"}} IN
    /\ stage[m] = "stored"
    /\ targets' = [targets EXCEPT ![m] = subscribed]
    /\ stage' = [stage EXCEPT ![m] = IF subscribed = {} THEN "published" ELSE "sending"]
    /\ UNCHANGED <<queueVars, events, mu, subscriber, channel, got, skipped>>

Sent(m, s) == targets' = [targets EXCEPT ![m] = @ \ {s}]

\* sendTopic: the subscriber did not ask for it, or has room for it.
Send(m, s) ==
    /\ s \in targets[m]
    /\ IF About(m) \in wants[s]
         THEN /\ Len(channel[s]) < Buffer
              /\ channel' = [channel EXCEPT ![s] = Append(@, m)]
         ELSE UNCHANGED channel
    /\ Sent(m, s)
    /\ UNCHANGED <<queueVars, events, mu, stage, subscriber, got, skipped>>

\* Mutant: the sender waits for the subscriber.
SendBlocks(m, s) == FALSE /\ UNCHANGED vars

\* The time limit is over; a select that finds both ready takes either.
SendTimesOut(m, s) ==
    /\ s \in targets[m] /\ About(m) \in wants[s]
    /\ skipped' = [skipped EXCEPT ![s] = @ \cup {m}]
    /\ Sent(m, s)
    /\ UNCHANGED <<queueVars, events, mu, stage, subscriber, channel, got>>

\* wg.Wait() returns.
Published(m) ==
    /\ stage[m] = "sending" /\ targets[m] = {}
    /\ stage' = [stage EXCEPT ![m] = "published"]
    /\ UNCHANGED <<queueVars, events, mu, targets, subscriber, channel, got, skipped>>

\* Mutant: the handler does not wait for its event to be sent.
ReturnsEarly(h) == Return(h) /\ UNCHANGED <<publisher, subscriber, channel, got, skipped>>

\* LogContainerEvent returns, and the handler after it.
Returns(h) ==
    /\ stage[h] = "published"
    /\ Return(h)
    /\ UNCHANGED <<publisher, subscriber, channel, got, skipped>>
-----------------------------------------------------------------------------
\* loadBufferedEvents: those of the stored events that were asked for.
Buffered(want) ==
    LET buffered[k \in 0..Len(events)] ==
            IF k = 0 THEN <<>>
            ELSE IF About(events[k]) \in want THEN Append(buffered[k - 1], events[k])
            ELSE buffered[k - 1]
    IN  buffered[Len(events)]

Given(s, want) ==
    /\ wants' = [wants EXCEPT ![s] = want]
    /\ forgotten' = [forgotten EXCEPT
          ![s] = {m \in Messages : stage[m] # "none" /\ m \notin Elements(events)}]
    /\ got' = [got EXCEPT ![s] = Buffered(want)]

\* Mutant: the lock is released before the subscriber is added.
SubscribeUnlocked(s, want) ==
    /\ sub[s] = "new" /\ mu = None
    /\ sub' = [sub EXCEPT ![s] = "loads"]
    /\ Given(s, want)
    /\ UNCHANGED <<queueVars, events, mu, stage, targets, channel, skipped>>

\* SubscribeTopic: the stored events are read under the lock, which is kept
Subscribe(s, want) ==
    /\ sub[s] = "new" /\ mu = None
    /\ mu' = s
    /\ sub' = [sub EXCEPT ![s] = "loads"]
    /\ Given(s, want)
    /\ UNCHANGED <<queueVars, events, stage, targets, channel, skipped>>

\* until the publisher has added the subscriber.
Subscribed(s) ==
    /\ sub[s] = "loads" /\ NoReaders
    /\ sub' = [sub EXCEPT ![s] = "subscribed"]
    /\ mu' = None
    /\ UNCHANGED <<queueVars, events, stage, targets, wants, forgotten, channel, got, skipped>>

\* getEvents takes an event from the channel,
Receive(s) ==
    /\ sub[s] = "subscribed" /\ channel[s] # <<>>
    /\ got' = [got EXCEPT ![s] = Append(@, Head(channel[s]))]
    /\ channel' = [channel EXCEPT ![s] = Tail(@)]
    /\ UNCHANGED <<queueVars, publisher, subscriber, skipped>>

\* or its client leaves.
Leave(s) ==
    /\ sub[s] = "subscribed"
    /\ sub' = [sub EXCEPT ![s] = "leaving"]
    /\ UNCHANGED <<queueVars, publisher, wants, forgotten, channel, got, skipped>>

Left(s) ==
    /\ sub' = [sub EXCEPT ![s] = "gone"]
    /\ wants' = [wants EXCEPT ![s] = {}] /\ channel' = [channel EXCEPT ![s] = <<>>]
    /\ got' = [got EXCEPT ![s] = <<>>]
    /\ forgotten' = [forgotten EXCEPT ![s] = {}] /\ skipped' = [skipped EXCEPT ![s] = {}]
    /\ UNCHANGED <<queueVars, publisher>>

\* Evict: the channel is closed.
Evict(s) ==
    /\ sub[s] = "leaving" /\ NoReaders
    /\ Left(s)
-----------------------------------------------------------------------------
aside == <<publisher, subscriber, channel, got, skipped>>

Appends(h) == (\E d \in Ids : AppendHandler(h, d)) /\ UNCHANGED aside

\* The publisher's goroutines, whatever the subscribers do.
PublishStep(m) == \/ Publish(m) \/ Published(m)
                  \/ \E s \in Subscribers : Send(m, s) \/ SendTimesOut(m, s)

\* The goroutine of a handler.
HandlerStep(h) == \/ (Run(h) \/ Finish(h)) /\ UNCHANGED aside
                  \/ Store(h) \/ PublishStep(h) \/ Returns(h)

Next ==
    \/ \E h \in Handlers : Appends(h) \/ HandlerStep(h)
    \/ \E a \in Callers : Store(a) \/ PublishStep(a)
    \/ \E s \in Subscribers :
          \/ \E want \in Filters : Subscribe(s, want)
          \/ Subscribed(s) \/ Receive(s) \/ Leave(s) \/ Evict(s)

(***************************************************************************)
(* Goroutines run and timers fire; locks are granted.  Nothing makes a     *)
(* client read or leave, an event happen or a call be made.                *)
(***************************************************************************)
Fairness ==
    /\ \A h \in Handlers : WF_vars(HandlerStep(h))
    /\ \A a \in Callers : WF_vars(PublishStep(a))
    /\ \A s \in Subscribers : WF_vars(Subscribed(s) \/ Evict(s))

Spec == Init /\ [][Next]_vars /\ Fairness
-----------------------------------------------------------------------------
TypeOK ==
    /\ QueueTypeOK
    /\ events \in Seq(Messages) /\ Len(events) <= Limit
    /\ mu \in Subscribers \cup {None}
    /\ stage \in [Messages -> {"none", "stored", "sending", "published"}]
    /\ targets \in [Messages -> SUBSET Subscribers]
    /\ sub \in [Subscribers -> {"new", "loads", "subscribed", "leaving", "gone"}]
    /\ wants \in [Subscribers -> SUBSET Ids]
    /\ \A s \in Subscribers : /\ channel[s] \in Seq(Messages) /\ Len(channel[s]) <= Buffer
                              /\ got[s] \in Seq(Messages)
    /\ forgotten \in [Subscribers -> SUBSET Messages]
    /\ skipped \in [Subscribers -> SUBSET Messages]

\* All that a subscriber has received, or will by reading on.
Seen(s) == got[s] \o channel[s]

(***************************************************************************)
(* No event falls between the events of the past and those to come: one    *)
(* that was stored by now, and not forgotten when the client subscribed,   *)
(* was given to it, is in its channel, is still to be sent, or was skipped *)
(* for time.  SubscribeTopic reads the stored events and adds the          *)
(* subscriber under two locks, which PublishMessage takes one after the    *)
(* other.                                                                  *)
(***************************************************************************)
NoGap ==
    \A s \in Subscribers, m \in Messages :
        /\ sub[s] = "subscribed" /\ stage[m] # "none"
        /\ About(m) \in wants[s] /\ m \notin forgotten[s]
        => \/ m \in Elements(Seen(s)) \cup skipped[s]
           \/ stage[m] = "stored" \/ s \in targets[m]

(***************************************************************************)
(* No event is sent to a channel that was closed (sendTopic would panic).  *)
(***************************************************************************)
SentToOpen == \A m \in Messages : \A s \in targets[m] : sub[s] # "gone"

(***************************************************************************)
(* A client sees the events of containerd for one container in the order   *)
(* they came, the past included; one that was being sent while it          *)
(* subscribed it may see twice.                                            *)
(***************************************************************************)
Ordered ==
    \A s \in Subscribers : \A i, j \in DOMAIN Seen(s) :
        LET g == Seen(s)[i]
            h == Seen(s)[j]
        IN  i < j /\ {g, h} \subseteq Handlers /\ id[g] = id[h] => rank[g] <= rank[h]

\* The two together: what a client asked for reaches it, as long as it stays.
StreamKept == TypeOK /\ NoGap /\ SentToOpen

(***************************************************************************)
(* Every handler ends, and a client that leaves is let go, although        *)
(* clients that stay may never read.                                       *)
(***************************************************************************)
AllRun ==
    /\ \A h \in Handlers : pc[h] = "waiting" ~> pc[h] = "done"
    /\ \A s \in Subscribers : sub[s] = "leaving" ~> sub[s] = "gone"
=============================================================================
