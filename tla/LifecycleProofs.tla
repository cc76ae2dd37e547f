-------------------------- MODULE LifecycleProofs ---------------------------
(***************************************************************************)
(* The safety properties of Lifecycle, for any set of clients, any         *)
(* container and any number of calls, starts and exits.                    *)
(***************************************************************************)
EXTENDS Lifecycle, TLAPS, FiniteSetTheorems, SequenceTheorems

(***************************************************************************)
(* Control: the labels of each call, and the stacks it can be made with,   *)
(* which depend on the goroutine t and on the API call o it serves.        *)
(***************************************************************************)
WaitLabels == {"wait", "blocked"}
KillLabels == {"kill", "killSignal", "killRetry", "killWaited", "killDirect", "killDone"}
StopLabels == {"containerStop", "stop", "stopSignal", "stopRetry", "stopWaited", "stopKilled",
               "stopDone"}
RmLabels == {"rmCheck", "rmKilled", "rmStopped", "rmDead", "rmStorage", "rmRemoved", "rmWake", "rmEnd"}
StartLabels == {"validate", "start", "started", "startFailed", "restart", "restartSave",
                "restartClear", "restartStopped"}
OtherLabels == {"signal", "pause", "unpause"}
EventLabels == {"exit", "autoRemove", "handled"}
BackoffLabels == {"backoff", "restarted", "giveUp"}

\* The stacks of S below the return label r.
Pushed(r, S) == {<<r>> \o s : s \in S}

Serving(t, o, os) == t \in Clients /\ o \in os

StartStacks(t, o) == {s \in {<<"idle">>} : Serving(t, o, StartCalls)}
                        \cup {s \in {<<"restarted">>} : t = Restarter}

RmStacks(t, o) == {s \in {<<"idle">>} : Serving(t, o, {"rm", "rmForce"})}
                     \cup {s \in {<<"startFailed">> \o <<"idle">>} : Serving(t, o, StartCalls)}
                     \cup {s \in {<<"handled">>} : t = Monitor}

StopStacks(t, o) == Pushed("rmStopped", RmStacks(t, o))
                       \cup {s \in {<<"idle">>} : Serving(t, o, {"stop"})}
                       \cup {s \in {<<"restartStopped">> \o <<"idle">>} : Serving(t, o, StartCalls)}

KillStacks(t, o) == Pushed("rmKilled", RmStacks(t, o))
                       \cup Pushed("stopKilled", StopStacks(t, o))
                       \cup {s \in {<<"idle">>} : Serving(t, o, {"kill"})}

WaitStacks(t, o) ==
    Pushed("killRetry", KillStacks(t, o)) \cup Pushed("killWaited", KillStacks(t, o))
       \cup Pushed("killDone", KillStacks(t, o)) \cup Pushed("stopRetry", StopStacks(t, o))
       \cup Pushed("stopWaited", StopStacks(t, o)) \cup Pushed("stopDone", StopStacks(t, o))

OtherStacks(t, o) == {s \in {<<"idle">>} : Serving(t, o, {"signal", "pause", "unpause"})}

\* A goroutine t that serves o can be at l with the stack s.
At(t, o, l, s) ==
    \/ l \in WaitLabels /\ s \in WaitStacks(t, o)
    \/ l \in KillLabels /\ s \in KillStacks(t, o)
    \/ l \in StopLabels /\ s \in StopStacks(t, o)
    \/ l \in RmLabels \cup {"rm"} /\ s \in RmStacks(t, o)
    \/ l \in StartLabels /\ s \in StartStacks(t, o) /\ (t = Restarter => l \in {"start", "started"})
    \/ l \in OtherLabels /\ s \in OtherStacks(t, o)
    \/ l = "idle" /\ s = <<>>
    \/ l \in EventLabels /\ s = <<>> /\ t = Monitor
    \/ l \in BackoffLabels /\ s = <<>> /\ t = Restarter

ControlTypes ==
    /\ scenario \in Scenarios
    /\ pc \in [Threads -> Labels]
    /\ stack \in [Threads -> Seq(Labels)]
    /\ op \in [Threads -> AllOps \cup {"none"}]
    /\ err \in [Threads -> BOOLEAN]
    /\ saved \in [Threads -> BOOLEAN]
    /\ autoRemove \in BOOLEAN
    /\ woken \subseteq Blocked
    /\ held \subseteq Clients

ControlOK == \A t \in Threads : At(t, op[t], pc[t], stack[t])

(***************************************************************************)
(* AutoRemove, wherever it is kept, is the scenario's, and the Restarter   *)
(* runs only for a container with a policy: it never removes it.           *)
(***************************************************************************)
AutoRemoveOK ==
    /\ autoRemove \/ (\E t \in Threads : saved[t]) => scenario.AutoRemove
    /\ pc[Restarter] # "idle" => scenario.Policy # "no"

\* While a stop is to hold, no client serves a call that starts the container.
HeldOK ==
    /\ held # {} => \A u \in Clients : ~Serves(u, StartCalls)
    /\ \A t \in held : op[t] = "stop"

(***************************************************************************)
(* The container, its process and its events.                              *)
(***************************************************************************)
DataTypes ==
    /\ st \in States(Pids, scenario.ExitCodes \cup {0, 127, 128})
    /\ manual \in BOOLEAN /\ registered \in BOOLEAN
    /\ restartCount \in 0 .. starts
    /\ rm \in [canceled : BOOLEAN, active : BOOLEAN]
    /\ restart \in [canceled : BOOLEAN, code : scenario.ExitCodes \cup {0}]
    /\ lock \in Threads \cup {Free}
    /\ task \in [state : {"none", "running", "exited"}, pid : Pids, frozen : BOOLEAN,
                 signal : {"none", "term", "kill"}]
    /\ queue \in Seq([type : {"start", "exit", "paused", "resumed"}, pid : Pids,
                      code : scenario.ExitCodes \cup {0}])
    /\ starts \in Pids /\ calls \in 0 .. scenario.MaxCalls
    /\ pid \in [Threads -> Pids]

\* The event at the head of the queue has been handled, but for its removal.
Past == pc[Monitor] \notin {"idle", "exit"}
\* The events still to be handled.
Pending == IF Past THEN Tail(queue) ELSE queue

\* Where the lock is held, and what that excludes.
LockOK ==
    /\ \A t \in Threads : lock = t <=> pc[t] = "started"
    /\ lock # Free => /\ registered /\ ~st.Dead /\ ~st.RemovalInProgress
                      /\ st.Running => lock = Restarter
                      /\ pid[lock] = task.pid
    /\ ~registered => st.Dead
    /\ st.Dead => ~Alive

\* The container has a process, or the events of one.
Current == IF lock = Free THEN st.Pid ELSE pid[lock]
Busy == lock # Free \/ (st.Running /\ ~st.Restarting)

(***************************************************************************)
(* The events to come are those of the container's process, an exit is the *)
(* last of them, and a process that has exited left one.                   *)
(***************************************************************************)
EventsOK ==
    /\ Past => queue # <<>>
    /\ ~Busy => task = NoTask /\ Pending = <<>>
    /\ Busy => /\ task.state # "none" /\ task.pid = Current /\ task.pid # 0
               /\ restartCount < starts
               /\ \A i \in DOMAIN Pending :
                     /\ Pending[i].pid = Current
                     /\ Pending[i].type = "exit" => i = Len(Pending) /\ task.state = "exited"
               /\ task.state = "exited" /\ registered =>
                     Pending # <<>> /\ Pending[Len(Pending)].type = "exit"
    /\ lock # Free => Pending # <<>> /\ Pending[1].type = "start"
    /\ task.state = "exited" => ~task.frozen
    /\ pc[Monitor] = "exit" =>
          /\ lock = Free /\ st.Running /\ ~st.Restarting
          /\ Pending # <<>> /\ Pending[1].type = "exit"

\* The Restarter has a restart in hand.
Owned == \/ pc[Restarter] \in {"backoff", "start", "started", "giveUp"}
         \/ pc[Restarter] = "restarted" /\ err[Restarter]

RestartOK == /\ st.Restarting => st.Running /\ st.Pid = 0
             /\ st.Restarting <=> Owned

Flip(e) == e.type \in {"paused", "resumed"}
(***************************************************************************)
(* The last event of a pause or a resume says whether the process is       *)
(* frozen; when none is to come, the container does.                       *)
(***************************************************************************)
PauseOK ==
    registered =>
       /\ \A i \in DOMAIN Pending :
             Flip(Pending[i]) /\ (\A j \in DOMAIN Pending : Flip(Pending[j]) => j <= i)
                => (Pending[i].type = "paused" <=> task.frozen)
       /\ (\A i \in DOMAIN Pending : ~Flip(Pending[i])) /\ Busy /\ lock = Free /\ Alive
             => (st.Paused <=> task.frozen)
       /\ lock # Free => ~task.frozen /\ \A i \in DOMAIN Pending : ~Flip(Pending[i])
       /\ ~(Busy /\ lock = Free) => ~st.Paused

(***************************************************************************)
(* The goroutine that removes the container, and what one that removes or  *)
(* stops it knows.                                                         *)
(***************************************************************************)
RemovalOK ==
    /\ st.RemovalInProgress <=> \E t \in Threads : Removing(t)
    /\ \A t, u \in Threads : Removing(t) /\ Removing(u) => t = u
    /\ \A t \in Threads : pc[t] \in {"rmStorage", "rmRemoved", "rmWake"} => st.Dead

Guarded(t) == Removing(t) \/ t \in held

\* The restart policy does not bring the container back.
Final == rm.canceled \/ ~st.Running
Over == ~Alive /\ ~st.Restarting /\ Final

Knows(t) ==
    /\ pc[t] \in {"wait", "blocked", "killRetry", "killWaited", "killDirect", "stopRetry",
                  "stopWaited", "stopKilled"} => Final
    /\ pc[t] \in {"killRetry", "killWaited", "stopRetry", "stopWaited", "stopKilled",
                  "rmKilled", "rmStopped", "idle"} /\ ~err[t] => Over
    /\ pc[t] \in {"killDone", "stopDone", "rmDead", "rmStorage", "rmRemoved", "rmWake"} => Over
    /\ t \in woken => Over
    /\ pc[t] = "killDirect" => ~st.Restarting /\ (Alive => pid[t] = task.pid)

StopOK == \A t \in Threads : Guarded(t) => Knows(t)

IInv == /\ ControlTypes /\ ControlOK /\ AutoRemoveOK /\ HeldOK
        /\ DataTypes /\ LockOK /\ EventsOK /\ RestartOK /\ PauseOK
        /\ RemovalOK /\ StopOK
-----------------------------------------------------------------------------
\* What a call pushes is what a return pops.
LEMMA PushPop ==
    ASSUME NEW S, NEW r \in S, NEW s \in Seq(S)
    PROVE  /\ <<r>> \o s \in Seq(S) /\ <<r>> \o s # <<>>
           /\ Head(<<r>> \o s) = r /\ Tail(<<r>> \o s) = s
<1>1. <<r>> \in Seq(S) /\ Len(<<r>>) = 1
  OBVIOUS
<1>2. <<r>> \o s \in Seq(S) /\ Len(<<r>> \o s) = 1 + Len(s)
  BY <1>1, ConcatProperties
<1>3. (<<r>> \o s)[1] = r
  BY <1>1, ConcatProperties, LenProperties
<1>4. Tail(<<r>> \o s) = s
  BY <1>1, <1>2, ConcatProperties, LenProperties
<1> QED
  BY <1>2, <1>3, <1>4, LenProperties

\* The stacks are sequences of labels, and none is empty.
LEMMA StackTypes ==
    ASSUME NEW t, NEW o
    PROVE  \A S \in {StartStacks(t, o), RmStacks(t, o), StopStacks(t, o), KillStacks(t, o),
                     WaitStacks(t, o), OtherStacks(t, o)} :
              \A s \in S : s \in Seq(Labels) /\ s # <<>>
<1> DEFINE Good == Seq(Labels) \ {<<>>}
<1>1. /\ <<"idle">> \in Good /\ <<"restarted">> \in Good /\ <<"handled">> \in Good
  BY DEF Labels
<1>2. ASSUME NEW r \in Labels, NEW s \in Good PROVE <<r>> \o s \in Good
  BY PushPop
<1>3. /\ <<"startFailed">> \o <<"idle">> \in Good
      /\ <<"restartStopped">> \o <<"idle">> \in Good
  BY <1>1, <1>2 DEF Labels
<1> HIDE DEF Good
<1>4. StartStacks(t, o) \subseteq Good /\ RmStacks(t, o) \subseteq Good
      /\ OtherStacks(t, o) \subseteq Good
  BY <1>1, <1>3, Zenon DEF StartStacks, RmStacks, OtherStacks
<1>5. {"rmStopped", "rmKilled", "stopKilled", "killRetry", "killWaited", "killDone", "stopRetry",
       "stopWaited", "stopDone"} \subseteq Labels
  BY DEF Labels
<1>6. StopStacks(t, o) \subseteq Good
  BY <1>1, <1>2, <1>3, <1>4, <1>5, Zenon DEF StopStacks, Pushed
<1>7. KillStacks(t, o) \subseteq Good
  BY <1>1, <1>2, <1>4, <1>5, <1>6, Zenon DEF KillStacks, Pushed
<1>8. WaitStacks(t, o) \subseteq Good
  BY <1>2, <1>5, <1>6, <1>7, Zenon DEF WaitStacks, Pushed
<1> QED
  BY <1>4, <1>6, <1>7, <1>8 DEF Good

\* A call that ends leaves a stack its caller can have.
LEMMA Pops ==
    ASSUME NEW t \in Threads, NEW o, NEW l \in Labels, NEW s \in Seq(Labels),
           At(t, o, l, s), s # <<>>
    PROVE  /\ Head(s) \in Labels /\ Tail(s) \in Seq(Labels)
           /\ s = <<Head(s)>> \o Tail(s)
           /\ At(t, o, Head(s), Tail(s))
           /\ l \in WaitLabels => Head(s) \in {"killRetry", "killWaited", "killDone", "stopRetry",
                                               "stopWaited", "stopDone"}
           /\ l \in KillLabels => Head(s) \in {"idle", "stopKilled", "rmKilled"}
           /\ l \in StopLabels => Head(s) \in {"idle", "restartStopped", "rmStopped"}
           /\ l \in RmLabels \cup {"rm"} => Head(s) \in {"idle", "handled", "startFailed"}
           /\ l \in StartLabels => Head(s) = IF t = Restarter THEN "restarted" ELSE "idle"
           /\ l \in OtherLabels => Head(s) = "idle"
           /\ Head(s) = "idle" => t \in Clients
<1> DEFINE WaitRets == {"killRetry", "killWaited", "killDone", "stopRetry", "stopWaited", "stopDone"}
           Goal == /\ Head(s) \in Labels /\ Tail(s) \in Seq(Labels)
                   /\ s = <<Head(s)>> \o Tail(s)
<1>p. ASSUME NEW r \in Labels, NEW s0 \in Seq(Labels), s = <<r>> \o s0
      PROVE  Goal /\ Head(s) = r /\ Tail(s) = s0
  BY <1>p, PushPop, SMT
<1>w. CASE l \in WaitLabels
  <2>1. s \in WaitStacks(t, o)
    BY <1>w, SMT DEF At, WaitLabels, KillLabels, StopLabels, RmLabels, StartLabels, OtherLabels,
                EventLabels, BackoffLabels
  <2>2. CASE \E r \in {"killRetry", "killWaited", "killDone"} : \E s0 \in KillStacks(t, o) : s = <<r>> \o s0
    <3>1. PICK r \in {"killRetry", "killWaited", "killDone"}, s0 \in KillStacks(t, o) : s = <<r>> \o s0
      BY <2>2
    <3>2. r \in Labels /\ s0 \in Seq(Labels)
      BY StackTypes DEF Labels
    <3>3. Goal /\ Head(s) = r /\ Tail(s) = s0
      BY <3>1, <3>2, <1>p
    <3> QED BY <3>3, <1>w DEF At, WaitLabels, KillLabels, StopLabels, RmLabels, StartLabels,
          OtherLabels
  <2>3. CASE \E r \in {"stopRetry", "stopWaited", "stopDone"} : \E s0 \in StopStacks(t, o) : s = <<r>> \o s0
    <3>1. PICK r \in {"stopRetry", "stopWaited", "stopDone"}, s0 \in StopStacks(t, o) : s = <<r>> \o s0
      BY <2>3
    <3>2. r \in Labels /\ s0 \in Seq(Labels)
      BY StackTypes DEF Labels
    <3>3. Goal /\ Head(s) = r /\ Tail(s) = s0
      BY <3>1, <3>2, <1>p
    <3> QED BY <3>3, <1>w DEF At, WaitLabels, KillLabels, StopLabels, RmLabels, StartLabels,
          OtherLabels
  <2>4. \/ \E r \in {"killRetry", "killWaited", "killDone"} : \E s0 \in KillStacks(t, o) : s = <<r>> \o s0
        \/ \E r \in {"stopRetry", "stopWaited", "stopDone"} : \E s0 \in StopStacks(t, o) : s = <<r>> \o s0
    BY <2>1, Zenon DEF WaitStacks, Pushed
  <2> QED BY <2>2, <2>3, <2>4
<1>k. CASE l \in KillLabels
  <2>1. s \in KillStacks(t, o)
    BY <1>k, SMT DEF At, WaitLabels, KillLabels, StopLabels, RmLabels, StartLabels, OtherLabels,
                EventLabels, BackoffLabels
  <2>2. ASSUME NEW s0 \in RmStacks(t, o), s = <<"rmKilled">> \o s0
        PROVE  Goal /\ Head(s) = "rmKilled" /\ Tail(s) \in RmStacks(t, o)
    <3>1. "rmKilled" \in Labels /\ s0 \in Seq(Labels)
      BY StackTypes DEF Labels
    <3>2. Goal /\ Head(s) = "rmKilled" /\ Tail(s) = s0
      BY <3>1, <2>2, <1>p
    <3> QED BY <3>2
  <2>3. ASSUME NEW s0 \in StopStacks(t, o), s = <<"stopKilled">> \o s0
        PROVE  Goal /\ Head(s) = "stopKilled" /\ Tail(s) \in StopStacks(t, o)
    <3>1. "stopKilled" \in Labels /\ s0 \in Seq(Labels)
      BY StackTypes DEF Labels
    <3>2. Goal /\ Head(s) = "stopKilled" /\ Tail(s) = s0
      BY <3>1, <2>3, <1>p
    <3> QED BY <3>2
  <2>4. ASSUME s = <<"idle">>
        PROVE  Goal /\ Head(s) = "idle" /\ Tail(s) = <<>>
    BY <2>4 DEF Labels
  <2>5. \/ Goal /\ Head(s) = "rmKilled" /\ Tail(s) \in RmStacks(t, o)
        \/ Goal /\ Head(s) = "stopKilled" /\ Tail(s) \in StopStacks(t, o)
        \/ Goal /\ Head(s) = "idle" /\ Tail(s) = <<>> /\ t \in Clients
    BY <2>1, <2>2, <2>3, <2>4, Zenon DEF KillStacks, Pushed, Serving
  <2> QED BY <2>5, <1>k DEF At, WaitLabels, KillLabels, StopLabels, RmLabels, StartLabels,
        OtherLabels
<1>s. CASE l \in StopLabels
  <2>1. s \in StopStacks(t, o)
    BY <1>s, SMT DEF At, WaitLabels, KillLabels, StopLabels, RmLabels, StartLabels, OtherLabels,
                EventLabels, BackoffLabels
  <2>2. ASSUME NEW s0 \in RmStacks(t, o), s = <<"rmStopped">> \o s0
        PROVE  Goal /\ Head(s) = "rmStopped" /\ Tail(s) \in RmStacks(t, o)
    <3>1. "rmStopped" \in Labels /\ s0 \in Seq(Labels)
      BY StackTypes DEF Labels
    <3>2. Goal /\ Head(s) = "rmStopped" /\ Tail(s) = s0
      BY <3>1, <2>2, <1>p
    <3> QED BY <3>2
  <2>3. ASSUME s = <<"restartStopped">> \o <<"idle">>
        PROVE  Goal /\ Head(s) = "restartStopped" /\ Tail(s) = <<"idle">>
    <3>1. "restartStopped" \in Labels /\ <<"idle">> \in Seq(Labels)
      BY DEF Labels
    <3> QED BY <3>1, <2>3, <1>p
  <2>4. ASSUME s = <<"idle">>
        PROVE  Goal /\ Head(s) = "idle" /\ Tail(s) = <<>>
    BY <2>4 DEF Labels
  <2>5. \/ Goal /\ Head(s) = "rmStopped" /\ Tail(s) \in RmStacks(t, o)
        \/ Goal /\ Head(s) = "restartStopped" /\ Tail(s) = <<"idle">> /\ Serving(t, o, StartCalls)
        \/ Goal /\ Head(s) = "idle" /\ Tail(s) = <<>> /\ Serving(t, o, {"stop"})
    BY <2>1, <2>2, <2>3, <2>4, Zenon DEF StopStacks, Pushed
  <2>6. Serving(t, o, StartCalls) => <<"idle">> \in StartStacks(t, o) /\ t # Restarter
    BY LifecycleAssumption DEF StartStacks, Serving
  <2> QED BY <2>5, <2>6, <1>s DEF Serving, At, WaitLabels, KillLabels, StopLabels, RmLabels,
        StartLabels, OtherLabels
<1>r. CASE l \in RmLabels \cup {"rm"}
  <2>1. s \in RmStacks(t, o)
    BY <1>r, SMT DEF At, WaitLabels, KillLabels, StopLabels, RmLabels, StartLabels, OtherLabels,
                EventLabels, BackoffLabels
  <2>3. ASSUME s = <<"startFailed">> \o <<"idle">>
        PROVE  Goal /\ Head(s) = "startFailed" /\ Tail(s) = <<"idle">>
    <3>1. "startFailed" \in Labels /\ <<"idle">> \in Seq(Labels)
      BY DEF Labels
    <3> QED BY <3>1, <2>3, <1>p
  <2>4. ASSUME NEW r \in {"idle", "handled"}, s = <<r>>
        PROVE  Goal /\ Head(s) = r /\ Tail(s) = <<>>
    BY <2>4 DEF Labels
  <2>5. \/ Goal /\ Head(s) = "handled" /\ Tail(s) = <<>> /\ t = Monitor
        \/ Goal /\ Head(s) = "startFailed" /\ Tail(s) = <<"idle">> /\ Serving(t, o, StartCalls)
        \/ Goal /\ Head(s) = "idle" /\ Tail(s) = <<>> /\ Serving(t, o, {"rm", "rmForce"})
    BY <2>1, <2>3, <2>4, Zenon DEF RmStacks
  <2>6. Serving(t, o, StartCalls) => <<"idle">> \in StartStacks(t, o) /\ t # Restarter
    BY LifecycleAssumption DEF StartStacks, Serving
  <2> QED BY <2>5, <2>6, <1>r DEF Serving, At, WaitLabels, KillLabels, StopLabels, RmLabels,
        StartLabels, OtherLabels,
               EventLabels
<1>t. CASE l \in StartLabels
  <2>1. s \in StartStacks(t, o)
    BY <1>t, SMT DEF At, WaitLabels, KillLabels, StopLabels, RmLabels, StartLabels, OtherLabels,
                EventLabels, BackoffLabels
  <2>4. ASSUME NEW r \in {"idle", "restarted"}, s = <<r>>
        PROVE  Goal /\ Head(s) = r /\ Tail(s) = <<>>
    BY <2>4 DEF Labels
  <2>5. \/ Goal /\ Head(s) = "restarted" /\ Tail(s) = <<>> /\ t = Restarter
        \/ Goal /\ Head(s) = "idle" /\ Tail(s) = <<>> /\ t \in Clients
    BY <2>1, <2>4, Zenon DEF StartStacks, Serving
  <2> QED BY <2>5, <1>t, LifecycleAssumption DEF At, WaitLabels, KillLabels, StopLabels,
        RmLabels, StartLabels,
             OtherLabels, BackoffLabels
<1>o. CASE l \in OtherLabels
  <2>1. s = <<"idle">> /\ t \in Clients
    BY <1>o, SMT DEF At, WaitLabels, KillLabels, StopLabels, RmLabels, StartLabels, OtherLabels,
                EventLabels, BackoffLabels, OtherStacks, Serving
  <2>2. Goal /\ Head(s) = "idle" /\ Tail(s) = <<>>
    BY <2>1 DEF Labels
  <2> QED BY <2>1, <2>2, <1>o DEF At, WaitLabels, KillLabels, StopLabels, RmLabels, StartLabels,
        OtherLabels
<1> QED
  BY <1>w, <1>k, <1>s, <1>r, <1>t, <1>o DEF At

\* The stack of each call.
LEMMA Stacked ==
    ASSUME NEW t, NEW o, NEW l, NEW s, At(t, o, l, s)
    PROVE  /\ l \in WaitLabels => s \in WaitStacks(t, o)
           /\ l \in KillLabels => s \in KillStacks(t, o)
           /\ l \in StopLabels => s \in StopStacks(t, o)
           /\ l \in RmLabels \cup {"rm"} => s \in RmStacks(t, o)
           /\ l \in StartLabels => /\ s \in StartStacks(t, o)
                                   /\ t = Restarter => l \in {"start", "started"}
           /\ l \in OtherLabels => s \in OtherStacks(t, o)
           /\ l \in EventLabels => s = <<>> /\ t = Monitor
           /\ l \in BackoffLabels => s = <<>> /\ t = Restarter
           /\ l = "idle" => s = <<>>
  BY SMT DEF At, WaitLabels, KillLabels, StopLabels, RmLabels, StartLabels, OtherLabels,
             EventLabels, BackoffLabels

Has(s) == \E l \in RmLabels : \E i \in DOMAIN s : s[i] = l
Removes(l, s) == l \in RmLabels \/ Has(s)

\* A removal is on a stack after a push if it was, or if it is what was pushed.
LEMMA HasPush ==
    ASSUME NEW r \in Labels, NEW s \in Seq(Labels)
    PROVE  Has(<<r>> \o s) <=> r \in RmLabels \/ Has(s)
<1>1. <<r>> \in Seq(Labels) /\ Len(<<r>>) = 1 /\ <<r>>[1] = r
  OBVIOUS
<1>2. Len(<<r>> \o s) = 1 + Len(s) /\ (<<r>> \o s)[1] = r
      /\ \A i \in 1 .. Len(s) : (<<r>> \o s)[i + 1] = s[i]
  BY <1>1, ConcatProperties, LenProperties
<1>3. DOMAIN (<<r>> \o s) = 1 .. (1 + Len(s)) /\ DOMAIN s = 1 .. Len(s) /\ Len(s) \in Nat
  BY <1>1, <1>2, ConcatProperties, LenProperties
<1>4. Has(s) => Has(<<r>> \o s)
  <2> HAVE Has(s)
  <2>1. PICK i \in 1 .. Len(s) : s[i] \in RmLabels
    BY <1>3 DEF Has
  <2>2. (<<r>> \o s)[i + 1] \in RmLabels /\ i + 1 \in 1 .. (1 + Len(s))
    BY <2>1, <1>2, <1>3
  <2> QED BY <2>2, <1>3 DEF Has
<1>5. r \in RmLabels => Has(<<r>> \o s)
  <2>1. 1 \in 1 .. (1 + Len(s))
    BY <1>3
  <2> QED BY <2>1, <1>2, <1>3 DEF Has
<1>6. Has(<<r>> \o s) /\ r \notin RmLabels => Has(s)
  <2> HAVE Has(<<r>> \o s) /\ r \notin RmLabels
  <2>1. PICK i \in 1 .. (1 + Len(s)) : (<<r>> \o s)[i] \in RmLabels
    BY <1>3 DEF Has
  <2>2. i # 1 /\ i - 1 \in 1 .. Len(s) /\ (i - 1) + 1 = i
    BY <2>1, <1>2, <1>3
  <2>3. s[i - 1] \in RmLabels
    BY <2>1, <2>2, <1>2
  <2> QED BY <2>2, <2>3, <1>3 DEF Has
<1> QED BY <1>4, <1>5, <1>6

\* A goroutine removes the container by its label or by a return label of its stack.
LEMMA RemovingIs ==
    ASSUME NEW t
    PROVE  Removing(t) <=> Removes(pc[t], stack[t])
  BY DEF Removing, Removes, Has, RmLabels

\* The stacks below a removal have no label of one.
LEMMA RmStackFree ==
    ASSUME NEW t, NEW o, NEW s \in RmStacks(t, o)
    PROVE  ~Has(s)
<1>1. s \in {<<"idle">>, <<"startFailed">> \o <<"idle">>, <<"handled">>}
  BY DEF RmStacks
<1>2. ASSUME NEW r \in {"idle", "handled"} PROVE ~Has(<<r>>)
  <2>1. DOMAIN <<r>> = 1 .. 1 /\ <<r>>[1] = r
    OBVIOUS
  <2> QED BY <2>1 DEF Has, RmLabels
<1>3. ~Has(<<"startFailed">> \o <<"idle">>)
  <2>1. "startFailed" \in Labels /\ <<"idle">> \in Seq(Labels) /\ "startFailed" \notin RmLabels
    BY DEF Labels, RmLabels
  <2> QED BY <2>1, <1>2, HasPush
<1> QED BY <1>1, <1>2, <1>3
-----------------------------------------------------------------------------
(***************************************************************************)
(* A step of the goroutine t leaves the others where they are, and goes to *)
(* a place t can be at.                                                    *)
(***************************************************************************)
Moves(t) ==
    /\ err' \in [Threads -> BOOLEAN]
    /\ \A u \in Threads \ {t} : err'[u] = err[u]
    /\ \E l \in Labels, s \in Seq(Labels) :
          /\ pc' = [pc EXCEPT ![t] = l]
          /\ stack' = [stack EXCEPT ![t] = s]
          /\ At(t, op[t], l, s)

\* ... and does not begin or end a removal.
Keeps(t) == Removes(pc'[t], stack'[t]) <=> Removes(pc[t], stack[t])

SameCall(k, l) == \E C \in {WaitLabels, KillLabels, StopLabels, RmLabels, StartLabels} :
                     k \in C /\ l \in C

\* A step within a call: the stack stays, and so does being in a removal.
LEMMA Jumps ==
    ASSUME ControlTypes, ControlOK, NEW t \in Threads, NEW l \in Labels,
           pc' = [pc EXCEPT ![t] = l], stack' = stack,
           err' = err \/ (\E e \in BOOLEAN : err' = [err EXCEPT ![t] = e]),
           SameCall(pc[t], l), t = Restarter => l \in {"start", "started"}
    PROVE  Moves(t) /\ Keeps(t) /\ pc'[t] = l
<1> DEFINE s == stack[t]
<1>1. s \in Seq(Labels) /\ stack' = [stack EXCEPT ![t] = s] /\ pc'[t] = l /\ stack'[t] = s
  BY DEF ControlTypes
<1>2. At(t, op[t], pc[t], s)
  BY DEF ControlOK
<1>3. At(t, op[t], l, s)
  BY <1>2, Stacked DEF SameCall, At
<1>4. pc[t] \in RmLabels <=> l \in RmLabels
  BY DEF SameCall, WaitLabels, KillLabels, StopLabels, RmLabels, StartLabels
<1>5. err' \in [Threads -> BOOLEAN] /\ \A u \in Threads \ {t} : err'[u] = err[u]
  BY DEF ControlTypes
<1>6. Keeps(t)
  BY <1>1, <1>4 DEF Keeps, Removes
<1> QED BY <1>1, <1>3, <1>5, <1>6 DEF Moves

\* A step that makes a call: the caller's label is pushed, and being in a removal stays.
LEMMA Calls ==
    ASSUME ControlTypes, ControlOK, NEW t \in Threads, t # Restarter, NEW l, NEW r,
           Call(t, l, r), SameCall(pc[t], r),
           \/ l = "wait" /\ r \in {"killRetry", "killWaited", "killDone", "stopRetry", "stopWaited",
                                   "stopDone"}
           \/ l = "kill" /\ r \in {"stopKilled", "rmKilled"}
           \/ l = "stop" /\ r \in {"restartStopped", "rmStopped"}
           \/ l = "rm" /\ r = "startFailed"
    PROVE  Moves(t) /\ Keeps(t) /\ pc'[t] = l
<1> DEFINE s == stack[t]
<1>1. s \in Seq(Labels) /\ l \in Labels /\ r \in Labels
  BY DEF ControlTypes, Labels
<1>2. /\ <<r>> \o s \in Seq(Labels) /\ stack' = [stack EXCEPT ![t] = <<r>> \o s]
      /\ pc' = [pc EXCEPT ![t] = l] /\ pc'[t] = l /\ stack'[t] = <<r>> \o s
  BY <1>1, PushPop DEF Call, ControlTypes
<1>3. At(t, op[t], pc[t], s)
  BY DEF ControlOK
<1>4. /\ r \in KillLabels => s \in KillStacks(t, op[t])
      /\ r \in StopLabels => s \in StopStacks(t, op[t])
      /\ r \in RmLabels => s \in RmStacks(t, op[t])
      /\ r \in StartLabels => s \in StartStacks(t, op[t])
  BY <1>3, Stacked DEF SameCall, WaitLabels, KillLabels, StopLabels, RmLabels, StartLabels
<1>5. ASSUME l = "wait" PROVE At(t, op[t], l, <<r>> \o s)
  <2>1. CASE r \in {"killRetry", "killWaited", "killDone"}
    <3>1. s \in KillStacks(t, op[t])
      BY <2>1, <1>4 DEF KillLabels
    <3>2. <<r>> \o s \in WaitStacks(t, op[t])
      BY <3>1, <2>1 DEF WaitStacks, Pushed
    <3> QED BY <3>2, <1>5 DEF At, WaitLabels
  <2>2. CASE r \in {"stopRetry", "stopWaited", "stopDone"}
    <3>1. s \in StopStacks(t, op[t])
      BY <2>2, <1>4 DEF StopLabels
    <3>2. <<r>> \o s \in WaitStacks(t, op[t])
      BY <3>1, <2>2 DEF WaitStacks, Pushed
    <3> QED BY <3>2, <1>5 DEF At, WaitLabels
  <2> QED BY <2>1, <2>2, <1>5
<1>6. ASSUME l = "kill" PROVE At(t, op[t], l, <<r>> \o s)
  <2>1. <<r>> \o s \in KillStacks(t, op[t])
    BY <1>4, <1>6 DEF KillStacks, Pushed, StopLabels, RmLabels
  <2> QED BY <2>1, <1>6 DEF At, KillLabels
<1>7. ASSUME l \in {"stop", "rm"} /\ r \in StartLabels PROVE At(t, op[t], l, <<r>> \o s)
  <2>1. s = <<"idle">> /\ Serving(t, op[t], StartCalls)
    BY <1>4, <1>7 DEF StartStacks
  <2>3. <<r>> \o s \in IF l = "stop" THEN StopStacks(t, op[t]) ELSE RmStacks(t, op[t])
    BY <1>7, <2>1 DEF StopStacks, Pushed, RmStacks, StartLabels
  <2> QED BY <2>3, <1>7 DEF At, StopLabels
<1>8. ASSUME l = "stop" /\ r = "rmStopped" PROVE At(t, op[t], l, <<r>> \o s)
  <2>1. <<r>> \o s \in StopStacks(t, op[t])
    BY <1>4, <1>8 DEF StopStacks, Pushed, RmLabels
  <2> QED BY <2>1, <1>8 DEF At, StopLabels
<1>9. At(t, op[t], l, <<r>> \o s)
  BY <1>5, <1>6, <1>7, <1>8 DEF StartLabels
<1>10. (pc[t] \in RmLabels <=> r \in RmLabels) /\ l \notin RmLabels
  BY DEF SameCall, WaitLabels, KillLabels, StopLabels, RmLabels, StartLabels
<1>11. Keeps(t)
  BY <1>1, <1>2, <1>10, HasPush DEF Keeps, Removes
<1>12. err' \in [Threads -> BOOLEAN] /\ \A u \in Threads \ {t} : err'[u] = err[u]
  BY DEF ControlTypes, Call
<1> QED BY <1>1, <1>2, <1>9, <1>11, <1>12 DEF Moves

\* A step that ends a call: the goroutine is back at the label its caller pushed.
LEMMA Returns ==
    ASSUME ControlTypes, ControlOK, NEW t \in Threads, NEW e \in BOOLEAN, Return(t, e),
           pc[t] \notin {"idle"} \cup EventLabels \cup BackoffLabels
    PROVE  /\ Moves(t)
           /\ pc[t] \notin RmLabels => Keeps(t)
           /\ stack[t] \in Seq(Labels) /\ stack[t] # <<>>
           /\ pc'[t] = Head(stack[t]) /\ err'[t] = e
<1> DEFINE s == stack[t]
<1>1. s \in Seq(Labels) /\ pc[t] \in Labels
  BY DEF ControlTypes
<1>2. At(t, op[t], pc[t], s)
  BY DEF ControlOK
<1>3. s # <<>>
  BY <1>2, StackTypes DEF At
<1>4. /\ pc' = [pc EXCEPT ![t] = Head(s)] /\ stack' = [stack EXCEPT ![t] = Tail(s)]
      /\ err' = [err EXCEPT ![t] = e]
  BY DEF Return
<1>5. /\ Head(s) \in Labels /\ Tail(s) \in Seq(Labels) /\ s = <<Head(s)>> \o Tail(s)
      /\ At(t, op[t], Head(s), Tail(s))
  BY <1>1, <1>2, <1>3, Pops
<1>6. pc'[t] = Head(s) /\ stack'[t] = Tail(s)
  BY <1>4 DEF ControlTypes
<1>7. pc[t] \notin RmLabels => Keeps(t)
  <2>1. Has(s) <=> Head(s) \in RmLabels \/ Has(Tail(s))
    BY <1>5, HasPush
  <2> QED BY <2>1, <1>6 DEF Keeps, Removes
<1>8. err' \in [Threads -> BOOLEAN] /\ err'[t] = e /\ \A u \in Threads \ {t} : err'[u] = err[u]
  BY <1>4 DEF ControlTypes
<1> QED BY <1>1, <1>3, <1>4, <1>5, <1>6, <1>7, <1>8 DEF Moves

\* Where each goroutine can be.
LEMMA Places ==
    ASSUME NEW t \in Threads, NEW o, NEW l, NEW s, At(t, o, l, s)
    PROVE  /\ t = Restarter => l \in {"idle", "start", "started"} \cup BackoffLabels
           /\ t = Monitor => l \notin StartLabels \cup OtherLabels \cup BackoffLabels
           /\ t \in Clients => l \notin EventLabels \cup BackoffLabels
           /\ t \in Clients /\ l \in StartLabels => o \in StartCalls
           /\ t \in Clients /\ l \in RmLabels \cup {"rm"} => o # "stop"
<1>1. ASSUME t = Restarter
      PROVE  /\ RmStacks(t, o) = {} /\ StopStacks(t, o) = {} /\ KillStacks(t, o) = {}
             /\ WaitStacks(t, o) = {} /\ OtherStacks(t, o) = {}
  <2>1. t \notin Clients /\ t # Monitor
    BY <1>1, LifecycleAssumption DEF Restarter, Monitor
  <2>2. RmStacks(t, o) = {} /\ OtherStacks(t, o) = {}
    BY <2>1 DEF RmStacks, OtherStacks, Serving
  <2>3. StopStacks(t, o) = {}
    BY <2>1, <2>2 DEF StopStacks, Pushed, Serving
  <2>4. KillStacks(t, o) = {}
    BY <2>1, <2>2, <2>3 DEF KillStacks, Pushed, Serving
  <2>5. WaitStacks(t, o) = {}
    BY <2>3, <2>4 DEF WaitStacks, Pushed
  <2> QED BY <2>2, <2>3, <2>4, <2>5
<1>2. t = Restarter => l \in {"idle", "start", "started"} \cup BackoffLabels
  BY <1>1 DEF At, BackoffLabels, StartLabels, Restarter, Monitor
<1>3. ASSUME t = Monitor PROVE l \notin StartLabels \cup OtherLabels \cup BackoffLabels
  <2>1. StartStacks(t, o) = {} /\ OtherStacks(t, o) = {} /\ t # Restarter
    BY <1>3, LifecycleAssumption DEF Restarter, Monitor, StartStacks, OtherStacks, Serving
  <2> QED BY <2>1, Stacked
<1>4. ASSUME t \in Clients
      PROVE  /\ l \notin EventLabels \cup BackoffLabels
             /\ l \in StartLabels => o \in StartCalls
             /\ l \in RmLabels \cup {"rm"} => o # "stop"
  <2>1. t # Monitor /\ t # Restarter
    BY <1>4, LifecycleAssumption
  <2>2. StartStacks(t, o) # {} => o \in StartCalls
    BY <2>1 DEF StartStacks, Serving
  <2>3. RmStacks(t, o) # {} => o # "stop"
    BY <2>1 DEF RmStacks, Serving, StartCalls
  <2> QED BY <2>1, <2>2, <2>3, Stacked
<1> QED BY <1>2, <1>3, <1>4

\* The container leaves the daemon, or its removal fails.
Forgets(t) == RmStorage(t) \/ RmRemoved(t)

(***************************************************************************)
(* Every step of a call moves its goroutine, and only Rm and RmEnd begin   *)
(* and end a removal.                                                      *)
(***************************************************************************)
LEMMA StepMoves ==
    ASSUME ControlTypes, ControlOK, AutoRemoveOK, st.Err \in BOOLEAN,
           NEW t \in Threads, Step(t)
    PROVE  /\ Moves(t)
           /\ Keeps(t) \/ Rm(t) \/ RmEnd(t)
           /\ pc[t] # "idle"
           /\ t = Restarter => pc[t] \in {"start", "started"}
           /\ t = Monitor => pc[t] \notin {"idle", "exit"} /\ pc'[t] \notin {"idle", "exit"}
           /\ pc'[t] = "started" => StartsTask(t)
           /\ pc'[t] = "rmStorage" => RmDead(t)
           /\ pc'[t] \in {"rmRemoved", "rmWake"} => Forgets(t)
<1> DEFINE Goal == /\ Moves(t)
                   /\ Keeps(t) \/ Rm(t) \/ RmEnd(t)
                   /\ pc[t] # "idle"
                   /\ t = Restarter => pc[t] \in {"start", "started"}
                   /\ t = Monitor => pc[t] \notin {"idle", "exit"} /\ pc'[t] \notin {"idle", "exit"}
                   /\ pc'[t] = "started" => StartsTask(t)
                   /\ pc'[t] = "rmStorage" => RmDead(t)
                   /\ pc'[t] \in {"rmRemoved", "rmWake"} => Forgets(t)
<1>a. At(t, op[t], pc[t], stack[t]) /\ err[t] \in BOOLEAN
  BY DEF ControlOK, ControlTypes
<1>b. t = Restarter /\ pc[t] \notin {"idle"} \cup BackoffLabels => pc[t] \in {"start", "started"}
  BY <1>a, Places
<1>c. t = Monitor => pc[t] \notin StartLabels
  BY <1>a, Places
<1> DEFINE InCall == pc[t] \notin {"idle"} \cup EventLabels \cup BackoffLabels
<1>j. ASSUME NEW l \in Labels, NEW e \in BOOLEAN,
             pc' = [pc EXCEPT ![t] = l], stack' = stack,
             err' = err \/ err' = [err EXCEPT ![t] = e],
             SameCall(pc[t], l), t = Restarter => l = "start", l # "started",
             l = "rmStorage" => RmDead(t), l \in {"rmRemoved", "rmWake"} => Forgets(t)
      PROVE  Goal
  <2>1. Moves(t) /\ Keeps(t) /\ pc'[t] = l
    BY <1>j, Jumps
  <2>2. pc[t] \notin {"idle"} \cup BackoffLabels /\ pc[t] # "exit" /\ l \notin {"idle", "exit"}
    BY <1>j DEF SameCall, BackoffLabels, WaitLabels, KillLabels, StopLabels, RmLabels, StartLabels
  <2> QED BY <2>1, <2>2, <1>b, <1>j
<1>g. ASSUME NEW l \in Labels, Goto(t, l), SameCall(pc[t], l), t = Restarter => l = "start",
             l # "started", l = "rmStorage" => RmDead(t), l \notin {"rmRemoved", "rmWake"}
      PROVE  Goal
  BY <1>j, <1>g DEF Goto
<1>k. ASSUME NEW l, NEW r, Call(t, l, r), SameCall(pc[t], r), t # Restarter,
             \/ l = "wait" /\ r \in {"killRetry", "killWaited", "killDone", "stopRetry",
                                     "stopWaited", "stopDone"}
             \/ l = "kill" /\ r \in {"stopKilled", "rmKilled"}
             \/ l = "stop" /\ r \in {"restartStopped", "rmStopped"}
             \/ l = "rm" /\ r = "startFailed"
      PROVE  Goal
  <2>1. Moves(t) /\ Keeps(t) /\ pc'[t] = l
    BY <1>k, Calls
  <2>2. pc[t] \notin {"idle", "exit"}
    BY <1>k DEF SameCall, WaitLabels, KillLabels, StopLabels, RmLabels, StartLabels
  <2> QED BY <2>1, <2>2, <1>k
<1>r. ASSUME NEW e \in BOOLEAN, Return(t, e), InCall, pc[t] \notin RmLabels \/ RmEnd(t)
      PROVE  Goal
  <2>1. /\ Moves(t)
        /\ Keeps(t) \/ RmEnd(t)
        /\ stack[t] \in Seq(Labels) /\ stack[t] # <<>> /\ pc'[t] = Head(stack[t])
    BY <1>r, Returns
  <2>2. pc[t] \in Labels
    BY DEF ControlTypes
  <2>3. LET s == stack[t] IN
           /\ Head(s) = "idle" => t \in Clients
           /\ pc[t] \in WaitLabels => Head(s) \in {"killRetry", "killWaited", "killDone",
                                                   "stopRetry", "stopWaited", "stopDone"}
           /\ pc[t] \in KillLabels => Head(s) \in {"idle", "stopKilled", "rmKilled"}
           /\ pc[t] \in StopLabels => Head(s) \in {"idle", "restartStopped", "rmStopped"}
           /\ pc[t] \in RmLabels \cup {"rm"} => Head(s) \in {"idle", "handled", "startFailed"}
           /\ pc[t] \in StartLabels => Head(s) = IF t = Restarter THEN "restarted" ELSE "idle"
           /\ pc[t] \in OtherLabels => Head(s) = "idle"
    BY <2>1, <2>2, <1>a, Pops
  <2>4. Head(stack[t]) \notin {"started", "exit", "rmStorage", "rmRemoved", "rmWake"}
    BY <2>3, <1>a, <1>r DEF At
  <2>5. t \in Clients => t # Monitor
    BY LifecycleAssumption
  <2>6. pc[t] \notin {"idle", "exit"}
    BY <1>r DEF EventLabels
  <2>7. t = Restarter => pc[t] \in {"start", "started"}
    BY <1>b, <1>r
  <2> QED BY <2>1, <2>3, <2>4, <2>5, <2>6, <2>7
<1> SUFFICES Goal
  OBVIOUS
<1> HIDE DEF Goal
<1> USE DEF SameCall, WaitLabels, KillLabels, StopLabels, RmLabels, StartLabels, OtherLabels,
            EventLabels, BackoffLabels, Labels
<1>1. CASE Validate(t)
  BY <1>1, <1>a, <1>b, <1>g, <1>r DEF Validate
<1>2. CASE StartRefused(t)
  BY <1>2, <1>a, <1>b, <1>r DEF StartRefused
<1>3. CASE StartFails(t)
  <2>1. pc[t] = "start"
    BY <1>3 DEF StartFails, Starts
  <2>2. scenario.AutoRemove => scenario.Policy = "no"
    BY LifecycleAssumption DEF ControlTypes
  <2>3. autoRemove => t # Restarter
    BY <2>1, <2>2 DEF AutoRemoveOK
  <2>4. IF autoRemove THEN Call(t, "rm", "startFailed") ELSE Return(t, TRUE)
    BY <1>3 DEF StartFails, Starts
  <2> QED BY <2>1, <2>3, <2>4, <1>k, <1>r
<1>4. CASE StartFailed(t)
  BY <1>4, <1>a, <1>b, <1>r DEF StartFailed
<1>5. CASE StartsTask(t)
  <2>1. pc[t] = "start" /\ pc' = [pc EXCEPT ![t] = "started"] /\ stack' = stack /\ err' = err
    BY <1>5 DEF StartsTask, Starts, Goto
  <2>2. Moves(t) /\ Keeps(t) /\ pc'[t] = "started"
    BY <2>1, Jumps
  <2> QED BY <2>1, <2>2, <1>5 DEF Goal
<1>6. CASE Started(t)
  BY <1>6, <1>a, <1>b, <1>r DEF Started
<1>7. CASE Wait(t)
  BY <1>7, <1>a, <1>b, <1>g, <1>r DEF Wait
<1>8. CASE Wakes(t)
  BY <1>8, <1>a, <1>b, <1>r DEF Wakes
<1>9. CASE TimesOut(t)
  BY <1>9, <1>a, <1>b, <1>r DEF TimesOut
<1>10. CASE ContainerSignal(t)
  BY <1>10, <1>a, <1>b, <1>r DEF ContainerSignal
<1>11. CASE Kill(t)
  BY <1>11, <1>a, <1>b, <1>g, <1>r DEF Kill
<1>12. CASE KillSignal(t)
  BY <1>12, <1>a, <1>b, <1>k DEF KillSignal
<1>13. CASE KillRetry(t)
  BY <1>13, <1>a, <1>b, <1>k, <1>r DEF KillRetry
<1>14. CASE KillWaited(t)
  BY <1>14, <1>a, <1>b, <1>g, <1>k DEF KillWaited
<1>15. CASE KillDirect(t)
  BY <1>15, <1>a, <1>b, <1>k, <1>r DEF KillDirect
<1>16. CASE KillDone(t)
  BY <1>16, <1>a, <1>b, <1>r DEF KillDone
<1>17. CASE ContainerStop(t)
  BY <1>17, <1>a, <1>b, <1>g, <1>r DEF ContainerStop
<1>18. CASE Stop(t)
  BY <1>18, <1>a, <1>b, <1>g, <1>r DEF Stop
<1>19. CASE StopSignal(t)
  BY <1>19, <1>a, <1>b, <1>k DEF StopSignal
<1>20. CASE StopRetry(t)
  BY <1>20, <1>a, <1>b, <1>k, <1>r DEF StopRetry
<1>21. CASE StopWaited(t)
  BY <1>21, <1>a, <1>b, <1>k, <1>r DEF StopWaited
<1>22. CASE StopKilled(t)
  BY <1>22, <1>a, <1>b, <1>k, <1>r DEF StopKilled
<1>23. CASE StopDone(t)
  BY <1>23, <1>a, <1>b, <1>r DEF StopDone
<1>24. CASE Restart(t)
  BY <1>24, <1>a, <1>b, <1>g DEF Restart
<1>25. CASE RestartSave(t)
  BY <1>25, <1>a, <1>b, <1>g DEF RestartSave
<1>26. CASE RestartClear(t)
  BY <1>26, <1>a, <1>b, <1>k DEF RestartClear
<1>27. CASE RestartStopped(t)
  BY <1>27, <1>a, <1>b, <1>g, <1>r DEF RestartStopped
<1>28. CASE Pause(t)
  BY <1>28, <1>a, <1>b, <1>r DEF Pause
<1>29. CASE Unpause(t)
  BY <1>29, <1>a, <1>b, <1>r DEF Unpause
<1>30. CASE Rm(t)
  <2>1. CASE Return(t, TRUE)
    BY <2>1, <1>30, <1>r DEF Rm
  <2>2. CASE Goto(t, "rmCheck")
    <3>1. pc[t] = "rm" /\ pc' = [pc EXCEPT ![t] = "rmCheck"] /\ stack' = stack /\ err' = err
      BY <2>2, <1>30 DEF Rm, Goto
    <3>2. stack' = [stack EXCEPT ![t] = stack[t]] /\ stack[t] \in Seq(Labels)
          /\ pc'[t] = "rmCheck"
      BY <3>1 DEF ControlTypes
    <3>3. At(t, op[t], "rmCheck", stack[t])
      BY <3>1, <1>a, Stacked DEF At
    <3>4. Moves(t)
      BY <3>1, <3>2, <3>3 DEF Moves, ControlTypes
    <3> QED BY <3>1, <3>2, <3>4, <1>30, <1>b DEF Goal
  <2> QED BY <2>1, <2>2, <1>30 DEF Rm
<1>31. CASE RmCheck(t)
  BY <1>31, <1>a, <1>b, <1>j, <1>k DEF RmCheck, RmEnds
<1>32. CASE RmKilled(t)
  BY <1>32, <1>a, <1>b, <1>j, <1>k DEF RmKilled, RmEnds
<1>33. CASE RmStopped(t)
  BY <1>33, <1>a, <1>b, <1>j, <1>g DEF RmStopped, RmEnds
<1>34. CASE RmDead(t)
  BY <1>34, <1>a, <1>b, <1>g DEF RmDead
<1>35. CASE Forgets(t)
  BY <1>35, <1>a, <1>b, <1>j DEF Forgets, RmStorage, RmRemoved, Goto
<1>36. CASE RmWake(t)
  BY <1>36, <1>a, <1>b, <1>g DEF RmWake
<1>37. CASE RmEnd(t)
  BY <1>37, <1>a, <1>b, <1>r DEF RmEnd
<1> QED
  BY <1>1, <1>2, <1>3, <1>4, <1>5, <1>6, <1>7, <1>8, <1>9, <1>10, <1>11, <1>12, <1>13, <1>14,
        <1>15, <1>16, <1>17, <1>18, <1>19, <1>20, <1>21, <1>22, <1>23, <1>24, <1>25, <1>26,
        <1>27, <1>28, <1>29, <1>30, <1>31, <1>32, <1>33, <1>34, <1>35, <1>36, <1>37 DEF Step, Forgets

\* What a step does to the other variables of the goroutines.
LEMMA StepLocals ==
    ASSUME ControlTypes, NEW t \in Threads, Step(t)
    PROVE  /\ scenario' = scenario /\ op' = op /\ held' = held /\ calls' = calls
           /\ saved' \in [Threads -> BOOLEAN] /\ autoRemove' \in BOOLEAN
           /\ autoRemove' \/ (\E u \in Threads : saved'[u])
                 => autoRemove \/ (\E u \in Threads : saved[u])
           /\ woken' \subseteq (woken \cup Blocked) \ {t}
           /\ woken' \subseteq woken \/ RmWake(t)
<1> USE DEF ControlTypes, OnlyControl, locals, Blocked
<1>1. CASE Validate(t)
  BY <1>1 DEF Validate
<1>2. CASE StartRefused(t)
  BY <1>2 DEF StartRefused
<1>3. CASE StartFails(t)
  BY <1>3 DEF StartFails, Starts
<1>4. CASE StartFailed(t)
  BY <1>4 DEF StartFailed
<1>5. CASE StartsTask(t)
  BY <1>5 DEF StartsTask, Starts
<1>6. CASE Started(t)
  BY <1>6 DEF Started
<1>7. CASE Wait(t)
  BY <1>7 DEF Wait
<1>8. CASE Wakes(t)
  BY <1>8 DEF Wakes
<1>9. CASE TimesOut(t)
  BY <1>9 DEF TimesOut
<1>10. CASE ContainerSignal(t)
  BY <1>10 DEF ContainerSignal, KillWithSignal, KillWithOther
<1>11. CASE Kill(t)
  BY <1>11 DEF Kill
<1>12. CASE KillSignal(t)
  BY <1>12 DEF KillSignal, KillWithSignal
<1>13. CASE KillRetry(t)
  BY <1>13 DEF KillRetry
<1>14. CASE KillWaited(t)
  BY <1>14 DEF KillWaited
<1>15. CASE KillDirect(t)
  BY <1>15 DEF KillDirect
<1>16. CASE KillDone(t)
  BY <1>16 DEF KillDone
<1>17. CASE ContainerStop(t)
  BY <1>17 DEF ContainerStop
<1>18. CASE Stop(t)
  BY <1>18 DEF Stop
<1>19. CASE StopSignal(t)
  BY <1>19 DEF StopSignal, KillWithSignal
<1>20. CASE StopRetry(t)
  BY <1>20 DEF StopRetry, KillWithSignal
<1>21. CASE StopWaited(t)
  BY <1>21 DEF StopWaited
<1>22. CASE StopKilled(t)
  BY <1>22 DEF StopKilled
<1>23. CASE StopDone(t)
  BY <1>23 DEF StopDone
<1>24. CASE Restart(t)
  BY <1>24 DEF Restart
<1>25. CASE RestartSave(t)
  BY <1>25 DEF RestartSave
<1>26. CASE RestartClear(t)
  BY <1>26 DEF RestartClear
<1>27. CASE RestartStopped(t)
  BY <1>27 DEF RestartStopped
<1>28. CASE Pause(t)
  BY <1>28 DEF Pause
<1>29. CASE Unpause(t)
  BY <1>29 DEF Unpause
<1>30. CASE Rm(t)
  BY <1>30 DEF Rm
<1>31. CASE RmCheck(t)
  BY <1>31 DEF RmCheck
<1>32. CASE RmKilled(t)
  BY <1>32 DEF RmKilled
<1>33. CASE RmStopped(t)
  BY <1>33 DEF RmStopped
<1>34. CASE RmDead(t)
  BY <1>34 DEF RmDead
<1>35. CASE Forgets(t)
  <2>1. CASE RmStorage(t)
    BY <2>1 DEF RmStorage, Goto
  <2>2. CASE RmRemoved(t)
    BY <2>2 DEF RmRemoved
  <2> QED BY <1>35, <2>1, <2>2 DEF Forgets
<1>36. CASE RmWake(t)
  BY <1>36 DEF RmWake, WakeAll
<1>37. CASE RmEnd(t)
  BY <1>37 DEF RmEnd
<1> QED
  BY <1>1, <1>2, <1>3, <1>4, <1>5, <1>6, <1>7, <1>8, <1>9, <1>10, <1>11, <1>12, <1>13, <1>14,
        <1>15, <1>16, <1>17, <1>18, <1>19, <1>20, <1>21, <1>22, <1>23, <1>24, <1>25, <1>26,
        <1>27, <1>28, <1>29, <1>30, <1>31, <1>32, <1>33, <1>34, <1>35, <1>36, <1>37 DEF Step, Forgets

\* Control is kept by every step.
LEMMA ControlKept ==
    ASSUME IInv, Next
    PROVE  ControlTypes' /\ ControlOK'
<1> USE DEF IInv
<1>a. ControlTypes /\ ControlOK /\ AutoRemoveOK /\ st.Err \in BOOLEAN
  BY DEF DataTypes, States
<1>m. Monitor \in Threads /\ Restarter \in Threads /\ Monitor # Restarter
      /\ Monitor \notin Clients /\ Restarter \notin Clients /\ Clients \subseteq Threads
  BY LifecycleAssumption DEF Threads, Monitor, Restarter
<1>b. ASSUME NEW t \in Threads, Moves(t), op' = op, scenario' = scenario,
             saved' \in [Threads -> BOOLEAN], autoRemove' \in BOOLEAN, held' \subseteq Clients,
             woken' \subseteq (woken \cup Blocked) \ {t}
      PROVE  ControlTypes' /\ ControlOK'
  <2>1. PICK l \in Labels, s \in Seq(Labels) :
           pc' = [pc EXCEPT ![t] = l] /\ stack' = [stack EXCEPT ![t] = s] /\ At(t, op[t], l, s)
    BY <1>b DEF Moves
  <2>2. \A u \in Threads : /\ pc'[u] = IF u = t THEN l ELSE pc[u]
                           /\ stack'[u] = IF u = t THEN s ELSE stack[u]
    BY <2>1, <1>a DEF ControlTypes
  <2>3. ControlOK'
    BY <2>1, <2>2, <1>a, <1>b DEF ControlOK
  <2>4. woken' \subseteq Blocked'
    BY <2>2, <1>a, <1>b DEF Blocked, ControlTypes
  <2>5. pc' \in [Threads -> Labels] /\ stack' \in [Threads -> Seq(Labels)]
    BY <2>1, <1>a DEF ControlTypes
  <2>6. err' \in [Threads -> BOOLEAN]
    BY <1>b DEF Moves
  <2> QED BY <2>3, <2>4, <2>5, <2>6, <1>a, <1>b DEF ControlTypes
<1>c. ASSUME UNCHANGED control, UNCHANGED locals, UNCHANGED <<autoRemove, woken>>
      PROVE  ControlTypes' /\ ControlOK'
  BY <1>a, <1>c DEF ControlTypes, ControlOK, control, locals, Blocked
\* Goroutine t goes to l, with no call.
<1>d. ASSUME NEW t \in Threads, NEW l \in Labels, At(t, op[t], l, stack[t]),
             pc' = [pc EXCEPT ![t] = l], stack' = stack, err' = err
      PROVE  Moves(t)
  <2>1. stack' = [stack EXCEPT ![t] = stack[t]] /\ stack[t] \in Seq(Labels)
    BY <1>d, <1>a DEF ControlTypes
  <2> QED BY <2>1, <1>a, <1>d DEF Moves, ControlTypes
<1>e. At(Monitor, op[Monitor], pc[Monitor], stack[Monitor])
      /\ At(Restarter, op[Restarter], pc[Restarter], stack[Restarter])
  BY <1>a, <1>m DEF ControlOK
<1>1. CASE \E t \in Clients, o \in AllOps : Request(t, o)
  <2>1. PICK t \in Clients, o \in AllOps : Request(t, o)
    BY <1>1
  <2>2. pc[t] = "idle" /\ stack[t] = <<>> /\ t \in Threads
    BY <2>1, <1>a, <1>m, Stacked DEF Request, ControlOK
  <2>3. <<"idle">> \o <<>> = <<"idle">> /\ <<"idle">> \in Seq(Labels) /\ "idle" \in Labels
    BY ConcatEmptySeq DEF Labels
  <2>4. Entry[o] \in Labels /\ Entry[o] # "blocked"
    BY DEF Entry, AllOps, Labels
  <2>5. /\ pc' = [pc EXCEPT ![t] = Entry[o]] /\ stack' = [stack EXCEPT ![t] = <<"idle">>]
        /\ err' = err /\ op' = [op EXCEPT ![t] = o]
        /\ scenario' = scenario /\ saved' = saved /\ autoRemove' = autoRemove /\ woken' = woken
    BY <2>1, <2>2, <2>3 DEF Request, Call
  <2>6. t # Restarter
    BY <1>m
  <2>7. At(t, o, Entry[o], <<"idle">>)
    <3> USE <2>6 DEF At, WaitLabels, KillLabels, StopLabels, RmLabels, StartLabels, OtherLabels
    <3>1. CASE o = "start"
      BY <3>1 DEF Entry, StartStacks, Serving, StartCalls
    <3>2. CASE o = "restart"
      BY <3>2 DEF Entry, StartStacks, Serving, StartCalls
    <3>3. CASE o = "stop"
      BY <3>3 DEF Entry, StopStacks, Serving
    <3>4. CASE o = "kill"
      BY <3>4 DEF Entry, KillStacks, Serving
    <3>5. CASE o \in {"signal", "pause", "unpause"}
      BY <3>5 DEF Entry, OtherStacks, Serving
    <3>6. CASE o \in {"rm", "rmForce"}
      BY <3>6 DEF Entry, RmStacks, Serving
    <3> QED BY <3>1, <3>2, <3>3, <3>4, <3>5, <3>6 DEF AllOps
  <2>8. \A u \in Threads : /\ pc'[u] = IF u = t THEN Entry[o] ELSE pc[u]
                           /\ stack'[u] = IF u = t THEN <<"idle">> ELSE stack[u]
                           /\ op'[u] = IF u = t THEN o ELSE op[u]
    BY <2>2, <2>5, <1>a DEF ControlTypes
  <2>9. ControlOK'
    BY <2>7, <2>8, <1>a DEF ControlOK
  <2>10. woken' \subseteq Blocked'
    BY <2>2, <2>5, <2>8, <1>a DEF Blocked, ControlTypes
  <2>11. held' \subseteq Clients
    BY <2>1, <1>a DEF Request, Hold, ControlTypes
  <2> QED BY <2>2, <2>3, <2>4, <2>5, <2>9, <2>10, <2>11, <1>a DEF ControlTypes
<1>2. CASE \E t \in Threads : Step(t)
  <2>1. PICK t \in Threads : Step(t)
    BY <1>2
  <2>2. Moves(t)
    BY <2>1, <1>a, StepMoves
  <2>3. /\ scenario' = scenario /\ op' = op /\ held' = held
        /\ saved' \in [Threads -> BOOLEAN] /\ autoRemove' \in BOOLEAN
        /\ woken' \subseteq (woken \cup Blocked) \ {t}
    BY <2>1, <1>a, StepLocals
  <2>4. held' \subseteq Clients
    BY <2>3, <1>a DEF ControlTypes
  <2> QED BY <2>2, <2>3, <2>4, <1>b
<1>3. CASE Handle
  <2>1. ASSUME EventDropped \/ EventStart \/ EventPaused \/ EventResumed
        PROVE  ControlTypes' /\ ControlOK'
    BY <2>1, <1>c DEF EventDropped, EventStart, EventPaused, EventResumed
  <2>2. ASSUME NEW l \in EventLabels \cup {"idle"}, pc[Monitor] \in EventLabels \cup {"idle"},
               Goto(Monitor, l), UNCHANGED locals, UNCHANGED <<autoRemove, woken>>
        PROVE  ControlTypes' /\ ControlOK'
    <3>1. stack[Monitor] = <<>> /\ l \in Labels
      BY <2>2, <1>e, Stacked DEF EventLabels, Labels
    <3>2. Moves(Monitor)
      BY <3>1, <2>2, <1>d, <1>m DEF Goto, At
    <3>3. Monitor \notin woken
      BY <2>2, <1>a DEF ControlTypes, Blocked, EventLabels
    <3> QED BY <3>2, <3>3, <2>2, <1>a, <1>b, <1>m DEF ControlTypes, locals
  <2>3. CASE EventExit
    BY <2>2, <2>3, <1>c DEF EventExit, Handles, EventLabels
  <2>4. CASE Handled
    BY <2>2, <2>4 DEF Handled, EventLabels
  <2>5. CASE ExitAutoRemove
    <3>1. CASE Goto(Monitor, "idle")
      BY <2>2, <2>5, <3>1 DEF ExitAutoRemove, EventLabels
    <3>2. CASE Call(Monitor, "rm", "handled")
      <4>1. pc[Monitor] = "autoRemove" /\ UNCHANGED locals /\ UNCHANGED <<autoRemove, woken>>
        BY <2>5 DEF ExitAutoRemove
      <4>2. stack[Monitor] = <<>>
        BY <4>1, <1>e, Stacked DEF EventLabels
      <4>3. <<"handled">> \o <<>> = <<"handled">> /\ <<"handled">> \in Seq(Labels) /\ "rm" \in Labels
        BY ConcatEmptySeq DEF Labels
      <4>4. /\ pc' = [pc EXCEPT ![Monitor] = "rm"] /\ err' = err
            /\ stack' = [stack EXCEPT ![Monitor] = <<"handled">>]
        BY <3>2, <4>2, <4>3 DEF Call
      <4>5. At(Monitor, op[Monitor], "rm", <<"handled">>)
        BY DEF At, RmStacks
      <4>6. Moves(Monitor)
        BY <4>3, <4>4, <4>5, <1>a DEF Moves, ControlTypes
      <4>7. Monitor \notin woken
        BY <4>1, <1>a DEF ControlTypes, Blocked
      <4> QED BY <4>1, <4>6, <4>7, <1>a, <1>b, <1>m DEF ControlTypes, locals
    <3> QED BY <2>5, <3>1, <3>2 DEF ExitAutoRemove
  <2>6. CASE Exit
    <3>1. /\ pc[Monitor] = "exit" /\ stack' = stack /\ err' = err /\ UNCHANGED locals
          /\ autoRemove' = autoRemove /\ woken' = woken \cup Blocked
      BY <2>6 DEF Exit, WakeAll
    <3>2. stack[Monitor] = <<>>
      BY <3>1, <1>e, Stacked DEF EventLabels
    <3>3. pc[Restarter] \in {"idle", "restarted"}
      BY <3>1, <1>e, <1>m, Places DEF EventsOK, RestartOK, Owned, BackoffLabels
    <3>4. stack[Restarter] = <<>>
      BY <3>3, <1>e, Stacked DEF BackoffLabels
    <3>5. \/ pc' = [pc EXCEPT ![Monitor] = "idle", ![Restarter] = "backoff"]
          \/ pc' = [pc EXCEPT ![Monitor] = "autoRemove"]
      BY <2>6 DEF Exit, ExitRestarts, ExitStops
    <3>6. pc' \in [Threads -> Labels]
      BY <3>5, <1>a, <1>m DEF ControlTypes, Labels
    <3>7. /\ pc'[Monitor] \in {"idle", "autoRemove"}
          /\ pc'[Restarter] \in {pc[Restarter], "backoff"}
          /\ \A u \in Threads \ {Monitor, Restarter} : pc'[u] = pc[u]
      BY <3>5, <1>a, <1>m DEF ControlTypes
    <3>8. ControlOK'
      <4>1. op' = op
        BY <3>1 DEF locals
      <4>2. At(Monitor, op[Monitor], pc'[Monitor], stack[Monitor])
        BY <3>2, <3>7 DEF At, EventLabels
      <4>3. At(Restarter, op[Restarter], pc'[Restarter], stack[Restarter])
        BY <3>3, <3>4, <3>7, <1>e DEF At, BackoffLabels
      <4>4. ASSUME NEW u \in Threads PROVE At(u, op[u], pc'[u], stack[u])
        BY <4>2, <4>3, <3>7, <1>a DEF ControlOK
      <4> QED BY <4>1, <4>4, <3>1 DEF ControlOK
    <3>9. woken' \subseteq Blocked'
      BY <3>1, <3>3, <3>7, <1>a DEF ControlTypes, Blocked
    <3> QED BY <3>1, <3>6, <3>8, <3>9, <1>a DEF ControlTypes, locals
  <2> QED BY <1>3, <2>1, <2>3, <2>4, <2>5, <2>6 DEF Handle
<1>4. CASE Backoff
  <2>1. pc[Restarter] \in BackoffLabels
    BY <1>4 DEF Backoff, BackoffEnds, BackoffCanceled, Restarted, GiveUp, BackoffLabels
  <2>2. stack[Restarter] = <<>>
    BY <2>1, <1>e, Stacked
  <2>3. Restarter \notin woken \cup Blocked
    BY <2>1, <1>a DEF ControlTypes, Blocked, BackoffLabels
  <2>4. UNCHANGED locals /\ autoRemove' = autoRemove /\ woken' \subseteq woken \cup Blocked
    BY <1>4 DEF Backoff, BackoffEnds, BackoffCanceled, Restarted, GiveUp, OnlyControl, WakeAll
  <2>5. CASE BackoffEnds
    <3>1. <<"restarted">> \in Seq(Labels) /\ "start" \in Labels
      BY DEF Labels
    <3>2. At(Restarter, op[Restarter], "start", <<"restarted">>)
      BY DEF At, StartLabels, StartStacks
    <3>3. Moves(Restarter)
      BY <2>5, <3>1, <3>2, <1>a DEF BackoffEnds, Moves, ControlTypes
    <3> QED BY <2>3, <2>4, <3>3, <1>a, <1>b, <1>m DEF ControlTypes, locals
  <2>6. CASE BackoffCanceled \/ Restarted \/ GiveUp
    <3>1. PICK l \in BackoffLabels \cup {"idle"} : Goto(Restarter, l)
      BY <2>6 DEF BackoffCanceled, Restarted, GiveUp, BackoffLabels
    <3>2. l \in Labels /\ At(Restarter, op[Restarter], l, stack[Restarter])
      BY <2>2 DEF BackoffLabels, Labels, At
    <3>3. Moves(Restarter)
      BY <3>1, <3>2, <1>d, <1>m DEF Goto
    <3> QED BY <2>3, <2>4, <3>3, <1>a, <1>b, <1>m DEF ControlTypes, locals
  <2> QED BY <1>4, <2>5, <2>6 DEF Backoff
<1>5. CASE \E code \in scenario.ExitCodes : ProcessExits(code)
  BY <1>5, <1>c DEF ProcessExits
<1> QED BY <1>1, <1>2, <1>3, <1>4, <1>5 DEF Next

\* What a step does to the program counters.
LEMMA StepCounters ==
    ASSUME IInv, NEW t \in Threads, Step(t)
    PROVE  /\ pc[t] # "idle"
           /\ \A u \in Threads \ {t} :
                 pc'[u] = pc[u] /\ stack'[u] = stack[u] /\ err'[u] = err[u]
           /\ Keeps(t) \/ Rm(t) \/ RmEnd(t)
           /\ t = Restarter => pc[t] \in {"start", "started"}
           /\ t = Monitor => pc[t] \notin {"idle", "exit"} /\ pc'[t] \notin {"idle", "exit"}
           /\ pc'[t] = "started" => StartsTask(t)
           /\ pc'[t] = "rmStorage" => RmDead(t)
           /\ pc'[t] \in {"rmRemoved", "rmWake"} => Forgets(t)
<1>1. ControlTypes /\ ControlOK /\ AutoRemoveOK /\ st.Err \in BOOLEAN
  BY DEF IInv, DataTypes, States
<1>2. Moves(t)
  BY <1>1, StepMoves
<1>3. \A u \in Threads \ {t} :
         pc'[u] = pc[u] /\ stack'[u] = stack[u] /\ err'[u] = err[u]
  BY <1>1, <1>2 DEF Moves, ControlTypes
<1> QED BY <1>1, <1>3, StepMoves

\* AutoRemove and the held stops are kept by every step.
LEMMA HeldKept ==
    ASSUME IInv, Next
    PROVE  AutoRemoveOK' /\ HeldOK'
<1> USE DEF IInv
<1>a. ControlTypes /\ ControlOK /\ AutoRemoveOK /\ HeldOK
  OBVIOUS
<1>m. Monitor \in Threads /\ Restarter \in Threads /\ Monitor # Restarter
      /\ Monitor \notin Clients /\ Restarter \notin Clients /\ Clients \subseteq Threads
  BY LifecycleAssumption DEF Threads, Monitor, Restarter
<1>c. ASSUME UNCHANGED locals, UNCHANGED autoRemove, \A u \in Threads \ {Monitor} : pc'[u] = pc[u]
      PROVE  AutoRemoveOK' /\ HeldOK'
  BY <1>a, <1>c, <1>m DEF AutoRemoveOK, HeldOK, Serves, locals
<1>1. CASE \E t \in Clients, o \in AllOps : Request(t, o)
  <2>1. PICK t \in Clients, o \in AllOps : Request(t, o)
    BY <1>1
  <2>2. /\ held' = Hold(t, o) /\ pc[t] = "idle"
        /\ \A u \in Threads : op'[u] = IF u = t THEN o ELSE op[u]
        /\ \A u \in Threads \ {t} : pc'[u] = pc[u]
        /\ autoRemove' = autoRemove /\ saved' = saved /\ scenario' = scenario
    BY <2>1, <1>a DEF Request, Call, ControlTypes
  <2>3. AutoRemoveOK'
    BY <2>2, <1>a, <1>m DEF AutoRemoveOK
  <2>4. HeldOK'
    BY <2>2, <1>a, <1>m DEF HeldOK, Hold, Serves, ControlTypes, StartCalls
  <2> QED BY <2>3, <2>4
<1>2. CASE \E t \in Threads : Step(t)
  <2>1. PICK t \in Threads : Step(t)
    BY <1>2
  <2>2. /\ scenario' = scenario /\ op' = op /\ held' = held
        /\ autoRemove' \/ (\E u \in Threads : saved'[u])
              => autoRemove \/ (\E u \in Threads : saved[u])
    BY <2>1, <1>a, StepLocals
  <2>3. pc[t] # "idle" /\ \A u \in Threads \ {t} : pc'[u] = pc[u]
    BY <2>1, StepCounters
  <2>4. AutoRemoveOK'
    BY <2>2, <2>3, <1>a, <1>m DEF AutoRemoveOK
  <2>5. HeldOK'
    BY <2>2, <2>3, <1>a, <1>m DEF HeldOK, Serves
  <2> QED BY <2>4, <2>5
<1>3. CASE Handle
  <2>1. UNCHANGED locals /\ autoRemove' = autoRemove
    BY <1>3 DEF Handle, EventDropped, EventStart, EventPaused, EventResumed, EventExit, Exit,
                ExitAutoRemove, Handled
  <2>2. CASE ~Exit
    <3>1. \A u \in Threads \ {Monitor} : pc'[u] = pc[u]
      BY <1>3, <2>2, <1>a DEF Handle, EventDropped, EventStart, EventPaused, EventResumed,
            EventExit, ExitAutoRemove, Handled, Goto, Call, control, ControlTypes
    <3> QED BY <2>1, <3>1, <1>c
  <2>3. CASE Exit
    <3>1. CASE ExitStops(Head(queue).code)
      BY <3>1, <2>1, <1>c, <1>a DEF ExitStops, ControlTypes
    <3>2. CASE ExitRestarts(Head(queue).code)
      <4>1. scenario.Policy # "no" /\ \A u \in Clients : pc'[u] = pc[u]
        BY <3>2, <1>a, <1>m DEF ExitRestarts, ShouldRestart, ControlTypes
      <4> QED BY <4>1, <2>1, <1>a DEF AutoRemoveOK, HeldOK, Serves, locals
    <3> QED BY <2>3, <3>1, <3>2 DEF Exit
  <2> QED BY <2>2, <2>3
<1>4. CASE Backoff
  <2>1. UNCHANGED locals /\ autoRemove' = autoRemove /\ pc[Restarter] # "idle"
        /\ \A u \in Clients : pc'[u] = pc[u]
    BY <1>4, <1>a, <1>m DEF Backoff, BackoffEnds, BackoffCanceled, Restarted, GiveUp, OnlyControl,
            Goto, ControlTypes
  <2> QED BY <2>1, <1>a DEF AutoRemoveOK, HeldOK, Serves, locals
<1>5. CASE \E code \in scenario.ExitCodes : ProcessExits(code)
  BY <1>5, <1>c DEF ProcessExits, control
<1> QED BY <1>1, <1>2, <1>3, <1>4, <1>5 DEF Next

(***************************************************************************)
(* What the steps of a call do to the container.  A quiet one may cancel   *)
(* the restart manager, send a signal and remember the pid.                *)
(***************************************************************************)
Quiet(t) ==
    /\ pc[t] # "started"
    /\ UNCHANGED <<st, registered, lock, queue, starts, restartCount>>
    /\ manual' \in BOOLEAN
    /\ task' = task \/ (Alive /\ \E sig \in {"term", "kill"} : task' = Signalled(sig))
    /\ rm' = rm \/ rm' = [rm EXCEPT !.canceled = TRUE]
    /\ \/ restart' = restart
       \/ restart' = [restart EXCEPT !.canceled = @ \/ pc[Restarter] = "backoff"]
    /\ pid' = pid \/ (Unlocked /\ pid' = [pid EXCEPT ![t] = st.Pid])

\* killWithSignal resumes a paused container.
Resumes ==
    /\ Unlocked /\ st.Running /\ ~st.Restarting /\ st.Paused /\ Alive /\ task.frozen
    /\ \E sig \in {"term", "kill"} : task' = [Signalled(sig) EXCEPT !.frozen = FALSE]
    /\ queue' = Append(queue, Event("resumed"))
    /\ rm' = [rm EXCEPT !.canceled = TRUE]
    /\ restart' = [restart EXCEPT !.canceled = @ \/ pc[Restarter] = "backoff"]
    /\ manual' = TRUE
    /\ UNCHANGED <<st, registered, lock, starts, restartCount, pid>>

Pauses ==
    /\ Unlocked /\ st.Running /\ ~st.Restarting /\ Alive /\ ~task.frozen
    /\ st' = [st EXCEPT !.Paused = TRUE]
    /\ PauseTask
    /\ UNCHANGED <<registered, lock, starts, manual, manager, pid>>

Unpauses ==
    /\ Unlocked /\ st.Paused /\ Alive /\ task.frozen
    /\ st' = [st EXCEPT !.Paused = FALSE]
    /\ ResumeTask
    /\ UNCHANGED <<registered, lock, starts, manual, manager, pid>>

\* The steps of a goroutine by what they do to the container, its process and its events.
LEMMA StepKinds ==
    ASSUME manual \in BOOLEAN, NEW t \in Threads, Step(t)
    PROVE  \/ Quiet(t)
           \/ (Resumes \/ Pauses \/ Unpauses) /\ pc[t] # "started"
           \/ StartFails(t) \/ StartsTask(t) \/ Started(t)
           \/ Rm(t) \/ RmDead(t) \/ Forgets(t) \/ RmEnd(t)
<1> USE DEF locals, manager, runtime
<1>o. ASSUME OnlyControl, pc[t] # "started" PROVE Quiet(t)
  BY <1>o DEF OnlyControl, Quiet
<1>k. ASSUME NEW sig \in {"term", "kill"}, NEW e \in BOOLEAN, KillWithSignal(sig, e),
             pc[t] # "started"
      PROVE  Quiet(t) \/ Resumes
  <2>1. /\ UNCHANGED <<st, registered, lock, starts, pid>>
        /\ Unlocked /\ pc[t] # "started"
    BY <1>k DEF KillWithSignal
  <2>2. CASE ~st.Running
    BY <1>k, <2>1, <2>2 DEF KillWithSignal, Quiet
  <2>3. CASE st.Running /\ UNCHANGED <<task, queue>>
    BY <1>k, <2>1, <2>3 DEF KillWithSignal, Quiet, CancelRestart
  <2>4. CASE st.Running /\ ~UNCHANGED <<task, queue>>
    <3>1. /\ ~st.Restarting /\ SendSignal(sig) /\ manual' = TRUE /\ CancelRestart
      BY <1>k, <2>4 DEF KillWithSignal
    <3>2. CASE st.Paused /\ task.frozen
      BY <2>1, <2>4, <3>1, <3>2 DEF Resumes, SendSignal, CancelRestart
    <3>3. CASE ~(st.Paused /\ task.frozen)
      BY <2>1, <2>4, <3>1, <3>3 DEF Quiet, SendSignal, CancelRestart
    <3> QED BY <3>2, <3>3
  <2> QED BY <2>2, <2>3, <2>4
<1>1. CASE Validate(t)
  BY <1>1, <1>o DEF Validate
<1>2. CASE StartRefused(t)
  BY <1>2, <1>o DEF StartRefused
<1>3. CASE StartFails(t)
  BY <1>3
<1>4. CASE StartFailed(t)
  BY <1>4, <1>o DEF StartFailed
<1>5. CASE StartsTask(t)
  BY <1>5
<1>6. CASE Started(t)
  BY <1>6
<1>7. CASE Wait(t)
  BY <1>7, <1>o DEF Wait
<1>8. CASE Wakes(t)
  BY <1>8 DEF Wakes, Quiet
<1>9. CASE TimesOut(t)
  BY <1>9 DEF TimesOut, Quiet
<1>10. CASE ContainerSignal(t)
  <2>1. PICK e \in BOOLEAN : KillWithSignal("term", e) \/ KillWithOther(e)
    BY <1>10 DEF ContainerSignal
  <2>2. pc[t] # "started"
    BY <1>10 DEF ContainerSignal
  <2>3. CASE KillWithOther(e)
    BY <2>2, <2>3 DEF KillWithOther, Quiet
  <2> QED BY <2>1, <2>2, <2>3, <1>k
<1>11. CASE Kill(t)
  BY <1>11, <1>o DEF Kill
<1>12. CASE KillSignal(t)
  <2>1. PICK e \in BOOLEAN : KillWithSignal("kill", e)
    BY <1>12 DEF KillSignal
  <2>2. pc[t] # "started"
    BY <1>12 DEF KillSignal
  <2> QED BY <2>1, <2>2, <1>k
<1>13. CASE KillRetry(t)
  BY <1>13, <1>o DEF KillRetry
<1>14. CASE KillWaited(t)
  BY <1>14 DEF KillWaited, Quiet
<1>15. CASE KillDirect(t)
  BY <1>15 DEF KillDirect, Quiet
<1>16. CASE KillDone(t)
  BY <1>16, <1>o DEF KillDone
<1>17. CASE ContainerStop(t)
  BY <1>17, <1>o DEF ContainerStop
<1>18. CASE Stop(t)
  BY <1>18, <1>o DEF Stop
<1>19. CASE StopSignal(t)
  <2>1. PICK e \in BOOLEAN : KillWithSignal("term", e)
    BY <1>19 DEF StopSignal
  <2>2. pc[t] # "started"
    BY <1>19 DEF StopSignal
  <2> QED BY <2>1, <2>2, <1>k
<1>20. CASE StopRetry(t)
  <2>1. pc[t] # "started" /\ (OnlyControl \/ \E e \in BOOLEAN : KillWithSignal("kill", e))
    BY <1>20 DEF StopRetry
  <2> QED BY <2>1, <1>k, <1>o
<1>21. CASE StopWaited(t)
  BY <1>21, <1>o DEF StopWaited
<1>22. CASE StopKilled(t)
  BY <1>22, <1>o DEF StopKilled
<1>23. CASE StopDone(t)
  BY <1>23, <1>o DEF StopDone
<1>24. CASE Restart(t)
  BY <1>24, <1>o DEF Restart
<1>25. CASE RestartSave(t)
  BY <1>25 DEF RestartSave, Quiet
<1>26. CASE RestartClear(t)
  BY <1>26 DEF RestartClear, Quiet
<1>27. CASE RestartStopped(t)
  BY <1>27 DEF RestartStopped, Quiet
<1>28. CASE Pause(t)
  BY <1>28 DEF Pause, Pauses, Quiet
<1>29. CASE Unpause(t)
  BY <1>29 DEF Unpause, Unpauses, Quiet
<1>30. CASE Rm(t)
  BY <1>30
<1>31. CASE RmCheck(t)
  BY <1>31, <1>o DEF RmCheck
<1>32. CASE RmKilled(t)
  BY <1>32, <1>o DEF RmKilled
<1>33. CASE RmStopped(t)
  BY <1>33, <1>o DEF RmStopped
<1>34. CASE RmDead(t)
  BY <1>34
<1>35. CASE Forgets(t)
  BY <1>35
<1>36. CASE RmWake(t)
  BY <1>36 DEF RmWake, Quiet
<1>37. CASE RmEnd(t)
  BY <1>37
<1> QED
  BY <1>1, <1>2, <1>3, <1>4, <1>5, <1>6, <1>7, <1>8, <1>9, <1>10, <1>11, <1>12, <1>13, <1>14,
        <1>15, <1>16, <1>17, <1>18, <1>19, <1>20, <1>21, <1>22, <1>23, <1>24, <1>25, <1>26,
        <1>27, <1>28, <1>29, <1>30, <1>31, <1>32, <1>33, <1>34, <1>35, <1>36, <1>37 DEF Step, Forgets

\* The goroutines are distinct, and none is the value of a free lock.
LEMMA ThreadFacts ==
    /\ Monitor \in Threads /\ Restarter \in Threads /\ Monitor # Restarter
    /\ Monitor \notin Clients /\ Restarter \notin Clients /\ Clients \subseteq Threads
    /\ Free \notin Threads
  BY LifecycleAssumption DEF Threads, Monitor, Restarter, Free

\* One removal at a time, through every step.
LEMMA RemovalKept ==
    ASSUME IInv, Next
    PROVE  RemovalOK'
<1> USE DEF IInv
<1>a. ControlTypes /\ ControlOK /\ RemovalOK /\ st \in States(Pids, scenario.ExitCodes \cup {0, 127, 128})
  BY DEF DataTypes
<1>b. ASSUME NEW u PROVE /\ Removing(u) <=> Removes(pc[u], stack[u])
                         /\ Removing(u)' <=> Removes(pc'[u], stack'[u])
  BY DEF Removing, Removes, Has, RmLabels
\* Nobody begins or ends a removal.
<1>c. ASSUME \A u \in Threads : Removes(pc'[u], stack'[u]) <=> Removes(pc[u], stack[u]),
             st'.RemovalInProgress = st.RemovalInProgress,
             st.Dead => st'.Dead,
             \A u \in Threads : pc'[u] \in {"rmStorage", "rmRemoved", "rmWake"} =>
                                   pc[u] \in {"rmStorage", "rmRemoved", "rmWake"} \/ st'.Dead
      PROVE  RemovalOK'
  BY <1>a, <1>b, <1>c DEF RemovalOK
<1>d. ASSUME NEW t \in Threads, pc[t] \notin RmLabels, stack[t] = <<>>,
             \A u \in Threads \ {t} : pc'[u] = pc[u] /\ stack'[u] = stack[u],
             pc'[t] \notin RmLabels, stack'[t] = <<>> \/ (\E r \in {"idle", "handled", "restarted"} : stack'[t] = <<r>>),
             st'.RemovalInProgress = st.RemovalInProgress, st'.Dead = st.Dead
      PROVE  RemovalOK'
  <2>1. ~Has(<<>>)
    BY DEF Has
  <2>2. ASSUME NEW r \in {"idle", "handled", "restarted"} PROVE ~Has(<<r>>)
    <3>1. DOMAIN <<r>> = 1 .. 1 /\ <<r>>[1] = r
      OBVIOUS
    <3> QED BY <3>1 DEF Has, RmLabels
  <2>3. ~Removes(pc[t], stack[t]) /\ ~Removes(pc'[t], stack'[t])
    BY <2>1, <2>2, <1>d DEF Removes
  <2>4. pc'[t] \notin {"rmStorage", "rmRemoved", "rmWake"}
    BY <1>d DEF RmLabels
  <2> QED BY <2>3, <2>4, <1>c, <1>d
<1>e. At(Monitor, op[Monitor], pc[Monitor], stack[Monitor])
      /\ At(Restarter, op[Restarter], pc[Restarter], stack[Restarter])
  BY <1>a, ThreadFacts DEF ControlOK
<1>1. CASE \E t \in Clients, o \in AllOps : Request(t, o)
  <2>1. PICK t \in Clients, o \in AllOps : Request(t, o)
    BY <1>1
  <2>2. pc[t] = "idle" /\ stack[t] = <<>> /\ t \in Threads
    BY <2>1, <1>a, ThreadFacts, Stacked DEF Request, ControlOK
  <2>3. <<"idle">> \o <<>> = <<"idle">>
    BY ConcatEmptySeq DEF Labels
  <2>4. Entry[o] \notin RmLabels
    BY DEF Entry, AllOps, RmLabels
  <2>5. /\ pc'[t] = Entry[o] /\ stack'[t] = <<"idle">> /\ st' = st
        /\ \A u \in Threads \ {t} : pc'[u] = pc[u] /\ stack'[u] = stack[u]
    BY <2>1, <2>2, <2>3, <1>a DEF Request, Call, ControlTypes
  <2> QED BY <2>2, <2>4, <2>5, <1>d DEF RmLabels
<1>2. CASE \E t \in Threads : Step(t)
  <2>1. PICK t \in Threads : Step(t)
    BY <1>2
  <2>2. /\ \A u \in Threads \ {t} : pc'[u] = pc[u] /\ stack'[u] = stack[u]
        /\ Keeps(t) \/ Rm(t) \/ RmEnd(t)
        /\ pc'[t] = "rmStorage" => RmDead(t)
        /\ pc'[t] \in {"rmRemoved", "rmWake"} => Forgets(t)
    BY <2>1, StepCounters
  <2>3. CASE Rm(t)
    <3>1. CASE st.RemovalInProgress
      <4>1. st' = st /\ pc[t] = "rm" /\ Return(t, TRUE)
        BY <2>3, <3>1 DEF Rm
      <4>2. Keeps(t)
        BY <4>1, <1>a, Returns DEF EventLabels, BackoffLabels, RmLabels
      <4>3. \A u \in Threads : Removes(pc'[u], stack'[u]) <=> Removes(pc[u], stack[u])
        BY <2>2, <4>2 DEF Keeps
      <4>4. pc'[t] \notin {"rmStorage", "rmRemoved", "rmWake"}
        BY <2>2, <4>1 DEF RmDead, Forgets, RmStorage, RmRemoved
      <4> QED BY <4>1, <4>3, <4>4, <2>2, <1>c
    <3>2. CASE ~st.RemovalInProgress
      <4>1. pc'[t] = "rmCheck" /\ st'.RemovalInProgress /\ st'.Dead = st.Dead
        BY <2>3, <3>2, <1>a DEF Rm, Goto, States, ControlTypes
      <4>2. \A u \in Threads : ~Removing(u)
        BY <3>2, <1>a DEF RemovalOK
      <4>3. \A u \in Threads : Removing(u)' <=> u = t
        BY <2>2, <4>1, <4>2, <1>b DEF Removes, RmLabels
      <4> QED BY <2>2, <4>1, <4>3, <1>a DEF RemovalOK
    <3> QED BY <3>1, <3>2
  <2>4. CASE RmEnd(t)
    <3>1. pc[t] = "rmEnd" /\ Return(t, err[t]) /\ err[t] \in BOOLEAN
          /\ ~st'.RemovalInProgress /\ st'.Dead = st.Dead
      BY <2>4, <1>a DEF RmEnd, States, ControlTypes
    <3>2. At(t, op[t], pc[t], stack[t]) /\ stack[t] \in Seq(Labels) /\ pc[t] \in Labels
      BY <1>a DEF ControlOK, ControlTypes
    <3>3. stack[t] # <<>> /\ pc'[t] = Head(stack[t]) /\ stack'[t] = Tail(stack[t])
      BY <3>1, <3>2, <1>a, Returns DEF EventLabels, BackoffLabels, Return, ControlTypes
    <3>4. ~Has(stack[t])
      BY <3>1, <3>2, Stacked, RmStackFree DEF RmLabels
    <3>5. stack[t] = <<Head(stack[t])>> \o Tail(stack[t])
          /\ Head(stack[t]) \in Labels /\ Tail(stack[t]) \in Seq(Labels)
      BY <3>2, <3>3, Pops
    <3>6. ~Removes(pc'[t], stack'[t])
      <4>1. Has(stack[t]) <=> Head(stack[t]) \in RmLabels \/ Has(Tail(stack[t]))
        BY <3>5, HasPush
      <4> QED BY <3>3, <3>4, <4>1 DEF Removes
    <3>7. Removing(t)
      BY <3>1, <1>b DEF Removes, RmLabels
    <3>8. \A u \in Threads : ~Removing(u)'
      BY <2>2, <3>6, <3>7, <1>a, <1>b DEF RemovalOK
    <3>9. pc'[t] \notin {"rmStorage", "rmRemoved", "rmWake"}
      BY <2>2, <3>1 DEF RmDead, Forgets, RmStorage, RmRemoved
    <3> QED BY <2>2, <3>1, <3>8, <3>9, <1>a DEF RemovalOK
  <2>5. CASE Keeps(t) /\ ~Rm(t) /\ ~RmEnd(t)
    <3>1. st'.RemovalInProgress = st.RemovalInProgress /\ (st.Dead => st'.Dead)
          /\ (RmDead(t) => st'.Dead) /\ (Forgets(t) => st'.Dead)
      <4>1. CASE Quiet(t)
        BY <4>1, <1>a DEF Quiet, RmDead, Forgets, RmStorage, RmRemoved, States, RemovalOK
      <4>2. CASE (Resumes \/ Pauses \/ Unpauses) /\ ~RmDead(t) /\ ~Forgets(t)
        BY <4>2, <1>a DEF Resumes, Pauses, Unpauses, States
      <4>3. CASE StartFails(t)
        BY <4>3, <1>a DEF StartFails, Starts, StartFailure, States, RmDead, Forgets, RmStorage, RmRemoved
      <4>4. CASE StartsTask(t) \/ Started(t)
        BY <4>4, <1>a, ZenonT(60) DEF StartsTask, Starts, Started, SetRunning, States, RmDead, Forgets, RmStorage, RmRemoved
      <4>5. CASE RmDead(t)
        BY <4>5, <1>a DEF RmDead, Forgets, RmStorage, RmRemoved, States
      <4>6. CASE Forgets(t)
        BY <4>6, <1>a DEF RmDead, Forgets, RmStorage, RmRemoved, SetError, States, RemovalOK
      <4> QED BY <2>1, <2>5, <4>1, <4>2, <4>3, <4>4, <4>5, <4>6, StepKinds DEF DataTypes
    <3>2. \A u \in Threads : Removes(pc'[u], stack'[u]) <=> Removes(pc[u], stack[u])
      BY <2>2, <2>5 DEF Keeps
    <3> QED BY <2>2, <3>1, <3>2, <1>c
  <2> QED BY <2>2, <2>3, <2>4, <2>5
<1>3. CASE Handle
  <2>1. st'.RemovalInProgress = st.RemovalInProgress /\ st'.Dead = st.Dead
    BY <1>3, <1>a DEF Handle, EventDropped, EventStart, EventPaused, EventResumed, EventExit, Exit,
          ExitRestarts, ExitStops, ExitAutoRemove, Handled, SetRunning, SetStopped, SetRestarting,
          States
  <2>2. pc[Monitor] \in {"idle", "exit", "autoRemove", "handled"} /\ stack[Monitor] = <<>>
    <3>1. pc[Monitor] \in {"idle", "exit", "autoRemove", "handled"}
      BY <1>3 DEF Handle, EventDropped, EventStart, EventPaused, EventResumed, EventExit, Exit,
          ExitAutoRemove, Handled, Handles
    <3> QED BY <3>1, <1>e, Stacked DEF EventLabels
  <2>3. CASE ~Exit
    <3>1. \A u \in Threads \ {Monitor} : pc'[u] = pc[u] /\ stack'[u] = stack[u]
      BY <1>3, <2>3, <1>a DEF Handle, EventDropped, EventStart, EventPaused, EventResumed,
            EventExit, ExitAutoRemove, Handled, Goto, Call, control, ControlTypes
    <3>2. <<"handled">> \o <<>> = <<"handled">>
      BY ConcatEmptySeq DEF Labels
    <3>3. pc'[Monitor] \in {"idle", "exit", "rm"} /\ stack'[Monitor] \in {<<>>, <<"handled">>}
      <4>1. CASE EventDropped \/ EventStart \/ EventPaused \/ EventResumed
        BY <4>1, <2>2, ThreadFacts, <1>a DEF EventDropped, EventStart, EventPaused, EventResumed,
              control, Handles
      <4>2. CASE EventExit \/ Handled
        BY <4>2, <2>2, ThreadFacts, <1>a DEF EventExit, Handled, control, Handles, Goto,
              ControlTypes
      <4>3. CASE ExitAutoRemove
        BY <4>3, <2>2, <3>2, ThreadFacts, <1>a DEF ExitAutoRemove, Goto, Call, ControlTypes
      <4> QED BY <1>3, <2>3, <4>1, <4>2, <4>3 DEF Handle
    <3> QED BY <2>1, <2>2, <3>1, <3>3, <1>d, ThreadFacts DEF RmLabels
  <2>4. CASE Exit
    <3>1. stack' = stack
      BY <2>4 DEF Exit
    <3>2. \A u \in Threads : pc'[u] \in {pc[u], "idle", "autoRemove", "backoff"}
      BY <2>4, <1>a, ThreadFacts DEF Exit, ExitRestarts, ExitStops, ControlTypes
    <3>3. \A u \in Threads \ {Monitor, Restarter} : pc'[u] = pc[u]
      BY <2>4, <1>a, ThreadFacts DEF Exit, ExitRestarts, ExitStops, ControlTypes
    <3>4. pc[Monitor] \notin RmLabels /\ pc[Restarter] \notin RmLabels
      BY <2>2, <1>e, ThreadFacts, Places DEF RmLabels, BackoffLabels
    <3>5. \A u \in Threads : Removes(pc'[u], stack'[u]) <=> Removes(pc[u], stack[u])
      BY <3>1, <3>2, <3>3, <3>4 DEF Removes, RmLabels
    <3> QED BY <2>1, <3>2, <3>5, <1>c
  <2> QED BY <2>3, <2>4
<1>4. CASE Backoff
  <2>1. pc[Restarter] \in BackoffLabels
    BY <1>4 DEF Backoff, BackoffEnds, BackoffCanceled, Restarted, GiveUp, BackoffLabels
  <2>2. stack[Restarter] = <<>>
    BY <2>1, <1>e, Stacked
  <2>3. st'.RemovalInProgress = st.RemovalInProgress /\ st'.Dead = st.Dead
    BY <1>4, <1>a DEF Backoff, BackoffEnds, BackoffCanceled, Restarted, GiveUp, OnlyControl,
          SetStopped,
          States
  <2>4. /\ pc'[Restarter] \in {"start", "giveUp", "idle"}
        /\ stack'[Restarter] \in {<<>>, <<"restarted">>}
        /\ \A u \in Threads \ {Restarter} : pc'[u] = pc[u] /\ stack'[u] = stack[u]
    BY <1>4, <1>a, <2>2, ThreadFacts DEF Backoff, BackoffEnds, BackoffCanceled, Restarted, GiveUp,
          Goto, ControlTypes
  <2> QED BY <2>1, <2>2, <2>3, <2>4, <1>d, ThreadFacts DEF RmLabels, BackoffLabels
<1>5. CASE \E code \in scenario.ExitCodes : ProcessExits(code)
  BY <1>5, <1>c DEF ProcessExits, control
<1> QED BY <1>1, <1>2, <1>3, <1>4, <1>5 DEF Next
-----------------------------------------------------------------------------
(***************************************************************************)
(* The container, its process and its events.                              *)
(***************************************************************************)
EventType == [type : {"start", "exit", "paused", "resumed"}, pid : Pids,
              code : scenario.ExitCodes \cup {0}]

\* The events still to be handled are events.
LEMMA PendingType ==
    ASSUME DataTypes, EventsOK
    PROVE  Pending \in Seq(EventType)
  BY DEF DataTypes, EventsOK, Pending, EventType

\* A step that leaves the process, its events and the owner of a restart alone.
LEMMA Frame ==
    ASSUME EventsOK, RestartOK, PauseOK,
           lock' = lock, Pending' = Pending,
           Past' => queue' # <<>>, pc'[Monitor] = "exit" => pc[Monitor] = "exit",
           registered' => registered,
           st'.Running = st.Running, st'.Paused = st.Paused, st'.Restarting = st.Restarting,
           st'.Pid = st.Pid,
           task'.state = task.state, task'.pid = task.pid, task'.frozen = task.frozen,
           task = NoTask => task' = NoTask,
           lock # Free => pid'[lock] = pid[lock],
           starts' = starts, restartCount < starts => restartCount' < starts,
           Owned' <=> Owned
    PROVE  EventsOK' /\ RestartOK' /\ PauseOK'
<1>1. (Busy' <=> Busy) /\ (Busy => Current' = Current) /\ (Alive' <=> Alive)
  BY DEF Busy, Current, Alive
<1>2. RestartOK'
  BY DEF RestartOK
<1>3. PauseOK'
  BY <1>1 DEF PauseOK
<1>4. EventsOK'
  BY <1>1 DEF EventsOK
<1> QED BY <1>2, <1>3, <1>4

\* A pause or a resume: the event is the last of those to come.
LEMMA Flipped ==
    ASSUME DataTypes, EventsOK, RestartOK, PauseOK,
           NEW type \in {"paused", "resumed"},
           lock = Free, Busy, Alive,
           lock' = lock, queue' = Append(queue, Event(type)),
           pc'[Monitor] = pc[Monitor] \/ (Past /\ Past'), registered' = registered,
           st'.Running = st.Running, st'.Restarting = st.Restarting, st'.Pid = st.Pid,
           task'.state = task.state, task'.pid = task.pid,
           task'.frozen = (type = "paused"),
           starts' = starts, restartCount' = restartCount,
           Owned' <=> Owned
    PROVE  EventsOK' /\ RestartOK' /\ PauseOK'
<1> DEFINE e == Event(type)
           P == Pending
<1>1. P \in Seq(EventType) /\ e \in EventType /\ e.type = type /\ e.pid = task.pid
  BY PendingType DEF Event, EventType, DataTypes
<1>2. (Past' <=> Past) /\ queue \in Seq(EventType) /\ (Past => queue # <<>>) /\ queue' # <<>>
  <2>1. Past' <=> Past
    BY DEF Past
  <2>2. queue \in Seq(EventType) /\ (Past => queue # <<>>)
    BY DEF EventsOK, DataTypes, EventType
  <2>3. queue' # <<>>
    BY <2>2, <1>1
  <2> QED BY <2>1, <2>2, <2>3
<1>3. Pending' = Append(P, e)
  BY <1>1, <1>2 DEF Pending
<1>4. Pending' # <<>> /\ Len(Pending') = Len(P) + 1 /\ DOMAIN Pending' = 1 .. Len(P) + 1
      /\ DOMAIN P = 1 .. Len(P) /\ Len(P) \in Nat
      /\ Pending'[Len(P) + 1] = e /\ \A i \in 1 .. Len(P) : Pending'[i] = P[i]
  BY <1>1, <1>3
<1>5. Busy' /\ Current' = Current /\ Alive' /\ Current = task.pid
  BY DEF Busy, Current, Alive, EventsOK
<1>6. \A i \in DOMAIN P : P[i].type # "exit" /\ P[i].pid = Current
  BY DEF EventsOK, Alive
<1>7. pc[Monitor] # "exit" /\ pc'[Monitor] # "exit"
  <2>1. pc[Monitor] # "exit"
    BY <1>4, <1>6 DEF EventsOK
  <2> QED BY <2>1, <1>2 DEF Past
<1>8. EventsOK'
  <2>1. \A i \in DOMAIN Pending' : Pending'[i].pid = Current' /\ Pending'[i].type # "exit"
    BY <1>1, <1>4, <1>5, <1>6
  <2> HIDE DEF P, e
  <2> QED BY <2>1, <1>2, <1>4, <1>5, <1>7 DEF EventsOK, Alive
<1>9. RestartOK'
  BY DEF RestartOK
<1>10. PauseOK'
  <2>1. Flip(Pending'[Len(P) + 1]) /\ Len(P) + 1 \in DOMAIN Pending'
    BY <1>1, <1>4 DEF Flip
  <2>2. ASSUME NEW i \in DOMAIN Pending', \A j \in DOMAIN Pending' : Flip(Pending'[j]) => j <= i
        PROVE  i = Len(P) + 1
    BY <2>1, <2>2, <1>4
  <2>3. Pending'[Len(P) + 1].type = "paused" <=> task'.frozen
    BY <1>1, <1>4
  <2> QED BY <2>1, <2>2, <2>3, <1>5 DEF PauseOK
<1> QED BY <1>8, <1>9, <1>10

\* The process exits, which is the last of its events.
LEMMA Exited ==
    ASSUME DataTypes, EventsOK, RestartOK, PauseOK,
           NEW code \in scenario.ExitCodes, ProcessExits(code)
    PROVE  EventsOK' /\ RestartOK' /\ PauseOK'
<1> DEFINE e == [type |-> "exit", pid |-> task.pid, code |-> code]
           P == Pending
<1>0. /\ Alive /\ ~task.frozen /\ task' = [task EXCEPT !.state = "exited"]
      /\ queue' = Append(queue, e)
      /\ UNCHANGED <<st, registered, lock, starts, pc, err, pid, restartCount>>
  BY DEF ProcessExits, control, locals, manager
<1>1. P \in Seq(EventType) /\ e \in EventType
  BY PendingType DEF EventType, DataTypes
<1>2. (Past' <=> Past) /\ queue \in Seq(EventType) /\ (Past => queue # <<>>) /\ queue' # <<>>
  BY <1>0, <1>1 DEF Past, EventsOK, DataTypes, EventType
<1>3. Pending' = Append(P, e)
  BY <1>0, <1>1, <1>2 DEF Pending
<1>4. Pending' # <<>> /\ Len(Pending') = Len(P) + 1 /\ DOMAIN Pending' = 1 .. Len(P) + 1
      /\ DOMAIN P = 1 .. Len(P) /\ Len(P) \in Nat
      /\ Pending'[Len(P) + 1] = e /\ \A i \in 1 .. Len(P) : Pending'[i] = P[i]
  BY <1>1, <1>3
<1>5. Busy /\ Busy' /\ Current' = Current /\ ~Alive' /\ Current = task.pid
  BY <1>0 DEF Busy, Current, Alive, EventsOK, NoTask, DataTypes
<1>6. \A i \in DOMAIN P : P[i].type # "exit" /\ P[i].pid = Current
  BY <1>0, <1>5 DEF EventsOK, Alive
<1>7. pc[Monitor] # "exit"
  BY <1>4, <1>6 DEF EventsOK
<1>8. task'.state = "exited" /\ task'.pid = task.pid /\ task'.frozen = FALSE
  BY <1>0 DEF DataTypes
<1>9. EventsOK'
  <2>1. \A i \in DOMAIN Pending' : Pending'[i].pid = Current' /\ (Pending'[i].type = "exit" => i = Len(Pending'))
    BY <1>4, <1>5, <1>6
  <2>2. Pending'[Len(Pending')].type = "exit"
    BY <1>4
  <2>3. lock # Free => Pending'[1].type = "start"
    BY <1>4, <1>1 DEF EventsOK
  <2> HIDE DEF P, e
  <2> QED BY <2>1, <2>2, <2>3, <1>0, <1>2, <1>4, <1>5, <1>7, <1>8 DEF EventsOK, Busy
<1>10. RestartOK'
  BY <1>0 DEF RestartOK, Owned
<1>11. PauseOK'
  <2>1. ~Flip(Pending'[Len(P) + 1]) /\ \A i \in 1 .. Len(P) : Flip(Pending'[i]) <=> Flip(P[i])
    BY <1>4 DEF Flip
  <2>2. ASSUME registered, NEW i \in DOMAIN Pending', Flip(Pending'[i]),
               \A j \in DOMAIN Pending' : Flip(Pending'[j]) => j <= i
        PROVE  Pending'[i].type = "paused" <=> task'.frozen
    <3>1. i \in DOMAIN P /\ Flip(P[i]) /\ \A j \in DOMAIN P : Flip(P[j]) => j <= i
      BY <2>1, <2>2, <1>4
    <3>2. P[i].type = "paused" <=> task.frozen
      BY <3>1, <2>2 DEF PauseOK
    <3> QED BY <3>1, <3>2, <1>4, <1>0, <1>8
  <2>3. registered /\ lock # Free => \A i \in DOMAIN Pending' : ~Flip(Pending'[i])
    BY <2>1, <1>4 DEF PauseOK
  <2> QED BY <2>2, <2>3, <1>0, <1>5, <1>8 DEF PauseOK
<1> QED BY <1>9, <1>10, <1>11

\* The first event is handled, and it is not an exit, or it is dropped.
LEMMA Dequeued ==
    ASSUME DataTypes, LockOK, EventsOK, RestartOK, PauseOK,
           pc[Monitor] = "idle", queue # <<>>, queue' = Tail(queue), lock = Free,
           registered => Head(queue).type # "exit",
           registered /\ Flip(Head(queue)) => st'.Paused = (Head(queue).type = "paused"),
           registered /\ ~Flip(Head(queue)) => st'.Paused = st.Paused,
           st'.Running = st.Running, st'.Restarting = st.Restarting, st'.Pid = st.Pid,
           UNCHANGED <<pc, err, lock, task, starts, pid, restartCount, registered>>
    PROVE  EventsOK' /\ RestartOK' /\ PauseOK'
<1> DEFINE P == Pending
<1>1. P = queue /\ P \in Seq(EventType) /\ Pending' = Tail(P) /\ ~Past' /\ P # <<>>
  BY PendingType DEF Pending, Past
<1>2. Len(Pending') = Len(P) - 1 /\ DOMAIN Pending' = 1 .. Len(P) - 1 /\ DOMAIN P = 1 .. Len(P)
      /\ Len(P) \in Nat /\ Len(P) >= 1 /\ Head(queue) = P[1]
      /\ \A i \in 1 .. Len(P) - 1 : Pending'[i] = P[i + 1] /\ i + 1 \in 1 .. Len(P)
  BY <1>1
<1> HIDE DEF P
<1>3. Busy /\ Busy' /\ Current' = Current /\ (Alive' <=> Alive)
  BY <1>1 DEF Busy, Current, Alive, EventsOK, P
<1>4. EventsOK'
  <2>1. \A i \in DOMAIN Pending' :
           /\ Pending'[i].pid = Current
           /\ Pending'[i].type = "exit" => i = Len(Pending') /\ task.state = "exited"
    <3> TAKE i \in DOMAIN Pending'
    <3>1. Pending'[i] = P[i + 1] /\ i + 1 \in DOMAIN P /\ i \in Nat
      BY <1>2
    <3>2. P[i + 1].pid = Current /\ (P[i + 1].type = "exit" => i + 1 = Len(P) /\ task.state = "exited")
      BY <3>1, <1>3 DEF EventsOK, P
    <3> QED BY <3>1, <3>2, <1>2
  <2>2. ASSUME task.state = "exited", registered
        PROVE  Pending' # <<>> /\ Pending'[Len(Pending')].type = "exit"
    <3>1. P[Len(P)].type = "exit" /\ P[1].type # "exit"
      BY <2>2, <1>2, <1>3 DEF EventsOK, P
    <3>2. Len(P) # 1 /\ Len(P) - 1 \in 1 .. Len(P) - 1 /\ (Len(P) - 1) + 1 = Len(P)
      BY <3>1, <1>2
    <3>3. Pending'[Len(P) - 1] = P[Len(P)]
      BY <3>2, <1>2
    <3> QED BY <3>1, <3>2, <3>3, <1>2
  <2>3. pc'[Monitor] # "exit" /\ lock' = Free
    OBVIOUS
  <2> QED BY <2>1, <2>2, <2>3, <1>1, <1>3 DEF EventsOK, Past
<1>5. RestartOK'
  BY DEF RestartOK, Owned
<1>6. PauseOK'
  <2> SUFFICES ASSUME registered PROVE PauseOK'
    BY DEF PauseOK
  <2>1. ASSUME NEW i \in DOMAIN Pending', Flip(Pending'[i]),
               \A j \in DOMAIN Pending' : Flip(Pending'[j]) => j <= i
        PROVE  Pending'[i].type = "paused" <=> task.frozen
    <3>1. Pending'[i] = P[i + 1] /\ i + 1 \in DOMAIN P /\ i \in Nat
      BY <1>2
    <3>2. ASSUME NEW j \in DOMAIN P, Flip(P[j]) PROVE j <= i + 1
      <4>1. CASE j = 1
        BY <4>1, <3>1
      <4>2. CASE j # 1
        <5>1. j - 1 \in DOMAIN Pending' /\ Pending'[j - 1] = P[(j - 1) + 1] /\ (j - 1) + 1 = j
          BY <4>2, <1>2
        <5>2. j - 1 <= i
          BY <5>1, <3>2, <2>1
        <5> QED BY <5>1, <5>2, <3>1, <1>2
      <4> QED BY <4>1, <4>2
    <3> QED BY <3>1, <3>2, <2>1 DEF PauseOK, P
  <2>2. ASSUME \A i \in DOMAIN Pending' : ~Flip(Pending'[i]), Alive
        PROVE  st'.Paused <=> task.frozen
    <3>1. ASSUME NEW j \in DOMAIN P, Flip(P[j]) PROVE j = 1
      <4> SUFFICES ASSUME j # 1 PROVE FALSE
        OBVIOUS
      <4>1. j - 1 \in DOMAIN Pending' /\ Pending'[j - 1] = P[(j - 1) + 1] /\ (j - 1) + 1 = j
        BY <1>2
      <4> QED BY <4>1, <3>1, <2>2
    <3>2. CASE Flip(P[1])
      <4>1. 1 \in DOMAIN P /\ \A j \in DOMAIN P : Flip(P[j]) => j <= 1
        BY <3>1, <1>2
      <4>2. P[1].type = "paused" <=> task.frozen
        BY <4>1, <3>2 DEF PauseOK, P
      <4>3. st'.Paused = (P[1].type = "paused")
        BY <3>2, <1>2
      <4> QED BY <4>2, <4>3
    <3>3. CASE ~Flip(P[1])
      <4>1. \A j \in DOMAIN P : ~Flip(P[j])
        BY <3>1, <3>3
      <4>2. st.Paused <=> task.frozen
        BY <4>1, <2>2, <1>3 DEF PauseOK, P
      <4> QED BY <4>2, <3>3, <1>2
    <3> QED BY <3>2, <3>3
  <2> QED BY <2>1, <2>2, <1>3 DEF PauseOK
<1> QED BY <1>4, <1>5, <1>6

\* The Restarter's steps in containerStart.
LEMMA RestarterSteps ==
    ASSUME NEW t, Step(t), pc[t] \in {"start", "started"}
    PROVE  StartRefused(t) \/ StartFails(t) \/ StartsTask(t) \/ Started(t)
  BY DEF Step, Validate, StartFailed, Wait, Wakes, TimesOut, ContainerSignal, Kill, KillSignal,
        KillRetry, KillWaited, KillDirect, KillDone, ContainerStop, Stop, StopSignal, StopRetry,
        StopWaited, StopKilled, StopDone, Restart, RestartSave, RestartClear, RestartStopped,
        Pause, Unpause, Rm, RmCheck, RmKilled, RmStopped, RmDead, Forgets, RmStorage, RmRemoved, RmWake, RmEnd

\* The owner of a restart gives it up only when the container has started.
LEMMA OwnedKept ==
    ASSUME IInv, NEW t \in Threads, Step(t), ~Started(t)
    PROVE  Owned' <=> Owned
<1>1. CASE t # Restarter
  BY <1>1, StepCounters, ThreadFacts DEF Owned
<1>2. CASE t = Restarter
  <2>1. pc[t] \in {"start", "started"}
    BY <1>2, StepCounters
  <2>2. ControlTypes /\ ControlOK /\ AutoRemoveOK
    BY DEF IInv
  <2>3. StartRefused(t) \/ StartFails(t) \/ StartsTask(t)
    BY <2>1, RestarterSteps
  <2>4. pc[t] = "start"
    BY <2>3 DEF StartRefused, StartFails, StartsTask, Starts
  <2>5. CASE StartsTask(t)
    BY <2>5, <2>2, <2>4, <1>2 DEF StartsTask, Goto, Owned, ControlTypes
  <2>6. CASE Return(t, TRUE)
    <3>1. At(t, op[t], pc[t], stack[t]) /\ pc[t] \in Labels
      BY <2>2 DEF ControlOK, ControlTypes
    <3>2. stack[t] \in Seq(Labels) /\ stack[t] # <<>> /\ pc'[t] = Head(stack[t]) /\ err'[t] = TRUE
      BY <2>2, <2>4, <2>6, Returns DEF EventLabels, BackoffLabels
    <3>3. Head(stack[t]) = "restarted"
      <4>1. pc[t] \in StartLabels
        BY <2>4 DEF StartLabels
      <4>2. pc[t] \in StartLabels => Head(stack[t]) = IF t = Restarter THEN "restarted" ELSE "idle"
        BY <3>1, <3>2, Pops
      <4> QED BY <4>1, <4>2, <1>2
    <3> QED BY <3>2, <3>3, <2>4, <1>2 DEF Owned
  <2>7. StartRefused(t) => Return(t, TRUE)
    BY <1>2 DEF StartRefused, Resets
  <2>8. StartFails(t) => Return(t, TRUE)
    <3>1. scenario.AutoRemove => scenario.Policy = "no"
      BY <2>2, LifecycleAssumption DEF ControlTypes
    <3>2. ~autoRemove
      BY <3>1, <2>2, <2>4, <1>2 DEF AutoRemoveOK
    <3> QED BY <3>2 DEF StartFails
  <2> QED BY <2>3, <2>5, <2>6, <2>7, <2>8
<1> QED BY <1>1, <1>2

\* containerd starts the task of a container that has none.
LEMMA TaskStarted ==
    ASSUME IInv, NEW t \in Threads, Step(t), StartsTask(t)
    PROVE  EventsOK' /\ RestartOK' /\ PauseOK'
<1> DEFINE e == [type |-> "start", pid |-> starts + 1, code |-> 0]
<1>1. DataTypes /\ LockOK /\ EventsOK /\ RestartOK /\ PauseOK /\ ControlTypes
  BY DEF IInv
<1>2. /\ pc[t] = "start" /\ lock = Free /\ ~(t # Restarter /\ st.Running) /\ lock' = t
      /\ starts' = starts + 1 /\ st' = st /\ registered' = registered
      /\ task' = [NoTask EXCEPT !.state = "running", !.pid = starts + 1]
      /\ queue' = Append(queue, e) /\ pid' = [pid EXCEPT ![t] = starts + 1]
      /\ pc' = [pc EXCEPT ![t] = "started"] /\ err' = err
      /\ starts < scenario.MaxStarts
  BY DEF StartsTask, Starts, StartTask, Goto, Resets, Unlocked
<1>3. restartCount' \in {restartCount, 0}
  BY DEF StartsTask, ResetForStart, ResetRestart, manager
<1>4. ~Busy
  BY <1>1, <1>2 DEF Busy, RestartOK, Owned
<1>5. Pending = <<>> /\ task = NoTask
  BY <1>1, <1>4 DEF EventsOK
<1>6. t # Monitor /\ pc'[Monitor] = pc[Monitor]
  <2>1. t # Monitor
    <3>1. At(t, op[t], pc[t], stack[t])
      BY DEF IInv, ControlOK
    <3> QED BY <3>1, <1>2, Places DEF StartLabels
  <2> QED BY <2>1, <1>1, <1>2, ThreadFacts DEF ControlTypes
<1>7. starts \in Nat /\ restartCount \in 0 .. starts /\ e.type = "start" /\ e.pid = starts + 1
  BY <1>1, LifecycleAssumption DEF DataTypes, Pids, ControlTypes, ScenarioType
<1>8. Pending' = <<e>> /\ queue' # <<>>
  <2>1. queue \in Seq(EventType) /\ (Past => queue # <<>>) /\ (Past' <=> Past)
    BY <1>1, <1>6 DEF DataTypes, EventType, EventsOK, Past
  <2>2. starts + 1 \in Pids /\ e \in EventType
    BY <1>1, <1>2, <1>7, LifecycleAssumption DEF EventType, Pids, ControlTypes, ScenarioType
  <2>3. queue' \in Seq(EventType) /\ queue' # <<>>
    BY <2>1, <2>2, <1>2
  <2>4. CASE Past
    <3>1. Tail(queue) = <<>> /\ queue # <<>>
      BY <2>1, <2>4, <1>5 DEF Pending
    <3>2. Tail(Append(queue, e)) = Append(Tail(queue), e)
      BY <3>1, <2>1, <2>2
    <3>3. Append(<<>>, e) = <<e>>
      OBVIOUS
    <3> QED BY <2>1, <2>3, <2>4, <3>1, <3>2, <3>3, <1>2 DEF Pending
  <2>5. CASE ~Past
    BY <2>1, <2>3, <2>5, <1>2, <1>5 DEF Pending
  <2> QED BY <2>4, <2>5
<1>9. /\ DOMAIN Pending' = {1} /\ Pending'[1] = e /\ Len(Pending') = 1 /\ Pending' # <<>>
  BY <1>8
<1>10. Busy' /\ Current' = starts + 1 /\ Alive' /\ lock' # Free
       /\ task'.state = "running" /\ task'.pid = starts + 1 /\ task'.frozen = FALSE
  BY <1>1, <1>2, ThreadFacts DEF Busy, Current, Alive, NoTask, DataTypes
<1>11. pc'[Monitor] # "exit"
  BY <1>1, <1>4, <1>6 DEF EventsOK, Busy
<1> HIDE DEF e
<1>12. EventsOK'
  BY <1>2, <1>3, <1>7, <1>8, <1>9, <1>10, <1>11 DEF EventsOK
<1>13. RestartOK'
  BY <1>1, <1>2, ThreadFacts DEF RestartOK, Owned, ControlTypes
<1>14. PauseOK'
  <2>1. ~Flip(Pending'[1])
    BY <1>7, <1>9 DEF Flip
  <2>2. registered => ~st.Paused
    BY <1>1, <1>4 DEF PauseOK
  <2> QED BY <2>1, <2>2, <1>2, <1>9, <1>10 DEF PauseOK
<1> QED BY <1>12, <1>13, <1>14

\* containerStart ends with SetRunning.
LEMMA ContainerStarted ==
    ASSUME IInv, NEW t \in Threads, Started(t)
    PROVE  EventsOK' /\ RestartOK' /\ PauseOK'
<1>1. DataTypes /\ LockOK /\ EventsOK /\ RestartOK /\ PauseOK /\ ControlTypes /\ ControlOK
  BY DEF IInv
<1>2. /\ pc[t] = "started" /\ lock' = Free /\ st' = SetRunning(st, pid[t])
      /\ Return(t, FALSE)
      /\ UNCHANGED <<registered, task, queue, starts, pid, restartCount>>
  BY DEF Started, runtime, locals, manager
<1>3. lock = t /\ lock # Free /\ registered
  BY <1>1, <1>2, ThreadFacts DEF LockOK
<1>4. /\ At(t, op[t], pc[t], stack[t]) /\ pc[t] \in Labels /\ stack[t] \in Seq(Labels)
      /\ stack[t] # <<>> /\ pc'[t] = Head(stack[t]) /\ err'[t] = FALSE
  <2>1. At(t, op[t], pc[t], stack[t]) /\ pc[t] \in Labels
    BY <1>1 DEF ControlOK, ControlTypes
  <2> QED BY <2>1, <1>1, <1>2, Returns DEF EventLabels, BackoffLabels
<1>5. pc'[t] = IF t = Restarter THEN "restarted" ELSE "idle"
  <2>1. pc[t] \in StartLabels
    BY <1>2 DEF StartLabels
  <2>2. pc[t] \in StartLabels => Head(stack[t]) = IF t = Restarter THEN "restarted" ELSE "idle"
    BY <1>4, Pops
  <2> QED BY <2>1, <2>2, <1>4
<1>6. t # Monitor
  BY <1>2, <1>4, Places DEF StartLabels
<1>7. \A u \in Threads \ {t} : pc'[u] = pc[u] /\ err'[u] = err[u]
  BY <1>1, <1>2 DEF Return, ControlTypes
<1>8. /\ st'.Running /\ ~st'.Restarting /\ ~st'.Paused /\ st'.Pid = pid[t]
  BY <1>1, <1>2 DEF SetRunning, DataTypes, States
<1>9. Pending' = Pending /\ (Past' <=> Past) /\ pc'[Monitor] = pc[Monitor]
  BY <1>2, <1>6, <1>7, ThreadFacts DEF Pending, Past
<1>10. Busy /\ Busy' /\ Current' = Current
  BY <1>2, <1>3, <1>8 DEF Busy, Current
<1>11. pc[Monitor] # "exit"
  BY <1>1, <1>3 DEF EventsOK
<1>12. EventsOK'
  BY <1>1, <1>2, <1>9, <1>10, <1>11 DEF EventsOK
<1>13. RestartOK'
  <2>1. ~Owned'
    <3>1. CASE t = Restarter
      BY <3>1, <1>4, <1>5 DEF Owned
    <3>2. CASE t # Restarter
      <4>1. ~st.Restarting
        BY <3>2, <1>1, <1>3 DEF LockOK, RestartOK
      <4> QED BY <4>1, <3>2, <1>1, <1>7, ThreadFacts DEF RestartOK, Owned
    <3> QED BY <3>1, <3>2
  <2> QED BY <2>1, <1>8 DEF RestartOK
<1>14. PauseOK'
  BY <1>1, <1>2, <1>3, <1>8, <1>9, <1>10 DEF PauseOK, Alive
<1> QED BY <1>12, <1>13, <1>14

\* The exit is handled: the container has no process and no events.
LEMMA ExitHandles ==
    ASSUME IInv, Exit
    PROVE  EventsOK' /\ RestartOK' /\ PauseOK'
<1>1. DataTypes /\ LockOK /\ EventsOK /\ RestartOK /\ PauseOK /\ ControlTypes
  BY DEF IInv
<1>2. /\ pc[Monitor] = "exit" /\ lock = Free /\ task' = NoTask
      /\ UNCHANGED <<registered, lock, starts, err, pid>>
  BY DEF Exit, locals, Unlocked
<1>3. Pending = queue /\ queue \in Seq(EventType) /\ queue # <<>> /\ Tail(queue) = <<>>
      /\ Busy /\ ~st.Restarting /\ restartCount < starts
  <2>1. Pending = queue /\ queue \in Seq(EventType)
    BY <1>1, <1>2 DEF Pending, Past, DataTypes, EventType
  <2>2. Busy /\ ~st.Restarting /\ queue # <<>> /\ queue[1].type = "exit" /\ restartCount < starts
    BY <1>1, <1>2, <2>1 DEF EventsOK, Busy
  <2>3. 1 \in DOMAIN queue
    BY <2>1, <2>2
  <2>4. Len(queue) = 1
    BY <2>1, <2>2, <2>3, <1>1 DEF EventsOK
  <2>5. Tail(queue) = <<>>
    <3>1. Tail(queue) \in Seq(EventType) /\ Len(Tail(queue)) = 0
      BY <2>1, <2>2, <2>4
    <3> QED BY <3>1, EmptySeq
  <2> QED BY <2>1, <2>2, <2>5
<1>4. task'.state = "none" /\ task'.frozen = FALSE /\ ~Alive'
  BY <1>2 DEF NoTask, Alive
<1>5. CASE ExitRestarts(Head(queue).code)
  <2>1. /\ st'.Restarting /\ st'.Running /\ st'.Pid = 0 /\ ~st'.Paused
        /\ queue' = Tail(queue) /\ pc'[Monitor] = "idle" /\ pc'[Restarter] = "backoff"
        /\ restartCount' = restartCount + 1
    BY <1>1, <1>5, ThreadFacts DEF ExitRestarts, SetRestarting, DataTypes, States, ControlTypes
  <2>2. ~Past' /\ Pending' = <<>> /\ ~Busy'
    BY <2>1, <1>2, <1>3 DEF Past, Pending, Busy
  <2>3. EventsOK'
    BY <2>1, <2>2, <1>2, <1>4 DEF EventsOK
  <2> QED BY <2>1, <2>2, <2>3, <1>2, <1>4 DEF RestartOK, Owned, PauseOK
<1>6. CASE ExitStops(Head(queue).code)
  <2>1. /\ ~st'.Restarting /\ ~st'.Running /\ st'.Pid = 0 /\ ~st'.Paused
        /\ queue' = queue /\ pc'[Monitor] = "autoRemove" /\ pc'[Restarter] = pc[Restarter]
        /\ restartCount' = restartCount
    BY <1>1, <1>6, ThreadFacts DEF ExitStops, SetStopped, DataTypes, States, ControlTypes, manager
  <2>2. Past' /\ Pending' = <<>> /\ ~Busy'
    BY <2>1, <1>2, <1>3 DEF Past, Pending, Busy
  <2>3. EventsOK'
    BY <2>1, <2>2, <1>2, <1>3, <1>4 DEF EventsOK
  <2>4. RestartOK'
    BY <2>1, <1>1, <1>2, <1>3 DEF RestartOK, Owned
  <2> QED BY <2>1, <2>2, <2>3, <2>4, <1>2, <1>4 DEF PauseOK
<1> QED BY <1>5, <1>6 DEF Exit

\* The process, its events and its flags agree after every step.
LEMMA EventsKept ==
    ASSUME IInv, Next
    PROVE  EventsOK' /\ RestartOK' /\ PauseOK'
<1>1. DataTypes /\ LockOK /\ EventsOK /\ RestartOK /\ PauseOK /\ ControlTypes /\ ControlOK /\ RemovalOK
  BY DEF IInv
<1>2. restartCount \in Nat /\ starts \in Nat
  BY <1>1, LifecycleAssumption DEF DataTypes, Pids, ControlTypes, ScenarioType
<1>3. CASE \E t \in Clients, o \in AllOps : Request(t, o)
  <2>1. PICK t \in Clients, o \in AllOps : Request(t, o)
    BY <1>3
  <2>2. /\ UNCHANGED <<st, registered, lock, task, queue, starts, pid, restartCount, err>>
        /\ pc'[Monitor] = pc[Monitor] /\ pc'[Restarter] = pc[Restarter]
    BY <2>1, <1>1, ThreadFacts DEF Request, Call, manager, runtime, ControlTypes
  <2>3. Pending' = Pending /\ (Past' <=> Past) /\ (Owned' <=> Owned) /\ (Past => queue # <<>>)
    BY <2>2, <1>1 DEF Pending, Past, Owned, EventsOK
  <2> QED BY <2>2, <2>3, <1>1, Frame
<1>4. CASE \E t \in Threads : Step(t)
  <2>1. PICK t \in Threads : Step(t)
    BY <1>4
  <2>2. (Past' <=> Past) /\ (pc'[Monitor] = "exit" => pc[Monitor] = "exit")
        /\ (pc'[Monitor] = pc[Monitor] \/ (Past /\ Past'))
    BY <2>1, StepCounters, ThreadFacts DEF Past
  <2>3. ~Started(t) => (Owned' <=> Owned)
    BY <2>1, OwnedKept
  <2>4. ASSUME queue' = queue PROVE Pending' = Pending /\ (Past' => queue' # <<>>)
    BY <2>2, <2>4, <1>1 DEF Pending, EventsOK
  <2>5. CASE Quiet(t)
    <3>1. /\ UNCHANGED <<st, registered, lock, queue, starts, restartCount>> /\ pc[t] # "started"
          /\ lock # Free => pid' = pid
      BY <2>5 DEF Quiet, Unlocked
    <3>2. /\ task'.state = task.state /\ task'.pid = task.pid /\ task'.frozen = task.frozen
          /\ task = NoTask => task' = NoTask
      BY <2>5, <1>1 DEF Quiet, Signalled, DataTypes, NoTask, Alive
    <3>3. ~Started(t)
      BY <3>1 DEF Started
    <3> QED BY <2>2, <2>3, <2>4, <3>1, <3>2, <3>3, <1>1, Frame
  <2>6. CASE (Resumes \/ Pauses \/ Unpauses) /\ pc[t] # "started"
    <3>1. ~Started(t)
      BY <2>6 DEF Started
    <3>2. /\ lock = Free /\ Alive /\ UNCHANGED <<lock, registered, starts, restartCount>>
          /\ st'.Running = st.Running /\ st'.Restarting = st.Restarting /\ st'.Pid = st.Pid
          /\ (st.Running /\ ~st.Restarting) \/ st.Paused
      BY <2>6, <1>1 DEF Resumes, Pauses, Unpauses, Unlocked, manager, DataTypes, States
    <3>3. registered
      BY <3>2, <1>1 DEF LockOK, DataTypes
    <3>4. Busy
      BY <3>2, <3>3, <1>1 DEF PauseOK, Busy
    <3>5. \E type \in {"paused", "resumed"} :
             /\ queue' = Append(queue, Event(type)) /\ task'.frozen = (type = "paused")
             /\ task'.state = task.state /\ task'.pid = task.pid
      <4>1. CASE Resumes
        <5>1. queue' = Append(queue, Event("resumed")) /\ task'.frozen = FALSE
              /\ task'.state = task.state /\ task'.pid = task.pid
          BY <4>1, <1>1 DEF Resumes, Signalled, DataTypes
        <5> QED BY <5>1
      <4>2. CASE Pauses
        <5>1. queue' = Append(queue, Event("paused")) /\ task'.frozen = TRUE
              /\ task'.state = task.state /\ task'.pid = task.pid
          BY <4>2, <1>1 DEF Pauses, PauseTask, DataTypes
        <5> QED BY <5>1
      <4>3. CASE Unpauses
        <5>1. queue' = Append(queue, Event("resumed")) /\ task'.frozen = FALSE
              /\ task'.state = task.state /\ task'.pid = task.pid
          BY <4>3, <1>1 DEF Unpauses, ResumeTask, DataTypes
        <5> QED BY <5>1
      <4> QED BY <2>6, <4>1, <4>2, <4>3
    <3> QED BY <2>2, <2>3, <3>1, <3>2, <3>4, <3>5, <1>1, Flipped
  <2>7. CASE StartFails(t)
    <3>1. /\ st'.Running = st.Running /\ st'.Restarting = st.Restarting /\ st'.Pid = st.Pid
          /\ st'.Paused = st.Paused /\ pc[t] = "start"
          /\ UNCHANGED <<registered, lock, task, queue, starts, pid>>
          /\ restartCount' \in {restartCount, 0}
      BY <2>7, <1>1 DEF StartFails, Starts, StartFailure, DataTypes, States, runtime, locals,
            manager,
            ResetForStart, ResetRestart
    <3>2. ~Started(t)
      BY <3>1 DEF Started
    <3> QED BY <2>2, <2>3, <2>4, <3>1, <3>2, <1>1, <1>2, Frame
  <2>8. CASE StartsTask(t)
    BY <2>1, <2>8, TaskStarted
  <2>9. CASE Started(t)
    BY <2>9, ContainerStarted
  <2>10. CASE Rm(t) \/ RmDead(t) \/ Forgets(t) \/ RmEnd(t)
    <3>1. /\ st'.Running = st.Running /\ st'.Restarting = st.Restarting /\ st'.Pid = st.Pid
          /\ st'.Paused = st.Paused /\ pc[t] # "started" /\ (registered' => registered)
          /\ UNCHANGED <<lock, task, queue, starts, pid, restartCount>>
      <4>1. CASE Rm(t)
        BY <4>1, <1>1 DEF Rm, DataTypes, States, runtime, locals, manager
      <4>2. CASE RmDead(t) \/ RmEnd(t)
        BY <4>2, <1>1 DEF RmDead, RmEnd, DataTypes, States, runtime, locals, manager
      <4>3. CASE Forgets(t)
        BY <4>3, <1>1 DEF Forgets, RmStorage, RmRemoved, Goto, SetError, DataTypes, States, runtime, locals, manager
      <4> QED BY <2>10, <4>1, <4>2, <4>3
    <3>2. ~Started(t)
      BY <3>1 DEF Started
    <3> QED BY <2>2, <2>3, <2>4, <3>1, <3>2, <1>1, Frame
  <2>11. manual \in BOOLEAN
    BY <1>1 DEF DataTypes
  <2> QED BY <2>1, <2>5, <2>6, <2>7, <2>8, <2>9, <2>10, <2>11, StepKinds
<1>5. CASE Handle
  <2>1. ASSUME pc[Monitor] = "idle", queue # <<>>
        PROVE  /\ Pending = queue /\ Pending # <<>> /\ Head(queue) = queue[1] /\ 1 \in DOMAIN queue
               /\ Busy /\ queue[1].pid = Current
    <3>1. Pending = queue /\ queue \in Seq(EventType)
      BY <2>1, <1>1 DEF Pending, Past, DataTypes, EventType
    <3>2. Head(queue) = queue[1] /\ 1 \in DOMAIN queue
      BY <2>1, <3>1
    <3>3. Busy
      BY <2>1, <3>1, <1>1 DEF EventsOK
    <3> QED BY <2>1, <3>1, <3>2, <3>3, <1>1 DEF EventsOK
  <2>2. CASE EventDropped
    <3>1. /\ pc[Monitor] = "idle" /\ queue # <<>> /\ ~registered /\ queue' = Tail(queue)
          /\ UNCHANGED <<st, pc, err, lock, task, starts, pid, restartCount, registered>>
      BY <2>2 DEF EventDropped, control, locals, manager
    <3>2. lock = Free
      BY <3>1, <1>1 DEF LockOK
    <3> QED BY <3>1, <3>2, <1>1, Dequeued
  <2>3. CASE EventStart \/ EventPaused \/ EventResumed
    <3>1. /\ pc[Monitor] = "idle" /\ queue # <<>> /\ registered /\ lock = Free /\ queue' = Tail(queue)
          /\ UNCHANGED <<pc, err, lock, task, starts, pid, restartCount, registered>>
      BY <2>3 DEF EventStart, EventPaused, EventResumed, Handles, control, locals, manager, Unlocked
    <3>2. st.Running
      BY <2>1, <3>1 DEF Busy
    <3>3. /\ st'.Running = st.Running /\ st'.Restarting = st.Restarting /\ st'.Pid = st.Pid
          /\ Head(queue).type # "exit"
          /\ Flip(Head(queue)) => st'.Paused = (Head(queue).type = "paused")
          /\ ~Flip(Head(queue)) => st'.Paused = st.Paused
      <4>1. CASE EventStart
        BY <4>1, <3>2 DEF EventStart, Handles, Flip
      <4>2. CASE EventPaused
        BY <4>2, <1>1 DEF EventPaused, Handles, Flip, DataTypes, States
      <4>3. CASE EventResumed
        BY <4>3, <1>1 DEF EventResumed, Handles, Flip, DataTypes, States
      <4> QED BY <2>3, <4>1, <4>2, <4>3
    <3> QED BY <3>1, <3>3, <1>1, Dequeued
  <2>4. CASE EventExit
    <3>1. /\ pc[Monitor] = "idle" /\ queue # <<>> /\ Head(queue).type = "exit"
          /\ UNCHANGED <<st, lock, task, starts, pid, restartCount, registered>>
      BY <2>4 DEF EventExit, Handles, locals, manager
    <3>2. lock = Free
      BY <2>1, <3>1, <1>1 DEF EventsOK
    <3>3. Head(queue).pid = st.Pid /\ st.Running /\ ~st.Restarting
      BY <2>1, <3>1, <3>2 DEF Current, Busy
    <3>4. /\ queue' = queue /\ pc'[Monitor] = "exit" /\ pc'[Restarter] = pc[Restarter] /\ err' = err
      BY <2>4, <3>3, <1>1, ThreadFacts DEF EventExit, Goto, ControlTypes
    <3>5. Pending' = Pending /\ ~Past' /\ ~Past
      BY <2>1, <3>1, <3>4 DEF Pending, Past
    <3>6. (Busy' <=> Busy) /\ Current' = Current /\ (Alive' <=> Alive) /\ (Owned' <=> Owned)
      BY <3>1, <3>4 DEF Busy, Current, Alive, Owned
    <3>7. EventsOK'
      BY <2>1, <3>1, <3>2, <3>3, <3>4, <3>5, <3>6, <1>1 DEF EventsOK
    <3>8. RestartOK' /\ PauseOK'
      BY <3>1, <3>5, <3>6, <1>1 DEF RestartOK, PauseOK
    <3> QED BY <3>7, <3>8
  <2>5. CASE Exit
    BY <2>5, ExitHandles
  <2>6. CASE ExitAutoRemove \/ Handled
    <3>1. /\ UNCHANGED <<st, lock, task, starts, pid, restartCount, registered>>
          /\ Past /\ pc'[Restarter] = pc[Restarter] /\ err' = err /\ pc'[Monitor] \in {"rm", "idle"}
          /\ queue' = IF pc'[Monitor] = "rm" THEN queue ELSE Tail(queue)
      BY <2>6, <1>1, ThreadFacts DEF ExitAutoRemove, Handled, Goto, Call, locals, manager, Past,
            ControlTypes
    <3>2. Pending' = Pending /\ (Past' => queue' # <<>>)
      BY <3>1, <1>1 DEF Past, Pending, EventsOK
    <3>3. Owned' <=> Owned
      BY <3>1 DEF Owned
    <3> QED BY <3>1, <3>2, <3>3, <1>1, Frame
  <2> QED BY <1>5, <2>2, <2>3, <2>4, <2>5, <2>6 DEF Handle
<1>6. CASE Backoff
  <2>1. /\ UNCHANGED <<lock, task, queue, starts, pid, restartCount, registered>>
        /\ pc'[Monitor] = pc[Monitor] /\ err' = err
    BY <1>6, <1>1, ThreadFacts DEF Backoff, BackoffEnds, BackoffCanceled, Restarted, GiveUp,
          OnlyControl,
          Goto, locals, manager, runtime, ControlTypes
  <2>2. Pending' = Pending /\ (Past' <=> Past) /\ (Past => queue # <<>>)
    BY <2>1, <1>1 DEF Pending, Past, EventsOK
  <2>3. CASE BackoffEnds \/ BackoffCanceled \/ Restarted
    <3>1. st' = st /\ (Owned' <=> Owned)
      BY <2>1, <2>3, <1>1, ThreadFacts DEF BackoffEnds, BackoffCanceled, Restarted, Goto,
            OnlyControl,
            Owned, ControlTypes
    <3> QED BY <2>1, <2>2, <3>1, <1>1, Frame
  <2>4. CASE GiveUp
    <3>1. /\ ~st'.Running /\ ~st'.Restarting /\ ~st'.Paused /\ pc'[Restarter] = "idle"
          /\ pc[Restarter] = "giveUp" /\ lock = Free
      BY <2>4, <1>1, ThreadFacts DEF GiveUp, SetStopped, DataTypes, States, Goto, ControlTypes,
            Unlocked
    <3>2. ~Busy /\ ~Busy' /\ ~Owned'
      BY <3>1, <2>1, <1>1 DEF Busy, RestartOK, Owned
    <3>3. task = NoTask /\ Pending = <<>> /\ pc[Monitor] # "exit"
      BY <3>2, <1>1 DEF EventsOK, Busy
    <3>4. EventsOK'
      BY <2>1, <2>2, <3>1, <3>2, <3>3, <1>1 DEF EventsOK
    <3> QED BY <2>1, <2>2, <3>1, <3>2, <3>3, <3>4 DEF RestartOK, PauseOK
  <2> QED BY <1>6, <2>3, <2>4 DEF Backoff
<1>7. CASE \E code \in scenario.ExitCodes : ProcessExits(code)
  BY <1>7, <1>1, Exited
<1> QED BY <1>3, <1>4, <1>5, <1>6, <1>7 DEF Next

\* The lock protects what it should after every step.
LEMMA LockKept ==
    ASSUME IInv, Next
    PROVE  LockOK'
<1>1. DataTypes /\ LockOK /\ EventsOK /\ RestartOK /\ ControlTypes /\ RemovalOK
  BY DEF IInv
<1>f. ASSUME lock' = lock, \A u \in Threads : pc'[u] = "started" <=> pc[u] = "started",
             registered' = registered, st'.Dead = st.Dead,
             lock # Free => /\ ~st'.RemovalInProgress
                            /\ st'.Running = st.Running
                            /\ pid'[lock] = pid[lock] /\ task'.pid = task.pid,
             Alive' => Alive
      PROVE  LockOK'
  BY <1>1, <1>f DEF LockOK
<1>2. CASE \E t \in Clients, o \in AllOps : Request(t, o)
  <2>1. PICK t \in Clients, o \in AllOps : Request(t, o)
    BY <1>2
  <2>2. /\ UNCHANGED <<st, registered, lock, task, pid>>
        /\ pc[t] = "idle" /\ pc' = [pc EXCEPT ![t] = Entry[o]] /\ t \in Threads
    BY <2>1, ThreadFacts DEF Request, Call, runtime
  <2>3. Entry[o] # "started"
    BY DEF Entry, AllOps
  <2>4. \A u \in Threads : pc'[u] = "started" <=> pc[u] = "started"
    BY <2>2, <2>3, <1>1 DEF ControlTypes
  <2> QED BY <2>2, <2>4, <1>1, <1>f DEF Alive, LockOK
<1>3. CASE \E t \in Threads : Step(t)
  <2>1. PICK t \in Threads : Step(t)
    BY <1>3
  <2>2. /\ \A u \in Threads \ {t} : pc'[u] = pc[u]
        /\ pc'[t] = "started" => StartsTask(t)
    BY <2>1, StepCounters
  <2>3. ASSUME pc[t] # "started", ~StartsTask(t)
        PROVE  \A u \in Threads : pc'[u] = "started" <=> pc[u] = "started"
    BY <2>2, <2>3
  <2>4. CASE Quiet(t)
    <3>1. /\ UNCHANGED <<st, registered, lock>> /\ pc[t] # "started" /\ (lock # Free => pid' = pid)
          /\ starts' = starts
      BY <2>4 DEF Quiet, Unlocked
    <3>2. task'.pid = task.pid /\ (Alive' => Alive)
      BY <2>4, <1>1 DEF Quiet, Signalled, DataTypes, Alive
    <3>3. ~StartsTask(t)
      BY <3>1, <1>1, LifecycleAssumption DEF StartsTask, StartTask, DataTypes, Pids, ControlTypes,
            ScenarioType
    <3> QED BY <2>3, <3>1, <3>2, <3>3, <1>1, <1>f DEF LockOK
  <2>5. CASE (Resumes \/ Pauses \/ Unpauses) /\ pc[t] # "started"
    <3>1. /\ lock' = lock /\ lock = Free /\ registered' = registered /\ st'.Dead = st.Dead
          /\ starts' = starts
      BY <2>5, <1>1 DEF Resumes, Pauses, Unpauses, Unlocked, DataTypes, States
    <3>2. Alive' => Alive
      BY <2>5 DEF Resumes, Pauses, Unpauses
    <3>3. ~StartsTask(t)
      BY <3>1, <1>1, LifecycleAssumption DEF StartsTask, StartTask, DataTypes, Pids, ControlTypes,
            ScenarioType
    <3> QED BY <2>3, <2>5, <3>1, <3>2, <3>3, <1>f
  <2>6. CASE StartFails(t)
    <3>1. /\ UNCHANGED <<lock, registered, task, starts>> /\ lock = Free /\ st'.Dead = st.Dead
          /\ pc[t] # "started"
      BY <2>6, <1>1 DEF StartFails, Starts, StartFailure, Unlocked, runtime, DataTypes, States
    <3>2. ~StartsTask(t)
      BY <3>1, <1>1, LifecycleAssumption DEF StartsTask, StartTask, DataTypes, Pids, ControlTypes,
            ScenarioType
    <3> QED BY <2>3, <3>1, <3>2, <1>f DEF Alive
  <2>7. CASE StartsTask(t)
    <3>1. /\ lock = Free /\ lock' = t /\ UNCHANGED <<st, registered>>
          /\ ~(t # Restarter /\ st.Running) /\ ~st.RemovalInProgress /\ ~st.Dead
          /\ pid' = [pid EXCEPT ![t] = starts + 1] /\ pc' = [pc EXCEPT ![t] = "started"]
          /\ task' = [NoTask EXCEPT !.state = "running", !.pid = starts + 1]
      BY <2>7 DEF StartsTask, Starts, StartTask, Goto, Resets, Unlocked
    <3>2. pid'[t] = starts + 1 /\ task'.pid = starts + 1
      BY <3>1, <1>1 DEF DataTypes, NoTask
    <3>3. \A u \in Threads : lock' = u <=> pc'[u] = "started"
      BY <3>1, <1>1, ThreadFacts DEF LockOK, ControlTypes
    <3>4. registered
      BY <3>1, <1>1 DEF LockOK
    <3> QED BY <3>1, <3>2, <3>3, <3>4 DEF LockOK
  <2>8. CASE Started(t)
    <3>1. /\ pc[t] = "started" /\ lock' = Free /\ UNCHANGED <<registered, task>> /\ st'.Dead = st.Dead
      BY <2>8, <1>1 DEF Started, runtime, SetRunning, DataTypes, States
    <3>2. lock = t
      BY <3>1, <1>1 DEF LockOK
    <3>3. pc'[t] # "started"
      <4>1. ~StartsTask(t)
        BY <3>1 DEF StartsTask, Starts
      <4> QED BY <4>1, <2>2
    <3>4. \A u \in Threads : pc'[u] # "started"
      BY <2>2, <3>2, <3>3, <1>1 DEF LockOK
    <3> QED BY <3>1, <3>4, <1>1, ThreadFacts DEF LockOK, Alive
  <2>9. CASE Rm(t) \/ RmEnd(t)
    <3>1. /\ UNCHANGED <<lock, registered, task, starts>> /\ lock = Free /\ st'.Dead = st.Dead
          /\ pc[t] # "started"
      BY <2>9, <1>1 DEF Rm, RmEnd, Unlocked, runtime, DataTypes, States
    <3>2. ~StartsTask(t)
      BY <3>1, <1>1, LifecycleAssumption DEF StartsTask, StartTask, DataTypes, Pids, ControlTypes,
            ScenarioType
    <3> QED BY <2>3, <3>1, <3>2, <1>f DEF Alive
  <2>10. CASE RmDead(t)
    <3>1. /\ UNCHANGED <<lock, registered, task, starts>> /\ lock = Free /\ pc[t] = "rmDead"
          /\ st'.Dead
      BY <2>10, <1>1 DEF RmDead, Unlocked, runtime, DataTypes, States
    <3>2. ~StartsTask(t)
      BY <3>1 DEF StartsTask, Starts
    <3>3. ~Alive
      BY <3>1 DEF IInv, StopOK, Knows, Guarded, Removing, Over
    <3> QED BY <2>3, <3>1, <3>2, <3>3, <1>1 DEF LockOK, Alive
  <2>11. CASE Forgets(t)
    <3>1. /\ UNCHANGED <<lock, task, starts>> /\ pc[t] \in {"rmStorage", "rmRemoved"}
          /\ st'.Dead = st.Dead
      <4>1. CASE RmStorage(t)
        BY <4>1, <1>1 DEF RmStorage, SetError, runtime, DataTypes, States
      <4>2. CASE RmRemoved(t)
        BY <4>2, <1>1 DEF RmRemoved, SetError, runtime, DataTypes, States
      <4> QED BY <2>11, <4>1, <4>2 DEF Forgets
    <3>2. ~StartsTask(t)
      BY <3>1 DEF StartsTask, Starts
    <3>3. st.Dead /\ lock = Free
      BY <3>1, <1>1 DEF LockOK, RemovalOK
    <3> QED BY <2>3, <3>1, <3>2, <3>3, <1>1 DEF LockOK, Alive
  <2>12. manual \in BOOLEAN
    BY <1>1 DEF DataTypes
  <2> QED BY <2>1, <2>4, <2>5, <2>6, <2>7, <2>8, <2>9, <2>10, <2>11, <2>12, StepKinds
<1>4. CASE Handle
  <2>1. /\ UNCHANGED <<lock, registered, pid>> /\ st'.Dead = st.Dead
        /\ st'.RemovalInProgress = st.RemovalInProgress
    BY <1>4, <1>1, ZenonT(60) DEF Handle, EventDropped, EventStart, EventPaused, EventResumed, EventExit, Exit,
          ExitRestarts, ExitStops, ExitAutoRemove, Handled, SetRunning, SetStopped, SetRestarting,
          DataTypes, States, locals
  <2>2. \A u \in Threads : pc'[u] = "started" <=> pc[u] = "started"
    <3>1. CASE Exit
      <4>1. pc[Monitor] # "started" /\ pc[Restarter] # "started"
        BY <3>1, <1>1, ThreadFacts DEF Exit, Unlocked, LockOK
      <4> QED BY <3>1, <4>1, <1>1, ThreadFacts DEF Exit, ExitRestarts, ExitStops, ControlTypes
    <3>2. CASE ~Exit
      BY <3>2, <1>4, <1>1, ThreadFacts DEF Handle, EventDropped, EventStart, EventPaused,
            EventResumed,
            EventExit, ExitAutoRemove, Handled, Goto, Call, control, ControlTypes, Handles
    <3> QED BY <3>1, <3>2
  <2>3. lock # Free => st' = st /\ task' = task
    BY <1>4 DEF Handle, EventDropped, EventStart, EventPaused, EventResumed, EventExit, Exit,
          ExitAutoRemove, Handled, Unlocked
  <2>4. Alive' => Alive
    BY <1>4 DEF Handle, EventDropped, EventStart, EventPaused, EventResumed, EventExit, Exit,
          ExitAutoRemove, Handled, Alive, NoTask
  <2> QED BY <2>1, <2>2, <2>3, <2>4, <1>1, <1>f DEF LockOK
<1>5. CASE Backoff
  <2>1. /\ UNCHANGED <<lock, registered, pid, task>> /\ st'.Dead = st.Dead
        /\ lock # Free => st' = st
    BY <1>5, <1>1 DEF Backoff, BackoffEnds, BackoffCanceled, Restarted, GiveUp, OnlyControl,
          SetStopped,
          DataTypes, States, locals, runtime, Unlocked
  <2>2. \A u \in Threads : pc'[u] = "started" <=> pc[u] = "started"
    BY <1>5, <1>1, ThreadFacts DEF Backoff, BackoffEnds, BackoffCanceled, Restarted, GiveUp, Goto,
          ControlTypes
  <2> QED BY <2>1, <2>2, <1>1, <1>f DEF LockOK, Alive
<1>6. CASE \E code \in scenario.ExitCodes : ProcessExits(code)
  <2>1. UNCHANGED <<lock, registered, pid, st, pc>> /\ task'.pid = task.pid /\ ~Alive'
    BY <1>6, <1>1 DEF ProcessExits, locals, control, DataTypes, Alive
  <2> QED BY <2>1, <1>1, <1>f DEF LockOK
<1> QED BY <1>2, <1>3, <1>4, <1>5, <1>6 DEF Next

\* The setters of State keep its type.
LEMMA StateSetters ==
    ASSUME NEW P, NEW C, NEW s \in States(P, C), NEW p \in P, NEW c \in C, 0 \in P, 0 \in C,
           NEW b \in BOOLEAN
    PROVE  /\ SetRunning(s, p) \in States(P, C) /\ SetStopped(s, c) \in States(P, C)
           /\ SetRestarting(s, c) \in States(P, C) /\ SetError(s, b) \in States(P, C)
           /\ [s EXCEPT !.Paused = b] \in States(P, C) /\ [s EXCEPT !.Dead = b] \in States(P, C)
           /\ [s EXCEPT !.RemovalInProgress = b] \in States(P, C)
<1>1. SetRunning(s, p) \in States(P, C)
  BY DEF SetRunning, States
<1>2. SetStopped(s, c) \in States(P, C)
  BY DEF SetStopped, States
<1>3. SetRestarting(s, c) \in States(P, C)
  BY DEF SetRestarting, States
<1>4. SetError(s, b) \in States(P, C)
  BY DEF SetError, States
<1>5. [s EXCEPT !.Paused = b] \in States(P, C)
  BY DEF States
<1>6. [s EXCEPT !.Dead = b] \in States(P, C)
  BY DEF States
<1>7. [s EXCEPT !.RemovalInProgress = b] \in States(P, C)
  BY DEF States
<1> QED BY <1>1, <1>2, <1>3, <1>4, <1>5, <1>6, <1>7

\* The types of the container, its process and its events.
LEMMA TypesKept ==
    ASSUME IInv, Next
    PROVE  DataTypes'
<1> DEFINE Codes == scenario.ExitCodes \cup {0, 127, 128}
           StateType == States(Pids, Codes)
           TaskType == [state : {"none", "running", "exited"}, pid : Pids, frozen : BOOLEAN,
                        signal : {"none", "term", "kill"}]
           ManagerType == [canceled : BOOLEAN, active : BOOLEAN]
           RestartType == [canceled : BOOLEAN, code : scenario.ExitCodes \cup {0}]
<1>1. DataTypes /\ LockOK /\ EventsOK /\ ControlTypes
  BY DEF IInv
<1>2. /\ st \in StateType /\ manual \in BOOLEAN /\ registered \in BOOLEAN
      /\ restartCount \in 0 .. starts /\ rm \in ManagerType /\ restart \in RestartType
      /\ lock \in Threads \cup {Free} /\ task \in TaskType /\ queue \in Seq(EventType)
      /\ starts \in Pids /\ calls \in 0 .. scenario.MaxCalls /\ pid \in [Threads -> Pids]
  BY <1>1 DEF DataTypes, EventType
<1>3. scenario.MaxStarts \in Nat /\ scenario.MaxCalls \in Nat /\ 0 \in Pids /\ starts \in Nat
      /\ restartCount \in Nat
  BY <1>1, <1>2, LifecycleAssumption DEF ControlTypes, ScenarioType, Pids
<1>4. NoTask \in TaskType /\ NewManager \in ManagerType
  BY <1>3 DEF NoTask, NewManager
<1>5. ASSUME scenario' = scenario, st' \in StateType, manual' \in BOOLEAN, registered' \in BOOLEAN,
             restartCount' \in 0 .. starts', rm' \in ManagerType, restart' \in RestartType,
             lock' \in Threads \cup {Free}, task' \in TaskType, queue' \in Seq(EventType),
             starts' \in Pids, calls' \in 0 .. scenario.MaxCalls, pid' \in [Threads -> Pids]
      PROVE  DataTypes'
  BY <1>5 DEF DataTypes, Pids, EventType
<1>6. /\ [rm EXCEPT !.canceled = TRUE] \in ManagerType
      /\ [rm EXCEPT !.active = FALSE] \in ManagerType /\ [rm EXCEPT !.active = TRUE] \in ManagerType
      /\ [restart EXCEPT !.canceled = @ \/ pc[Restarter] = "backoff"] \in RestartType
  BY <1>2
<1>7. ASSUME NEW type \in {"paused", "resumed"} PROVE Event(type) \in EventType
  BY <1>2 DEF Event, EventType
<1>8. ASSUME NEW sig \in {"term", "kill"}
      PROVE  /\ Signalled(sig) \in TaskType
             /\ [Signalled(sig) EXCEPT !.frozen = FALSE] \in TaskType
  BY <1>2 DEF Signalled
<1> HIDE DEF StateType, TaskType, ManagerType, RestartType
<1>9. ASSUME NEW p \in Pids, NEW c \in scenario.ExitCodes \cup {0}, NEW b \in BOOLEAN
      PROVE  /\ SetRunning(st, p) \in StateType /\ SetStopped(st, c) \in StateType
             /\ SetRestarting(st, c) \in StateType /\ SetError(st, b) \in StateType
             /\ [st EXCEPT !.Paused = b] \in StateType /\ [st EXCEPT !.Dead = b] \in StateType
             /\ [st EXCEPT !.RemovalInProgress = b] \in StateType
  <2>1. c \in Codes /\ 0 \in Codes
    OBVIOUS
  <2>2. st \in States(Pids, Codes)
    BY <1>2 DEF StateType
  <2> HIDE DEF Codes
  <2>3. /\ SetRunning(st, p) \in States(Pids, Codes) /\ SetStopped(st, c) \in States(Pids, Codes)
        /\ SetRestarting(st, c) \in States(Pids, Codes) /\ SetError(st, b) \in States(Pids, Codes)
        /\ [st EXCEPT !.Paused = b] \in States(Pids, Codes)
        /\ [st EXCEPT !.Dead = b] \in States(Pids, Codes)
        /\ [st EXCEPT !.RemovalInProgress = b] \in States(Pids, Codes)
    BY <2>1, <2>2, <1>3, StateSetters
  <2> QED BY <2>3 DEF StateType
<1>10. CASE \E t \in Clients, o \in AllOps : Request(t, o)
  <2>1. UNCHANGED <<scenario, st, manual, registered, restartCount, rm, restart, lock, task, queue, starts, pid>>
        /\ calls' = calls + 1 /\ calls < scenario.MaxCalls
    BY <1>10 DEF Request, manager, runtime
  <2>2. calls' \in 0 .. scenario.MaxCalls
    BY <2>1, <1>2, <1>3
  <2> QED BY <2>1, <2>2, <1>2, <1>5
<1>11. CASE \E t \in Threads : Step(t)
  <2>1. PICK t \in Threads : Step(t)
    BY <1>11
  <2>2. scenario' = scenario /\ calls' = calls
    BY <2>1, <1>1, StepLocals
  <2>3. CASE Quiet(t)
    <3>1. /\ UNCHANGED <<st, registered, lock, queue, starts, restartCount>> /\ manual' \in BOOLEAN
          /\ task' = task \/ \E sig \in {"term", "kill"} : task' = Signalled(sig)
          /\ rm' \in {rm, [rm EXCEPT !.canceled = TRUE]}
          /\ restart' \in {restart, [restart EXCEPT !.canceled = @ \/ pc[Restarter] = "backoff"]}
          /\ pid' \in {pid, [pid EXCEPT ![t] = st.Pid]}
      BY <2>3 DEF Quiet
    <3>2. pid' \in [Threads -> Pids]
      BY <3>1, <1>2 DEF StateType, States
    <3> QED BY <2>2, <3>1, <3>2, <1>2, <1>5, <1>6, <1>8
  <2>4. CASE Resumes
    <3>1. /\ UNCHANGED <<st, registered, lock, starts, restartCount, pid>> /\ manual' = TRUE
          /\ rm' = [rm EXCEPT !.canceled = TRUE]
          /\ restart' = [restart EXCEPT !.canceled = @ \/ pc[Restarter] = "backoff"]
          /\ task' \in TaskType
      BY <2>4, <1>8 DEF Resumes
    <3>2. queue' \in Seq(EventType)
      BY <2>4, <1>2, <1>7 DEF Resumes
    <3> QED BY <2>2, <3>1, <3>2, <1>2, <1>5, <1>6
  <2>5. CASE Pauses \/ Unpauses
    <3>1. /\ UNCHANGED <<registered, lock, starts, restartCount, rm, restart, pid, manual>>
      BY <2>5 DEF Pauses, Unpauses, manager
    <3>2. queue' \in Seq(EventType)
      BY <2>5, <1>2, <1>7, SMTT(30) DEF Pauses, Unpauses, PauseTask, ResumeTask
    <3>3. st' \in StateType
      BY <2>5, <1>3, <1>9 DEF Pauses, Unpauses
    <3>4. task' \in TaskType
      BY <2>5, <1>2 DEF Pauses, Unpauses, PauseTask, ResumeTask, TaskType
    <3> QED BY <2>2, <3>1, <3>2, <3>3, <3>4, <1>2, <1>5
  <2>6. CASE StartFails(t)
    <3>1. /\ UNCHANGED <<registered, lock, starts, task, queue, pid>>
          /\ restartCount' \in {restartCount, 0} /\ manual' \in BOOLEAN
          /\ rm' \in {rm, NewManager}
          /\ restart' \in {restart, [restart EXCEPT !.canceled = @ \/ pc[Restarter] = "backoff"]}
      BY <2>6, <1>2 DEF StartFails, runtime, locals, manager, ResetForStart, ResetRestart
    <3>2. st' \in StateType
      BY <2>6, <1>2, ZenonT(60) DEF StartFails, StartFailure, StateType, States
    <3>3. restartCount' \in 0 .. starts
      BY <3>1, <1>2, <1>3
    <3> QED BY <2>2, <3>1, <3>2, <3>3, <1>2, <1>4, <1>5, <1>6
  <2>7. CASE StartsTask(t)
    <3>1. /\ UNCHANGED <<st, registered>> /\ lock' = t /\ starts' = starts + 1
          /\ starts < scenario.MaxStarts
          /\ task' = [NoTask EXCEPT !.state = "running", !.pid = starts + 1]
          /\ queue' = Append(queue, [type |-> "start", pid |-> starts + 1, code |-> 0])
          /\ pid' = [pid EXCEPT ![t] = starts + 1]
          /\ restartCount' \in {restartCount, 0} /\ manual' \in BOOLEAN
          /\ rm' \in {rm, NewManager}
          /\ restart' \in {restart, [restart EXCEPT !.canceled = @ \/ pc[Restarter] = "backoff"]}
      BY <2>7, <1>2 DEF StartsTask, StartTask, manager, ResetForStart, ResetRestart
    <3>2. starts' \in Pids /\ starts + 1 \in Pids /\ restartCount' \in 0 .. starts'
      BY <3>1, <1>2, <1>3 DEF Pids
    <3>3. task' \in TaskType
      BY <3>1, <3>2 DEF TaskType, NoTask
    <3>4. queue' \in Seq(EventType)
      BY <3>1, <3>2, <1>2 DEF EventType
    <3>5. pid' \in [Threads -> Pids]
      BY <3>1, <3>2, <1>2
    <3> QED BY <2>2, <3>1, <3>2, <3>3, <3>4, <3>5, <1>2, <1>4, <1>5, <1>6
  <2>8. CASE Started(t)
    <3>1. /\ UNCHANGED <<registered, starts, task, queue, pid, restartCount, rm, restart, manual>>
          /\ lock' = Free /\ st' = SetRunning(st, pid[t])
      BY <2>8 DEF Started, runtime, locals, manager
    <3>2. st' \in StateType
      BY <3>1, <1>2, ZenonT(60) DEF SetRunning, StateType, States
    <3> QED BY <2>2, <3>1, <3>2, <1>2, <1>5
  <2>9. CASE Rm(t) \/ RmDead(t) \/ RmEnd(t)
    <3>1. UNCHANGED <<registered, lock, starts, task, queue, pid, restartCount, rm, restart, manual>>
      BY <2>9 DEF Rm, RmDead, RmEnd, runtime, locals, manager
    <3>2. st' \in StateType
      BY <2>9, <1>2, <1>3, <1>9 DEF Rm, RmDead, RmEnd
    <3> QED BY <2>2, <3>1, <3>2, <1>2, <1>5
  <2>10. CASE Forgets(t)
    <3>1. /\ UNCHANGED <<lock, starts, task, queue, pid, restartCount, rm, restart, manual>>
          /\ registered' \in BOOLEAN
      BY <2>10, <1>2 DEF Forgets, RmStorage, RmRemoved, Goto, runtime, locals, manager
    <3>2. st' \in StateType
      <4>1. SetError(st, TRUE) \in StateType /\ SetError(st, FALSE) \in StateType
        BY <1>2, ZenonT(60) DEF SetError, StateType, States
      <4> QED BY <2>10, <4>1, <1>2 DEF Forgets, RmStorage, RmRemoved
    <3> QED BY <2>2, <3>1, <3>2, <1>2, <1>5
  <2> QED BY <2>1, <2>3, <2>4, <2>5, <2>6, <2>7, <2>8, <2>9, <2>10, <1>2, StepKinds
<1>12. CASE Handle
  <2>1. /\ UNCHANGED <<scenario, registered, lock, starts, pid, calls>>
        /\ manual' \in BOOLEAN /\ task' \in {task, NoTask}
    BY <1>12, <1>2 DEF Handle, EventDropped, EventStart, EventPaused, EventResumed, EventExit, Exit,
          ExitAutoRemove, Handled, locals
  <2>2. queue # <<>>
    <3>1. CASE ~Past
      BY <3>1, <1>1, <1>12 DEF Handle, EventDropped, EventStart, EventPaused, EventResumed,
            EventExit, Exit,
          ExitAutoRemove, Handled, Past, EventsOK, Pending, Handles
    <3>2. CASE Past
      BY <3>2, <1>1 DEF EventsOK
    <3> QED BY <3>1, <3>2
  <2>3. Head(queue) \in EventType /\ Tail(queue) \in Seq(EventType)
    BY <2>2, <1>2
  <2>4. queue' \in {queue, Tail(queue)}
    BY <1>12 DEF Handle, EventDropped, EventStart, EventPaused, EventResumed, EventExit, Exit,
          ExitRestarts, ExitStops, ExitAutoRemove, Handled
  <2>5. CASE ~Exit
    <3>1. UNCHANGED <<restartCount, rm, restart>>
      BY <1>12, <2>5 DEF Handle, EventDropped, EventStart, EventPaused, EventResumed, EventExit,
          ExitAutoRemove, Handled, manager
    <3>2. CASE st' = st
      BY <2>1, <2>3, <2>4, <3>1, <3>2, <1>2, <1>4, <1>5
    <3>3. CASE st' # st
      <4>1. \/ st' = SetRunning(st, Head(queue).pid) \/ \E b \in BOOLEAN : st' = [st EXCEPT !.Paused = b]
        BY <1>12, <2>5, <3>3 DEF Handle, EventDropped, EventStart, EventPaused, EventResumed,
              EventExit,
            ExitAutoRemove, Handled
      <4>2. st' \in StateType
        <5>1. Head(queue).pid \in Pids
          BY <2>3 DEF EventType
        <5> QED BY <4>1, <5>1, <1>9
      <4> QED BY <2>1, <2>3, <2>4, <3>1, <4>2, <1>2, <1>4, <1>5
    <3> QED BY <3>2, <3>3
  <2>6. CASE Exit
    <3>1. restartCount < starts
      BY <2>6, <1>1 DEF Exit, EventsOK, Busy
    <3>2. Head(queue).code \in scenario.ExitCodes \cup {0}
      BY <2>3 DEF EventType
    <3>3. CASE ExitRestarts(Head(queue).code)
      <4>1. /\ st' \in StateType
        BY <3>2, <3>3, <1>3, <1>9 DEF ExitRestarts
      <4>2. restart' \in RestartType
        BY <3>2, <3>3 DEF ExitRestarts, RestartType
      <4>3. rm' = [rm EXCEPT !.active = TRUE] /\ restartCount' = restartCount + 1
        BY <3>3 DEF ExitRestarts
      <4>4. restartCount' \in 0 .. starts'
        BY <4>3, <3>1, <2>1, <1>2, <1>3
      <4> QED BY <2>1, <2>3, <2>4, <4>1, <4>2, <4>3, <4>4, <1>2, <1>4, <1>5, <1>6
    <3>4. CASE ExitStops(Head(queue).code)
      <4>1. /\ st' \in StateType
        BY <3>2, <3>4, <1>3, <1>9 DEF ExitStops
      <4>2. UNCHANGED <<restartCount, rm, restart>>
        BY <3>4 DEF ExitStops, manager
      <4> QED BY <2>1, <2>3, <2>4, <4>1, <4>2, <1>2, <1>4, <1>5
    <3> QED BY <2>6, <3>3, <3>4 DEF Exit
  <2> QED BY <2>5, <2>6
<1>13. CASE Backoff
  <2>1. /\ UNCHANGED <<scenario, registered, lock, starts, pid, calls, manual, task, queue, restartCount, restart>>
        /\ rm' \in {rm, [rm EXCEPT !.active = FALSE]}
        /\ st' \in {st, SetStopped(st, restart.code)}
    BY <1>13 DEF Backoff, BackoffEnds, BackoffCanceled, Restarted, GiveUp, OnlyControl, locals,
          runtime,
          manager
  <2>2. st' \in StateType
    <3>1. restart.code \in scenario.ExitCodes \cup {0}
      BY <1>2 DEF RestartType
    <3> QED BY <3>1, <2>1, <1>2, <1>3, <1>9
  <2> QED BY <2>1, <2>2, <1>2, <1>5, <1>6
<1>14. CASE \E code \in scenario.ExitCodes : ProcessExits(code)
  <2>1. PICK code \in scenario.ExitCodes : ProcessExits(code)
    BY <1>14
  <2>2. /\ UNCHANGED <<scenario, st, registered, lock, starts, pid, calls, manual, restartCount, restart, rm>>
        /\ task' = [task EXCEPT !.state = "exited"]
        /\ queue' = Append(queue, [type |-> "exit", pid |-> task.pid, code |-> code])
    BY <2>1 DEF ProcessExits, locals, manager
  <2>3. task' \in TaskType /\ task.pid \in Pids
    BY <2>2, <1>2 DEF TaskType
  <2>4. queue' \in Seq(EventType)
    BY <2>2, <2>3, <1>2 DEF EventType
  <2> QED BY <2>2, <2>3, <2>4, <1>2, <1>5
<1> QED BY <1>10, <1>11, <1>12, <1>13, <1>14 DEF Next
-----------------------------------------------------------------------------
(***************************************************************************)
(* What one who removes or stops the container knows stays true.           *)
(***************************************************************************)
LEMMA NotRemoving ==
    ASSUME NEW t, NEW o, NEW l, NEW s, At(t, o, l, s),
           l \in {"idle", "rm"} \cup StartLabels \cup OtherLabels \cup EventLabels \cup BackoffLabels
    PROVE  ~Removes(l, s)
<1>1. l \notin RmLabels
  BY DEF RmLabels, StartLabels, OtherLabels, EventLabels, BackoffLabels
<1>2. l = "rm" => ~Has(s)
  BY Stacked, RmStackFree
<1>3. ~Has(<<>>)
  BY DEF Has
<1>4. ASSUME NEW r \in {"idle", "restarted"} PROVE ~Has(<<r>>)
  <2>1. DOMAIN <<r>> = 1 .. 1 /\ <<r>>[1] = r
    OBVIOUS
  <2> QED BY <2>1 DEF Has, RmLabels
<1>5. l # "rm" => s \in {<<>>, <<"idle">>, <<"restarted">>}
  BY Stacked DEF StartStacks, OtherStacks
<1> QED BY <1>1, <1>2, <1>3, <1>4, <1>5 DEF Removes

\* Only the Restarter can start a container that somebody removes or stops.
LEMMA GuardedStarts ==
    ASSUME IInv, NEW u \in Threads, Guarded(u), NEW t \in Threads,
           Starts(t) \/ Started(t)
    PROVE  t = Restarter /\ st.Restarting /\ st.Running
<1>1. ControlTypes /\ ControlOK /\ HeldOK /\ LockOK /\ RestartOK /\ RemovalOK
  BY DEF IInv
<1>2. pc[t] \in {"start", "started"} /\ At(t, op[t], pc[t], stack[t])
  BY <1>1 DEF Starts, Started, ControlOK
<1>3. ~st.RemovalInProgress
  <2>1. pc[t] = "started" => lock = t
    BY <1>1 DEF LockOK
  <2> QED BY <2>1, <1>1, ThreadFacts DEF Starts, Started, LockOK
<1>4. u \in held
  BY <1>1, <1>3 DEF Guarded, RemovalOK
<1>5. t \notin Clients
  BY <1>1, <1>2, <1>4, Places DEF HeldOK, Serves, StartLabels
<1>6. t # Monitor
  BY <1>2, Places DEF StartLabels
<1>7. t = Restarter
  BY <1>5, <1>6 DEF Threads
<1> QED BY <1>1, <1>2, <1>7 DEF RestartOK, Owned

\* For one who is in charge, what is over stays over.
LEMMA Stable ==
    ASSUME IInv, Next, NEW u \in Threads, Guarded(u)
    PROVE  /\ Final => Final'
           /\ Over => Over'
           /\ Final /\ ~st.Restarting /\ (Alive => pid[u] = task.pid) /\ pid'[u] = pid[u]
                 => ~st'.Restarting /\ (Alive' => pid'[u] = task'.pid)
<1>1. DataTypes /\ LockOK /\ EventsOK /\ RestartOK /\ ControlTypes
  BY DEF IInv
<1>2. st.Running \in BOOLEAN /\ st.Restarting \in BOOLEAN /\ rm.canceled \in BOOLEAN
  BY <1>1 DEF DataTypes, States
<1>3. ASSUME st'.Running = st.Running, st'.Restarting = st.Restarting,
             rm.canceled => rm'.canceled, task'.pid = task.pid, Alive' => Alive
      PROVE  /\ Final => Final'
             /\ Over => Over'
             /\ Final /\ ~st.Restarting /\ (Alive => pid[u] = task.pid) /\ pid'[u] = pid[u]
                   => ~st'.Restarting /\ (Alive' => pid'[u] = task'.pid)
  BY <1>3 DEF Final, Over
<1>4. CASE \E t \in Clients, o \in AllOps : Request(t, o)
  BY <1>3, <1>4 DEF Request, manager, runtime, Alive
<1>5. CASE \E t \in Threads : Step(t)
  <2>1. PICK t \in Threads : Step(t)
    BY <1>5
  <2>2. CASE Quiet(t)
    <3>1. task'.pid = task.pid /\ (Alive' => Alive)
      BY <2>2, <1>1 DEF Quiet, Signalled, DataTypes, Alive
    <3>2. st' = st /\ (rm.canceled => rm'.canceled)
      BY <2>2, <1>1 DEF Quiet, DataTypes
    <3> QED BY <3>1, <3>2, <1>3
  <2>3. CASE Resumes \/ Pauses \/ Unpauses
    <3>1. task'.pid = task.pid /\ Alive
      BY <2>3, <1>1 DEF Resumes, Pauses, Unpauses, PauseTask, ResumeTask, Signalled, DataTypes
    <3>2. st'.Running = st.Running /\ st'.Restarting = st.Restarting /\ (rm.canceled => rm'.canceled)
      BY <2>3, <1>1 DEF Resumes, Pauses, Unpauses, DataTypes, States, manager
    <3> QED BY <3>1, <3>2, <1>3
  <2>4. CASE StartFails(t)
    <3>1. t = Restarter
      BY <2>4, GuardedStarts DEF StartFails
    <3>2. /\ UNCHANGED <<rm, task>> /\ st'.Running = st.Running /\ st'.Restarting = st.Restarting
      BY <2>4, <3>1, <1>1 DEF StartFails, ResetForStart, Resets, manager, runtime, StartFailure,
            DataTypes,
            States
    <3> QED BY <3>2, <1>3 DEF Alive
  <2>5. CASE StartsTask(t)
    <3>1. t = Restarter /\ st.Restarting
      BY <2>5, GuardedStarts DEF StartsTask
    <3>2. rm' = rm /\ st' = st
      BY <2>5, <3>1 DEF StartsTask, ResetForStart, Resets, manager
    <3> QED BY <3>1, <3>2 DEF Final, Over
  <2>6. CASE Started(t)
    <3>1. t = Restarter /\ st.Restarting /\ st.Running
      BY <2>6, GuardedStarts
    <3>2. rm' = rm
      BY <2>6 DEF Started, manager
    <3> QED BY <3>1, <3>2 DEF Final, Over
  <2>7. CASE Rm(t) \/ RmDead(t) \/ Forgets(t) \/ RmEnd(t)
    <3>1. UNCHANGED <<rm, task>>
      BY <2>7 DEF Rm, RmDead, Forgets, RmStorage, RmRemoved, RmEnd, manager, runtime
    <3>2. st'.Running = st.Running /\ st'.Restarting = st.Restarting
      <4>1. CASE Forgets(t)
        BY <4>1, <1>1 DEF Forgets, RmStorage, RmRemoved, Goto, SetError, DataTypes, States
      <4>2. CASE Rm(t) \/ RmDead(t) \/ RmEnd(t)
        BY <4>2, <1>1, ZenonT(60) DEF Rm, RmDead, RmEnd, DataTypes, States
      <4> QED BY <2>7, <4>1, <4>2
    <3> QED BY <3>1, <3>2, <1>3 DEF Alive
  <2>8. manual \in BOOLEAN
    BY <1>1 DEF DataTypes
  <2> QED BY <2>1, <2>2, <2>3, <2>4, <2>5, <2>6, <2>7, <2>8, StepKinds
<1>6. CASE Handle
  <2>1. CASE Exit
    <3>1. st.Running /\ ~st.Restarting /\ ~Alive'
      BY <2>1, <1>1 DEF Exit, EventsOK, Alive, NoTask
    <3>2. Final => ~st'.Running /\ ~st'.Restarting
      <4>1. CASE ExitStops(Head(queue).code)
        BY <4>1, <1>1 DEF ExitStops, SetStopped, DataTypes, States
      <4>2. CASE ExitRestarts(Head(queue).code)
        BY <4>2, <3>1 DEF ExitRestarts, ShouldRestart, Final
      <4> QED BY <2>1, <4>1, <4>2 DEF Exit
    <3> QED BY <3>1, <3>2 DEF Final, Over
  <2>2. CASE ~Exit
    <3>1. UNCHANGED <<rm, task>>
      BY <2>2, <1>6 DEF Handle, EventDropped, EventStart, EventPaused, EventResumed, EventExit,
            ExitAutoRemove, Handled, manager
    <3>2. st'.Running = st.Running /\ st'.Restarting = st.Restarting
      <4>1. CASE EventStart
        <5>1. pc[Monitor] = "idle" /\ queue # <<>> /\ lock = Free
          BY <4>1 DEF EventStart, Handles, Unlocked
        <5>2. st.Running
          BY <5>1, <1>1 DEF EventsOK, Pending, Past, Busy
        <5> QED BY <4>1, <5>2 DEF EventStart
      <4>2. CASE EventPaused \/ EventResumed
        BY <4>2, <1>1 DEF EventPaused, EventResumed, DataTypes, States
      <4>3. CASE EventDropped \/ EventExit \/ ExitAutoRemove \/ Handled
        BY <4>3 DEF EventDropped, EventExit, ExitAutoRemove, Handled
      <4> QED BY <2>2, <1>6, <4>1, <4>2, <4>3 DEF Handle
    <3> QED BY <3>1, <3>2, <1>3 DEF Alive
  <2> QED BY <2>1, <2>2
<1>7. CASE Backoff
  <2>1. CASE GiveUp
    <3>1. st.Restarting
      BY <2>1, <1>1 DEF GiveUp, RestartOK, Owned
    <3>2. ~st'.Running
      BY <2>1, <1>1 DEF GiveUp, SetStopped, DataTypes, States
    <3> QED BY <3>1, <3>2 DEF Final, Over
  <2>2. CASE BackoffEnds \/ BackoffCanceled \/ Restarted
    <3>1. st' = st /\ task' = task /\ (rm.canceled => rm'.canceled)
      BY <2>2, <1>1 DEF BackoffEnds, BackoffCanceled, Restarted, OnlyControl, manager, runtime,
            DataTypes
    <3> QED BY <3>1, <1>3 DEF Alive
  <2> QED BY <1>7, <2>1, <2>2 DEF Backoff
<1>8. CASE \E code \in scenario.ExitCodes : ProcessExits(code)
  <2>1. st' = st /\ rm' = rm /\ task'.pid = task.pid /\ ~Alive'
    BY <1>8, <1>1 DEF ProcessExits, manager, DataTypes, Alive
  <2> QED BY <2>1, <1>3
<1> QED BY <1>4, <1>5, <1>6, <1>7, <1>8 DEF Next

\* Without the lock held, a container that is not running is at its end.
LEMMA NotRunning ==
    ASSUME IInv, Unlocked
    PROVE  /\ ~st.Running => Over
           /\ ~Busy => ~Alive
<1>1. LockOK /\ EventsOK /\ RestartOK
  BY DEF IInv
<1>2. ~st.Running => ~Busy /\ ~st.Restarting
  BY <1>1 DEF Busy, Unlocked, RestartOK
<1>3. ~Busy => ~Alive
  BY <1>1 DEF EventsOK, NoTask, Alive
<1> QED BY <1>2, <1>3 DEF Over, Final

\* Whoever is woken finds the container at its end.
LEMMA WokenOver ==
    ASSUME IInv, Next, NEW u \in Threads, Guarded(u), u \in woken'
    PROVE  Over'
<1>1. DataTypes /\ LockOK /\ EventsOK /\ RestartOK /\ ControlTypes /\ StopOK
  BY DEF IInv
<1>2. Knows(u) /\ (Over => Over')
  BY <1>1, Stable DEF StopOK
<1>3. CASE u \in woken
  BY <1>2, <1>3 DEF Knows
<1>4. ASSUME u \notin woken, WakeAll PROVE Final
  BY <1>2, <1>4 DEF WakeAll, Blocked, Knows
<1>5. CASE u \notin woken /\ \E t \in Threads : Step(t)
  <2>1. PICK t \in Threads : Step(t)
    BY <1>5
  <2>2. RmWake(t)
    BY <2>1, <1>1, <1>5, StepLocals
  <2>3. Removing(t)
    BY <2>2 DEF RmWake, Removing
  <2>4. Knows(t) /\ pc[t] = "rmWake"
    BY <2>2, <2>3, <1>1 DEF StopOK, Guarded, RmWake
  <2> QED BY <2>4, <1>2 DEF Knows
<1>6. CASE u \notin woken /\ Handle
  <2>1. Exit
    BY <1>6 DEF Handle, EventDropped, EventStart, EventPaused, EventResumed, EventExit,
          ExitAutoRemove, Handled
  <2>2. Final /\ ~Alive'
    BY <2>1, <1>4, <1>6 DEF Exit, Alive, NoTask
  <2>3. st.Running
    BY <2>1, <1>1 DEF Exit, EventsOK
  <2>4. ~st'.Running /\ ~st'.Restarting
    <3>1. CASE ExitStops(Head(queue).code)
      BY <3>1, <1>1 DEF ExitStops, SetStopped, DataTypes, States
    <3>2. CASE ExitRestarts(Head(queue).code)
      BY <3>2, <2>2, <2>3 DEF ExitRestarts, ShouldRestart, Final
    <3> QED BY <2>1, <3>1, <3>2 DEF Exit
  <2> QED BY <2>2, <2>4 DEF Over, Final
<1>7. CASE u \notin woken /\ Backoff
  <2>1. GiveUp
    BY <1>7 DEF Backoff, BackoffEnds, BackoffCanceled, Restarted, OnlyControl
  <2>2. st.Restarting /\ lock = Free /\ task' = task
    BY <2>1, <1>1 DEF GiveUp, RestartOK, Owned, Unlocked, runtime
  <2>3. ~Alive'
    BY <2>2, NotRunning DEF Busy, Unlocked, Alive
  <2>4. ~st'.Running /\ ~st'.Restarting
    BY <2>1, <1>1 DEF GiveUp, SetStopped, DataTypes, States
  <2> QED BY <2>3, <2>4 DEF Over, Final
<1>8. CASE u \notin woken /\ (\E t \in Clients, o \in AllOps : Request(t, o))
  BY <1>8 DEF Request
<1>9. CASE u \notin woken /\ (\E code \in scenario.ExitCodes : ProcessExits(code))
  BY <1>9 DEF ProcessExits
<1> QED BY <1>3, <1>5, <1>6, <1>7, <1>8, <1>9 DEF Next

\* A goroutine that another one's step leaves where it is knows what it knew.
LEMMA OthersKnow ==
    ASSUME IInv, Next, NEW u \in Threads, Guarded(u),
           pc'[u] = pc[u], err'[u] = err[u], pid'[u] = pid[u]
    PROVE  Knows(u)'
<1>1. Knows(u)
  BY DEF IInv, StopOK
<1>2. /\ Final => Final'
      /\ Over => Over'
      /\ Final /\ ~st.Restarting /\ (Alive => pid[u] = task.pid)
            => ~st'.Restarting /\ (Alive' => pid'[u] = task'.pid)
  BY Stable
<1>3. u \in woken' => Over'
  BY WokenOver
<1> HIDE DEF Final, Over, Alive
<1> QED BY <1>1, <1>2, <1>3 DEF Knows

\* killWithSignal cancels the restarts of a container that runs.
LEMMA SignalFinal ==
    ASSUME DataTypes, NEW sig, NEW e, KillWithSignal(sig, e)
    PROVE  Final'
<1>1. st' = st
  BY DEF KillWithSignal
<1>2. CASE ~st.Running
  BY <1>1, <1>2 DEF Final
<1>3. CASE st.Running
  BY <1>3 DEF KillWithSignal, CancelRestart, Final, DataTypes
<1> QED BY <1>2, <1>3

(***************************************************************************)
(* A goroutine that takes a step of a call knows what it should at the     *)
(* place it comes to.                                                      *)
(***************************************************************************)
LEMMA MoverKnows ==
    ASSUME IInv, NEW t \in Threads, Step(t), Guarded(t)'
    PROVE  Knows(t)'
<1>a. DataTypes /\ LockOK /\ EventsOK /\ RestartOK /\ ControlTypes /\ ControlOK /\ HeldOK
      /\ AutoRemoveOK
  BY DEF IInv
<1>b. t \notin woken' /\ held' = held /\ op' = op
  BY <1>a, StepLocals
<1>c. Next
  BY DEF Next
<1>d. At(t, op[t], pc[t], stack[t]) /\ pc[t] \in Labels /\ stack[t] \in Seq(Labels)
      /\ err[t] \in BOOLEAN /\ st.Err \in BOOLEAN
  BY <1>a DEF ControlOK, ControlTypes, DataTypes, States
<1>e. /\ Removing(t) <=> Removes(pc[t], stack[t])
      /\ Removing(t)' <=> Removes(pc'[t], stack'[t])
  BY DEF Removing, Removes, Has, RmLabels
<1>f. t \in held => op[t] = "stop" /\ t \in Clients
  BY <1>a DEF HeldOK, ControlTypes
\* The labels at which a goroutine has something to know.
<1> DEFINE Retries == {"killRetry", "killWaited", "stopRetry", "stopWaited", "stopKilled"}
           Ends == {"killDone", "stopDone", "rmDead", "rmStorage", "rmRemoved", "rmWake"}
           Results == {"rmKilled", "rmStopped", "idle"}
<1>h0. ASSUME pc'[t] \notin {"wait", "blocked", "killDirect"} \cup Retries \cup Ends \cup Results
       PROVE  Knows(t)'
  BY <1>h0, <1>b DEF Knows
<1>h1. ASSUME pc'[t] \in {"wait", "blocked"}, Final' PROVE Knows(t)'
  BY <1>h1, <1>b DEF Knows
<1>h2. ASSUME pc'[t] # "killDirect", Over' PROVE Knows(t)'
  BY <1>h2, <1>b DEF Knows, Over
<1>h3. ASSUME pc'[t] \notin Ends \cup {"killDirect"}, err'[t] = TRUE,
              pc'[t] \in Retries \cup {"wait", "blocked"} => Final'
       PROVE  Knows(t)'
  BY <1>h3, <1>b DEF Knows
<1>r. ASSUME NEW e \in BOOLEAN, Return(t, e), pc[t] \notin {"idle"} \cup EventLabels \cup BackoffLabels
      PROVE  /\ pc'[t] = Head(stack[t]) /\ err'[t] = e
             /\ pc[t] \in WaitLabels => pc'[t] \in {"killRetry", "killWaited", "killDone", "stopRetry",
                                                    "stopWaited", "stopDone"}
             /\ pc[t] \in KillLabels => pc'[t] \in {"idle", "stopKilled", "rmKilled"}
             /\ pc[t] \in StopLabels => pc'[t] \in {"idle", "restartStopped", "rmStopped"}
             /\ pc[t] \in RmLabels \cup {"rm"} => pc'[t] \in {"idle", "handled", "startFailed"}
  <2>1. stack[t] # <<>> /\ pc'[t] = Head(stack[t]) /\ err'[t] = e
    BY <1>a, <1>r, Returns
  <2> QED BY <2>1, <1>d, Pops
<1>g. ASSUME NEW l, Goto(t, l) PROVE pc'[t] = l /\ err'[t] = err[t]
  BY <1>g, <1>a DEF Goto, ControlTypes
<1>l. ASSUME NEW l, NEW ret, Call(t, l, ret) PROVE pc'[t] = l
  BY <1>l, <1>a DEF Call, ControlTypes
<1>n. ASSUME NEW e, RmEnds(t, e) PROVE pc'[t] = "rmEnd"
  BY <1>n, <1>a DEF RmEnds, ControlTypes
\* Rm and RmEnd begin and end the removal.
<1>30. CASE Rm(t)
  <2>1. CASE ~st.RemovalInProgress
    <3>1. pc'[t] = "rmCheck"
      BY <1>30, <2>1, <1>g DEF Rm
    <3> QED BY <3>1, <1>h0
  <2>2. CASE st.RemovalInProgress
    <3>1. pc[t] = "rm" /\ Return(t, TRUE)
      BY <1>30, <2>2 DEF Rm
    <3>2. Keeps(t)
      BY <3>1, <1>a, Returns DEF EventLabels, BackoffLabels, RmLabels
    <3>3. ~Removes(pc[t], stack[t]) /\ t \notin held
      BY <3>1, <1>d, <1>f, NotRemoving, Places
    <3> QED BY <3>2, <3>3, <1>b, <1>e DEF Guarded, Keeps
  <2> QED BY <2>1, <2>2
<1>37. CASE RmEnd(t)
  <2>1. pc[t] = "rmEnd" /\ ~st'.RemovalInProgress
    BY <1>37, <1>a DEF RmEnd, DataTypes, States
  <2>2. ~Removing(t)'
    BY <2>1, <1>c, RemovalKept DEF RemovalOK
  <2>3. t \notin held
    BY <2>1, <1>d, <1>f, Places DEF RmLabels
  <2> QED BY <2>2, <2>3, <1>b DEF Guarded
<1>k. CASE ~Rm(t) /\ ~RmEnd(t)
  <2>g. Guarded(t)
    BY <1>k, <1>a, <1>b, <1>e, <1>d, StepMoves DEF Guarded, Keeps
  <2>k. Knows(t)
    BY <2>g DEF IInv, StopOK
  <2>s. (Final => Final') /\ (Over => Over')
    BY <2>g, <1>c, Stable
  <2>p. pc[t] \notin StartLabels \cup OtherLabels
    <3>1. CASE Removing(t)
      BY <3>1, <1>d, <1>e, NotRemoving
    <3>2. CASE t \in held
      <4>1. op[t] = "stop" /\ t \in Clients
        BY <3>2, <1>f
      <4>2. pc[t] \notin StartLabels
        BY <4>1, <1>d, Places DEF StartCalls
      <4>3. pc[t] \notin OtherLabels
        BY <4>1, <1>d, Stacked DEF OtherStacks, Serving
      <4> QED BY <4>2, <4>3
    <3> QED BY <2>g, <3>1, <3>2 DEF Guarded
  <2>o. Unlocked /\ ~st.Running => Over
    BY NotRunning
  <2> DEFINE Known == /\ pc[t] \in {"wait", "blocked", "killDirect"} \cup Retries => Final
                      /\ pc[t] \in Retries \cup Results /\ ~err[t] => Over
                      /\ pc[t] \in Ends => Over
                      /\ t \in woken => Over
                      /\ pc[t] = "killDirect" => ~st.Restarting /\ (Alive => pid[t] = task.pid)
  <2>q. Known
    BY <2>k DEF Knows
  <2>v. \A e : \A sig : KillWithSignal(sig, e) => Final'
    BY <1>a, SignalFinal
  <2> USE DEF EventLabels, BackoffLabels
  <2>7. CASE Wait(t)
    <3>1. CASE st.Running
      BY <2>7, <3>1, <1>g, <1>h1, <2>q, <2>s DEF Wait
    <3>2. CASE ~st.Running
      <4>1. Over' /\ Return(t, st.Err) /\ pc[t] = "wait"
        BY <2>7, <3>2, <2>o, <2>s DEF Wait
      <4> QED BY <4>1, <1>d, <1>r, <1>h2 DEF WaitLabels
    <3> QED BY <3>1, <3>2
  <2>8. CASE Wakes(t)
    <3>1. Over' /\ Return(t, st.Err) /\ pc[t] = "blocked"
      BY <2>8, <2>q, <2>s DEF Wakes
    <3> QED BY <3>1, <1>d, <1>r, <1>h2 DEF WaitLabels
  <2>9. CASE TimesOut(t)
    <3>1. Final' /\ Return(t, TRUE) /\ pc[t] = "blocked" /\ Head(stack[t]) \notin NoTimeout
      BY <2>9, <2>q, <2>s DEF TimesOut
    <3> QED BY <3>1, <1>r, <1>h3 DEF WaitLabels, NoTimeout
  <2>11. CASE Kill(t)
    <3>1. CASE st.Running
      BY <2>11, <3>1, <1>g, <1>h0 DEF Kill
    <3>2. CASE ~st.Running
      <4>1. Final' /\ Return(t, TRUE) /\ pc[t] = "kill"
        BY <2>11, <3>2, <2>s DEF Kill, Final
      <4> QED BY <4>1, <1>r, <1>h3 DEF KillLabels
    <3> QED BY <3>1, <3>2
  <2>12. CASE KillSignal(t)
    <3>1. Final' /\ pc'[t] = "wait"
      BY <2>12, <2>v, <1>l DEF KillSignal
    <3> QED BY <3>1, <1>h1
  <2>13. CASE KillRetry(t)
    <3>1. Final' /\ pc[t] = "killRetry"
      BY <2>13, <2>q, <2>s DEF KillRetry
    <3>2. CASE err[t]
      BY <2>13, <3>1, <3>2, <1>r, <1>h3 DEF KillRetry, KillLabels
    <3>3. CASE ~err[t]
      BY <2>13, <3>1, <3>3, <1>l, <1>h1 DEF KillRetry
    <3> QED BY <3>2, <3>3
  <2>14. CASE KillWaited(t)
    <3>1. Final'
      BY <2>14, <2>q, <2>s DEF KillWaited
    <3>2. CASE ~err[t] \/ st.Pid = 0
      BY <2>14, <3>1, <3>2, <1>l, <1>h1 DEF KillWaited
    <3>3. CASE err[t] /\ st.Pid # 0
      <4>1. /\ pc'[t] = "killDirect" /\ pid'[t] = st.Pid /\ Unlocked
            /\ UNCHANGED <<st, task>>
        BY <2>14, <3>3, <1>a, <1>g DEF KillWaited, DataTypes, runtime
      <4>2. ~st.Restarting
        BY <3>3, <1>a DEF RestartOK
      <4>3. Alive => Busy /\ task.pid = st.Pid
        BY <4>1, <1>a, NotRunning DEF EventsOK, Current, Unlocked
      <4>4. ~st'.Restarting /\ (Alive' => pid'[t] = task'.pid)
        BY <4>1, <4>2, <4>3 DEF Alive
      <4> QED BY <3>1, <4>1, <4>4, <1>b DEF Knows
    <3> QED BY <3>2, <3>3
  <2>15. CASE KillDirect(t)
    <3>1. Final' /\ pc[t] = "killDirect" /\ Final
      BY <2>15, <2>q, <2>s DEF KillDirect
    <3>2. CASE Call(t, "wait", "killDone")
      BY <3>1, <3>2, <1>l, <1>h1
    <3>3. CASE ~(Alive /\ task.pid = pid[t]) /\ Return(t, FALSE)
      <4>1. Over'
        BY <3>1, <3>3, <2>q, <2>s DEF Over
      <4> QED BY <3>1, <3>3, <4>1, <1>r, <1>h2 DEF KillLabels
    <3>4. CASE Return(t, TRUE)
      BY <3>1, <3>4, <1>r, <1>h3 DEF KillLabels
    <3> QED BY <2>15, <3>2, <3>3, <3>4 DEF KillDirect
  <2>16. CASE KillDone(t)
    <3>1. Over' /\ Return(t, FALSE) /\ pc[t] = "killDone"
      BY <2>16, <2>q, <2>s DEF KillDone
    <3> QED BY <3>1, <1>r, <1>h2 DEF KillLabels
  <2>17. CASE ContainerStop(t)
    <3>1. CASE st.Running
      BY <2>17, <3>1, <1>g, <1>h0 DEF ContainerStop
    <3>2. CASE ~st.Running
      BY <2>17, <3>2, <1>r, <1>h3 DEF ContainerStop, StopLabels
    <3> QED BY <3>1, <3>2
  <2>18. CASE Stop(t)
    <3>1. CASE st.Running
      BY <2>18, <3>1, <1>g, <1>h0 DEF Stop
    <3>2. CASE ~st.Running
      <4>1. Over' /\ Return(t, FALSE) /\ pc[t] = "stop"
        BY <2>18, <3>2, <2>o, <2>s DEF Stop
      <4> QED BY <4>1, <1>r, <1>h2 DEF StopLabels
    <3> QED BY <3>1, <3>2
  <2>19. CASE StopSignal(t)
    <3>1. Final' /\ pc'[t] = "wait"
      BY <2>19, <2>v, <1>l DEF StopSignal
    <3> QED BY <3>1, <1>h1
  <2>20. CASE StopRetry(t)
    <3>1. pc[t] = "stopRetry" /\ Final'
      BY <2>20, <2>q, <2>s DEF StopRetry
    <3>2. Return(t, TRUE) \/ pc'[t] = "wait"
      BY <2>20, <1>l DEF StopRetry
    <3>3. CASE Return(t, TRUE)
      BY <3>1, <3>3, <1>r, <1>h3 DEF StopLabels
    <3> QED BY <3>1, <3>2, <3>3, <1>h1
  <2>21. CASE StopWaited(t)
    <3>1. CASE err[t]
      BY <2>21, <3>1, <1>l, <1>h0 DEF StopWaited
    <3>2. CASE ~err[t]
      <4>1. Over' /\ Return(t, FALSE) /\ pc[t] = "stopWaited"
        BY <2>21, <3>2, <2>q, <2>s DEF StopWaited
      <4> QED BY <4>1, <1>r, <1>h2 DEF StopLabels
    <3> QED BY <3>1, <3>2
  <2>22. CASE StopKilled(t)
    <3>1. CASE err[t]
      BY <2>22, <3>1, <1>l, <1>h1, <2>q, <2>s DEF StopKilled
    <3>2. CASE ~err[t]
      <4>1. Over' /\ Return(t, FALSE) /\ pc[t] = "stopKilled"
        BY <2>22, <3>2, <2>q, <2>s DEF StopKilled
      <4> QED BY <4>1, <1>r, <1>h2 DEF StopLabels
    <3> QED BY <3>1, <3>2
  <2>23. CASE StopDone(t)
    <3>1. Over' /\ Return(t, FALSE) /\ pc[t] = "stopDone"
      BY <2>23, <2>q, <2>s DEF StopDone
    <3> QED BY <3>1, <1>r, <1>h2 DEF StopLabels
  <2>31. CASE RmCheck(t)
    <3>1. pc'[t] \in {"rmEnd", "kill", "stop"}
      BY <2>31, <1>l, <1>n DEF RmCheck
    <3> QED BY <3>1, <1>h0
  <2>32. CASE RmKilled(t)
    <3>1. pc'[t] \in {"rmEnd", "stop"}
      BY <2>32, <1>l, <1>n DEF RmKilled
    <3> QED BY <3>1, <1>h0
  <2>33. CASE RmStopped(t)
    <3>1. CASE err[t]
      BY <2>33, <3>1, <1>n, <1>h0 DEF RmStopped
    <3>2. CASE ~err[t]
      BY <2>33, <3>2, <1>g, <1>h2, <2>q, <2>s DEF RmStopped
    <3> QED BY <3>1, <3>2
  <2>34. CASE RmDead(t)
    BY <2>34, <1>g, <1>h2, <2>q, <2>s DEF RmDead
  <2>35. CASE Forgets(t)
    <3>1. pc[t] \in Ends /\ pc'[t] \in {"rmRemoved", "rmWake"}
      BY <2>35, <1>a DEF Forgets, RmStorage, RmRemoved, Goto, ControlTypes
    <3> QED BY <3>1, <1>h2, <2>q, <2>s
  <2>36. CASE RmWake(t)
    BY <2>36, <1>g, <1>h0 DEF RmWake
  <2>x. CASE \/ Validate(t)
             \/ StartRefused(t)
             \/ StartFails(t)
             \/ StartFailed(t)
             \/ StartsTask(t)
             \/ Started(t)
             \/ ContainerSignal(t)
             \/ Restart(t)
             \/ RestartSave(t)
             \/ RestartClear(t)
             \/ RestartStopped(t)
             \/ Pause(t)
             \/ Unpause(t)
    BY <2>x, <2>p DEF StartLabels, OtherLabels, Starts, Validate, StartRefused, StartFails,
          StartFailed, StartsTask, Started, ContainerSignal, Restart, RestartSave, RestartClear,
          RestartStopped, Pause, Unpause
  <2> QED
    BY <1>k, <2>x, <2>7, <2>8, <2>9, <2>11, <2>12, <2>13, <2>14, <2>15, <2>16, <2>17, <2>18,
          <2>19, <2>20, <2>21, <2>22, <2>23, <2>31, <2>32, <2>33, <2>34, <2>35, <2>36
          DEF Step, Forgets
<1> QED BY <1>30, <1>37, <1>k

\* What those in charge know is kept by every step.
LEMMA StopKept ==
    ASSUME IInv, Next
    PROVE  StopOK'
<1> SUFFICES ASSUME NEW u \in Threads, Guarded(u)' PROVE Knows(u)'
  BY DEF StopOK
<1>a. DataTypes /\ ControlTypes /\ ControlOK /\ HeldOK
  BY DEF IInv
<1>b. /\ Removing(u) <=> Removes(pc[u], stack[u])
      /\ Removing(u)' <=> Removes(pc'[u], stack'[u])
  BY DEF Removing, Removes, Has, RmLabels
<1>c. ControlTypes' /\ At(u, op'[u], pc'[u], stack'[u])
  BY ControlKept DEF ControlOK
\* u stays where it is.
<1>s. ASSUME pc'[u] = pc[u], stack'[u] = stack[u], err'[u] = err[u], pid'[u] = pid[u],
             u \in held' => u \in held
      PROVE  Knows(u)'
  <2>1. Guarded(u)
    BY <1>b, <1>s DEF Guarded
  <2> QED BY <2>1, <1>s, OthersKnow
\* The goroutines that are never in charge there.
<1>n. u \in Clients \/ pc'[u] \notin {"idle", "rm"} \cup StartLabels \cup EventLabels \cup BackoffLabels
  <2>1. u \in held' => u \in Clients
    BY <1>c DEF ControlTypes
  <2> QED BY <2>1, <1>b, <1>c, NotRemoving DEF Guarded
<1>r. u # Restarter
  BY <1>c, <1>n, Places, ThreadFacts DEF StartLabels
<1>1. CASE \E t \in Clients, o \in AllOps : Request(t, o)
  <2>1. PICK t \in Clients, o \in AllOps : Request(t, o)
    BY <1>1
  <2>2. CASE u # t
    <3>1. /\ pc'[u] = pc[u] /\ stack'[u] = stack[u] /\ err'[u] = err[u] /\ pid'[u] = pid[u]
          /\ held' = Hold(t, o)
      BY <2>1, <2>2, <1>a DEF Request, Call, ControlTypes
    <3>2. u \in held' => u \in held
      BY <3>1, <2>2 DEF Hold
    <3> QED BY <3>1, <3>2, <1>s
  <2>3. CASE u = t
    <3>1. pc'[u] = Entry[o] /\ woken' = woken /\ pc[u] = "idle"
      BY <2>1, <2>3, <1>a, ThreadFacts DEF Request, Call, ControlTypes
    <3>2. u \notin woken'
      BY <3>1, <1>a DEF ControlTypes, Blocked
    <3>3. Entry[o] \in {"validate", "containerStop", "kill", "signal", "restart", "pause",
                        "unpause", "rm"}
      BY DEF Entry, AllOps
    <3> QED BY <3>1, <3>2, <3>3 DEF Knows
  <2> QED BY <2>2, <2>3
<1>2. CASE \E t \in Threads : Step(t)
  <2>1. PICK t \in Threads : Step(t)
    BY <1>2
  <2>2. CASE u = t
    BY <2>1, <2>2, MoverKnows
  <2>3. CASE u # t
    <3>1. pc'[u] = pc[u] /\ stack'[u] = stack[u] /\ err'[u] = err[u]
      BY <2>1, <2>3, StepCounters
    <3>2. held' = held
      BY <2>1, <1>a, StepLocals
    <3>3. pid'[u] = pid[u]
      <4>1. pid \in [Threads -> Pids] /\ manual \in BOOLEAN
        BY <1>a DEF DataTypes
      <4>2. pid' = pid \/ \E p : pid' = [pid EXCEPT ![t] = p]
        BY <2>1, <4>1, StepKinds DEF Quiet, Resumes, Pauses, Unpauses, StartFails, StartsTask,
              Started, Rm, RmDead, Forgets, RmStorage, RmRemoved, RmEnd, locals
      <4> QED BY <4>1, <4>2, <2>3
    <3> QED BY <3>1, <3>2, <3>3, <1>s
  <2> QED BY <2>2, <2>3
<1>3. CASE Handle
  <2>1. held' = held /\ pid' = pid /\ err' = err
    BY <1>3 DEF Handle, EventDropped, EventStart, EventPaused, EventResumed, EventExit, Exit,
          ExitAutoRemove, Handled, Goto, Call, control, locals
  <2>2. \A v \in Threads \ {Monitor, Restarter} : pc'[v] = pc[v] /\ stack'[v] = stack[v]
    <3>1. CASE Exit
      BY <3>1, <1>a DEF Exit, ExitRestarts, ExitStops, ControlTypes
    <3>2. CASE ~Exit
      BY <1>3, <3>2, <1>a DEF Handle, EventDropped, EventStart, EventPaused, EventResumed,
            EventExit, ExitAutoRemove, Handled, Goto, Call, control, ControlTypes
    <3> QED BY <3>1, <3>2
  <2>3. pc'[Monitor] \in {"idle", "exit", "rm", "autoRemove"}
    <3>1. CASE EventDropped \/ EventStart \/ EventPaused \/ EventResumed
      BY <3>1 DEF EventDropped, EventStart, EventPaused, EventResumed, control, Handles
    <3>2. CASE EventExit \/ Handled
      BY <3>2, ThreadFacts, <1>a DEF EventExit, Handled, control, Handles, Goto, ControlTypes
    <3>3. CASE ExitAutoRemove
      BY <3>3, ThreadFacts, <1>a DEF ExitAutoRemove, Goto, Call, ControlTypes
    <3>4. CASE Exit
      BY <3>4, ThreadFacts, <1>a DEF Exit, ExitRestarts, ExitStops, ControlTypes
    <3> QED BY <1>3, <3>1, <3>2, <3>3, <3>4 DEF Handle
  <2>4. u # Monitor
    BY <2>3, <1>n, ThreadFacts DEF EventLabels
  <2> QED BY <2>1, <2>2, <2>4, <1>r, <1>s
<1>4. CASE Backoff
  <2>1. /\ held' = held /\ pid' = pid /\ err' = err
        /\ \A v \in Threads \ {Restarter} : pc'[v] = pc[v] /\ stack'[v] = stack[v]
    BY <1>4, <1>a DEF Backoff, BackoffEnds, BackoffCanceled, Restarted, GiveUp, OnlyControl,
          Goto, ControlTypes, locals
  <2> QED BY <2>1, <1>r, <1>s
<1>5. CASE \E code \in scenario.ExitCodes : ProcessExits(code)
  BY <1>5, <1>s DEF ProcessExits, control, locals
<1> QED BY <1>1, <1>2, <1>3, <1>4, <1>5 DEF Next
-----------------------------------------------------------------------------
\* A created container, before any call.
LEMMA Initially == Init => IInv
<1> SUFFICES ASSUME Init PROVE IInv
  OBVIOUS
<1> USE DEF Init
<1>s. scenario \in ScenarioType /\ (scenario.AutoRemove => scenario.Policy = "no")
  BY LifecycleAssumption
<1>t. /\ scenario.AutoRemove \in BOOLEAN /\ scenario.MaxStarts \in Nat /\ scenario.MaxCalls \in Nat
  BY <1>s DEF ScenarioType
<1>1. ControlTypes
  BY <1>t DEF ControlTypes, Labels, Blocked
<1>2. ControlOK
  BY DEF ControlOK, At
<1>3. AutoRemoveOK /\ HeldOK
  BY ThreadFacts DEF AutoRemoveOK, HeldOK
<1>4. 0 \in Pids
  BY <1>t DEF Pids
<1>5. DataTypes
  <2>1. st \in States(Pids, scenario.ExitCodes \cup {0, 127, 128})
    BY <1>4 DEF States, NewState
  <2>2. task \in [state : {"none", "running", "exited"}, pid : Pids, frozen : BOOLEAN,
                  signal : {"none", "term", "kill"}]
    BY <1>4 DEF NoTask
  <2>3. /\ rm \in [canceled : BOOLEAN, active : BOOLEAN]
        /\ restart \in [canceled : BOOLEAN, code : scenario.ExitCodes \cup {0}]
    BY DEF NewManager
  <2>4. /\ starts \in Pids /\ calls \in 0 .. scenario.MaxCalls /\ restartCount \in 0 .. starts
        /\ pid \in [Threads -> Pids]
    BY <1>4, <1>t
  <2>5. queue \in Seq([type : {"start", "exit", "paused", "resumed"}, pid : Pids,
                       code : scenario.ExitCodes \cup {0}])
    OBVIOUS
  <2> QED BY <2>1, <2>2, <2>3, <2>4, <2>5 DEF DataTypes
<1>6. lock = Free /\ ~st.Running /\ ~st.Restarting /\ ~st.Paused /\ ~st.RemovalInProgress
      /\ ~st.Dead /\ ~Alive /\ task = NoTask /\ registered
  BY DEF NewState, Alive, NoTask
<1>7. LockOK
  BY <1>6, ThreadFacts DEF LockOK
<1>8. ~Busy /\ ~Past /\ Pending = <<>>
  BY <1>6, ThreadFacts DEF Busy, Past, Pending
<1>9. EventsOK
  BY <1>6, <1>8, ThreadFacts DEF EventsOK, NoTask
<1>10. RestartOK
  BY <1>6, ThreadFacts DEF RestartOK, Owned
<1>11. PauseOK
  BY <1>6, <1>8 DEF PauseOK
<1>12. \A t \in Threads : ~Removing(t)
  BY DEF Removing
<1>13. RemovalOK /\ StopOK
  BY <1>6, <1>12 DEF RemovalOK, StopOK, Guarded
<1> QED BY <1>1, <1>2, <1>3, <1>5, <1>7, <1>9, <1>10, <1>11, <1>13 DEF IInv

\* A stuttering step.
LEMMA Stuttering == IInv /\ UNCHANGED vars => IInv'
<1> SUFFICES ASSUME IInv, UNCHANGED vars PROVE IInv'
  OBVIOUS
<1> USE DEF IInv, vars, control, locals, manager, runtime
<1>1. ControlTypes' /\ ControlOK' /\ AutoRemoveOK' /\ HeldOK'
  BY DEF ControlTypes, ControlOK, AutoRemoveOK, HeldOK, Blocked, Serves
<1>2. DataTypes'
  BY DEF DataTypes, Pids
<1>3. Pending' = Pending /\ Past' = Past /\ Busy' = Busy /\ Current' = Current /\ Alive' = Alive
      /\ Owned' = Owned
  BY DEF Pending, Past, Busy, Current, Alive, Owned
<1>4. LockOK' /\ RestartOK'
  BY <1>3 DEF LockOK, RestartOK
<1>5. EventsOK'
  BY <1>3 DEF EventsOK
<1>6. PauseOK'
  BY <1>3 DEF PauseOK
<1>7. \A t \in Threads : Removing(t)' = Removing(t)
  BY DEF Removing
<1>8. RemovalOK'
  BY <1>7 DEF RemovalOK
<1>9. StopOK'
  BY <1>3, <1>7 DEF StopOK, Guarded, Knows, Final, Over
<1> QED BY <1>1, <1>2, <1>4, <1>5, <1>6, <1>8, <1>9

(***************************************************************************)
(* The inductive invariant: it holds at first and through every step of    *)
(* every goroutine, of containerd and of the process.                      *)
(***************************************************************************)
THEOREM Invariance == Safety => []IInv
<1>1. IInv /\ [Next]_vars => IInv'
  <2> SUFFICES ASSUME IInv, [Next]_vars PROVE IInv'
    OBVIOUS
  <2>1. CASE Next
    BY <2>1, ControlKept, HeldKept, TypesKept, LockKept, EventsKept, RemovalKept, StopKept DEF IInv
  <2>2. CASE UNCHANGED vars
    BY <2>2, Stuttering
  <2> QED BY <2>1, <2>2
<1> QED BY <1>1, Initially, PTL DEF Safety

(***************************************************************************)
(* The container's state agrees with its process and with the goroutines   *)
(* in charge: one that is not running has no process, one that runs has it *)
(* or an exit event still to be handled, and one that is restarting has    *)
(* the Restarter (container/state.go's flags against monitor.go's          *)
(* ProcessEvent and start.go's containerStart).                            *)
(***************************************************************************)
THEOREM StateCorrectness == Safety => []StateAgrees
<1>1. IInv => StateAgrees
  <2> SUFFICES ASSUME IInv PROVE StateAgrees
    OBVIOUS
  <2>a. ControlTypes /\ DataTypes /\ LockOK /\ EventsOK /\ RestartOK
    BY DEF IInv
  <2>1. TypeOK
    <3>1. scenario.MaxStarts \in Nat
      BY <2>a, LifecycleAssumption DEF ControlTypes, ScenarioType
    <3>2. restartCount \in 0 .. scenario.MaxStarts
      BY <2>a, <3>1 DEF DataTypes, Pids
    <3> QED BY <2>a, <3>2 DEF TypeOK, ControlTypes, DataTypes
  <2>2. StoppedHasNoProcess
    BY NotRunning DEF StoppedHasNoProcess, Over
  <2>3. RunningHasProcess
    <3> SUFFICES ASSUME Unlocked, st.Running, ~st.Restarting, registered,
                        ~(Alive /\ task.pid = st.Pid)
                 PROVE  \E i \in DOMAIN queue : queue[i].type = "exit" /\ queue[i].pid = st.Pid
      BY DEF RunningHasProcess
    <3>1. Busy /\ Current = st.Pid
      BY DEF Busy, Current, Unlocked
    <3>2. task.state = "exited"
      BY <2>a, <3>1 DEF EventsOK, DataTypes, Alive
    <3> DEFINE n == Len(Pending)
    <3>3. Pending # <<>> /\ Pending[n].type = "exit" /\ Pending \in Seq(EventType)
      BY <2>a, <3>1, <3>2, PendingType DEF EventsOK
    <3>4. n \in DOMAIN Pending
      BY <3>3, LenProperties
    <3>5. Pending[n].pid = st.Pid
      BY <2>a, <3>1, <3>4 DEF EventsOK
    <3>6. CASE ~Past
      BY <3>3, <3>4, <3>5, <3>6 DEF Pending
    <3>7. CASE Past
      <4>1. queue # <<>> /\ queue \in Seq(EventType) /\ Pending = Tail(queue)
        BY <2>a, <3>7 DEF EventsOK, DataTypes, Pending, EventType
      <4>2. n + 1 \in DOMAIN queue /\ queue[n + 1] = Pending[n]
        BY <4>1, <3>4, HeadTailProperties, LenProperties
      <4> QED BY <4>2, <3>3, <3>5
    <3> QED BY <3>6, <3>7
  <2>4. RestartHasOwner
    <3>1. Unlocked => pc[Restarter] # "started"
      BY <2>a, ThreadFacts DEF LockOK, Unlocked
    <3> QED BY <2>a, <3>1 DEF RestartOK, Owned, RestartHasOwner
  <2> QED BY <2>1, <2>2, <2>3, <2>4 DEF StateAgrees
<1> QED BY <1>1, Invariance, PTL

(***************************************************************************)
(* Removals exclude one another through RemovalInProgress, and a removed   *)
(* container has left no process behind (delete.go's cleanupContainer      *)
(* against the restart manager and a concurrent start).                    *)
(***************************************************************************)
THEOREM RemovalCorrectness == Safety => []RemovalWhole
<1>1. IInv => RemovalWhole
  <2> SUFFICES ASSUME IInv PROVE RemovalWhole
    OBVIOUS
  <2>1. RemovedHasNoProcess
    BY DEF IInv, LockOK, RemovedHasNoProcess
  <2> DEFINE R == {t \in Threads : Removing(t)}
  <2>2. CASE ~st.RemovalInProgress
    <3>1. R = {}
      BY <2>2 DEF IInv, RemovalOK
    <3> QED BY <3>1, <2>1, <2>2, FS_EmptySet DEF OneRemoval, RemovalWhole
  <2>3. CASE st.RemovalInProgress
    <3>1. PICK t \in Threads : Removing(t)
      BY <2>3 DEF IInv, RemovalOK
    <3>2. R = {t}
      BY <3>1 DEF IInv, RemovalOK
    <3>3. Cardinality(R) = 1
      BY <3>2, FS_Singleton
    <3> QED BY <3>3, <2>1, <2>3 DEF OneRemoval, RemovalWhole
  <2> QED BY <2>2, <2>3
<1> QED BY <1>1, Invariance, PTL

(***************************************************************************)
(* When all events have been handled, Paused says whether the process is   *)
(* frozen (pause.go, unpause.go, the resume of kill.go and the paused and  *)
(* resumed events of monitor.go).                                          *)
(***************************************************************************)
THEOREM PauseCorrectness == Safety => []PausedAgrees
<1>1. IInv => PausedAgrees
  <2> SUFFICES ASSUME IInv, Unlocked, registered, queue = <<>>
               PROVE  st.Paused <=> Alive /\ task.frozen
    BY DEF PausedAgrees
  <2>1. DataTypes /\ EventsOK /\ PauseOK
    BY DEF IInv
  <2>2. Pending = <<>>
    BY <2>1 DEF EventsOK, Pending
  <2>3. CASE Busy
    <3>1. Alive
      BY <2>1, <2>2, <2>3 DEF EventsOK, DataTypes, Alive
    <3> QED BY <3>1, <2>1, <2>2, <2>3 DEF PauseOK, Unlocked
  <2>4. CASE ~Busy
    BY <2>1, <2>4, NotRunning DEF PauseOK
  <2> QED BY <2>3, <2>4
<1> QED BY <1>1, Invariance, PTL

(***************************************************************************)
(* When ContainerStop has returned without an error, and nobody asked for  *)
(* a start, the process is gone and no restart policy brings it back       *)
(* (stop.go and kill.go against monitor.go and the restart manager).       *)
(***************************************************************************)
THEOREM StopCorrectness == Safety => []StopSticks
<1>1. IInv => StopSticks
  <2> SUFFICES ASSUME IInv, NEW t \in held, pc[t] = "idle", ~err[t]
               PROVE  ~Alive /\ ~st.Restarting
    BY DEF StopSticks
  <2>1. t \in Threads
    BY ThreadFacts DEF IInv, ControlTypes
  <2> QED BY <2>1 DEF IInv, StopOK, Guarded, Knows, Over
<1> QED BY <1>1, Invariance, PTL
=============================================================================
