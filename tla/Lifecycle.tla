----------------------------- MODULE Lifecycle ------------------------------
(***************************************************************************)
(* The life of one container in the daemon: the API calls start, stop,     *)
(* kill, restart, pause, unpause and rm, the handler of containerd's       *)
(* events, and the restart manager, each in its own goroutine, against     *)
(* containerd and the container's process (external).                      *)
(*                                                                         *)
(* The container lock is taken for one step at a time, except by           *)
(* containerStart, which holds it from its checks to SetRunning while the  *)
(* process already runs.  A goroutine is a program counter and a stack of  *)
(* return labels, because stop, kill and rm call one another.              *)
(***************************************************************************)
EXTENDS State, Sequences, FiniteSets

CONSTANTS Clients,     \* goroutines that serve API calls
          Scenarios    \* the containers and surroundings considered

AllOps == {"start", "stop", "kill", "signal", "restart", "pause", "unpause", "rm", "rmForce"}

(***************************************************************************)
(* A scenario is a container, as it was created, and what can happen to    *)
(* it.  daemon/container.go:278: "can't create 'AutoRemove' container with *)
(* restart policy".                                                        *)
(***************************************************************************)
ScenarioType ==
    [Policy : {"no", "always", "unless-stopped", "on-failure"},
     MaxRetry : Nat,                                 \* MaximumRetryCount; 0 is no maximum
     AutoRemove : BOOLEAN,                           \* HostConfig.AutoRemove
     Ops : SUBSET AllOps,                            \* the API calls made
     Faults : SUBSET {"start", "signal", "storage"}, \* the external calls that may fail
     ExitCodes : SUBSET Nat,                         \* the exit codes of the process
     SelfExit : BOOLEAN,                             \* the process may exit with no signal
     MaxStarts : Nat,                                \* bound: processes ever started
     MaxCalls : Nat]                                 \* bound: API calls ever made

Monitor == "monitor"       \* the goroutine of the container's event queue
Restarter == "restarter"   \* the goroutine ProcessEvent starts for a restart
Threads == Clients \cup {Monitor, Restarter}
Free == "free"             \* nobody holds the lock across steps

ASSUME LifecycleAssumption ==
    /\ \A s \in Scenarios : s \in ScenarioType /\ (s.AutoRemove => s.Policy = "no")
    /\ Clients \cap {Monitor, Restarter, Free} = {}

VARIABLES scenario,      \* the scenario, which does not change
          st,            \* the container.State
          manual,        \* HasBeenManuallyStopped
          autoRemove,    \* HostConfig.AutoRemove
          restartCount,  \* RestartCount, and restartManager.restartCount
          registered,    \* the container is in daemon.containers
          rm,            \* the restartManager: canceled, active
          restart,       \* the Restarter's: its manager was cancelled, the exit code
          lock,          \* who holds the container lock across steps
          task,          \* containerd's task and its process
          queue,         \* events of the container, the one being handled first
          starts,        \* processes started so far; the last one's pid
          calls,         \* API calls made so far
          pc, stack,     \* where each goroutine is, and its return labels
          op,            \* the API call a client serves
          err,           \* the error a call or a Wait returned
          pid,           \* local variable pid of containerStart, killProcessDirectly
          saved,         \* local variable autoRemove of containerRestart
          woken,         \* goroutines whose Wait has a closed channel
          held           \* history: clients whose last call was a stop, with no start
                         \* asked for or under way since it was

control == <<pc, stack, err>>
locals == <<op, pid, saved, calls, held, scenario>>
manager == <<rm, restart, restartCount>>
runtime == <<task, queue, starts>>
vars == <<st, manual, autoRemove, registered, manager, lock, runtime, control, locals, woken>>

NoTask == [state |-> "none", pid |-> 0, frozen |-> FALSE, signal |-> "none"]
NewManager == [canceled |-> FALSE, active |-> FALSE]

Init == /\ scenario \in Scenarios
        /\ st = NewState
        /\ manual = FALSE
        /\ autoRemove = scenario.AutoRemove
        /\ restartCount = 0
        /\ registered = TRUE
        /\ rm = NewManager
        /\ restart = [canceled |-> FALSE, code |-> 0]
        /\ lock = Free
        /\ task = NoTask
        /\ queue = <<>>
        /\ starts = 0
        /\ calls = 0
        /\ pc = [t \in Threads |-> "idle"]
        /\ stack = [t \in Threads |-> <<>>]
        /\ op = [t \in Threads |-> "none"]
        /\ err = [t \in Threads |-> FALSE]
        /\ pid = [t \in Threads |-> 0]
        /\ saved = [t \in Threads |-> FALSE]
        /\ woken = {}
        /\ held = {}
-----------------------------------------------------------------------------
(***************************************************************************)
(* Control flow.                                                           *)
(***************************************************************************)
Goto(t, label) == /\ pc' = [pc EXCEPT ![t] = label]
                  /\ UNCHANGED <<stack, err>>

Call(t, label, ret) == /\ pc' = [pc EXCEPT ![t] = label]
                       /\ stack' = [stack EXCEPT ![t] = <<ret>> \o @]
                       /\ UNCHANGED err

Return(t, e) == /\ pc' = [pc EXCEPT ![t] = Head(stack[t])]
                /\ stack' = [stack EXCEPT ![t] = Tail(@)]
                /\ err' = [err EXCEPT ![t] = e]

\* A step that reads and decides, and changes no state but the goroutine's own.
OnlyControl == UNCHANGED <<st, manual, autoRemove, registered, manager, lock, runtime, locals, woken>>

Unlocked == lock = Free

Blocked == {t \in Threads : pc[t] = "blocked"}

\* Mutant: the channels are replaced and not closed.
WakeNobody == UNCHANGED woken

\* close(waitStop) and close(waitRemove): every goroutine in Wait is on both.
WakeAll == woken' = woken \cup Blocked
-----------------------------------------------------------------------------
(***************************************************************************)
(* containerd and the process (external).                                  *)
(***************************************************************************)
Event(type) == [type |-> type, pid |-> task.pid, code |-> 0]

StartTask == /\ starts < scenario.MaxStarts
             /\ starts' = starts + 1
             /\ task' = [NoTask EXCEPT !.state = "running", !.pid = starts + 1]
             /\ queue' = Append(queue, [type |-> "start", pid |-> starts + 1, code |-> 0])

Alive == task.state = "running"

PauseTask == /\ task' = [task EXCEPT !.frozen = TRUE]
             /\ queue' = Append(queue, Event("paused"))

ResumeTask == /\ task' = [task EXCEPT !.frozen = FALSE]
              /\ queue' = Append(queue, Event("resumed"))

\* The process ends, by itself or from a signal; a frozen one does not run.
ProcessExits(code) ==
    /\ Alive /\ ~task.frozen
    /\ scenario.SelfExit \/ task.signal # "none"
    /\ task' = [task EXCEPT !.state = "exited"]
    /\ queue' = Append(queue, [type |-> "exit", pid |-> task.pid, code |-> code])
    /\ UNCHANGED <<st, manual, autoRemove, registered, manager, lock, starts, control,
                   locals, woken>>

\* SIGKILL is not undone by a later signal.
Signalled(sig) == [task EXCEPT !.signal = IF @ = "kill" THEN @ ELSE sig]
-----------------------------------------------------------------------------
(***************************************************************************)
(* The restart manager.                                                    *)
(***************************************************************************)

\* Cancel, through ExitOnNext.  A Restarter in its back-off has this manager.
CancelRestart == /\ rm' = [rm EXCEPT !.canceled = TRUE]
                 /\ restart' = [restart EXCEPT !.canceled = @ \/ pc[Restarter] = "backoff"]
                 /\ UNCHANGED restartCount

\* ResetRestartManager(true): the old manager is cancelled, a new one made.
ResetRestart == /\ rm' = NewManager
                /\ restart' = [restart EXCEPT !.canceled = @ \/ pc[Restarter] = "backoff"]
                /\ restartCount' = 0

\* Mutant: the policy is followed although the manager was cancelled.
ShouldRestartCanceled(code) ==
    /\ ~rm.active
    /\ \/ scenario.Policy = "always"
       \/ scenario.Policy = "unless-stopped" /\ ~manual
       \/ /\ scenario.Policy = "on-failure"
          /\ scenario.MaxRetry = 0 \/ restartCount < scenario.MaxRetry
          /\ code # 0

\* ShouldRestart returns true and no error.
ShouldRestart(code) ==
    /\ scenario.Policy # "no"
    /\ ~rm.canceled
    /\ ~rm.active
    /\ \/ scenario.Policy = "always"
       \/ scenario.Policy = "unless-stopped" /\ ~manual
       \/ /\ scenario.Policy = "on-failure"
          /\ scenario.MaxRetry = 0 \/ restartCount < scenario.MaxRetry
          /\ code # 0

(***************************************************************************)
(* The goroutine of ShouldRestart and the one of ProcessEvent that reads   *)
(* its channel: the back-off ends, or the manager is cancelled; if both,   *)
(* select takes either.                                                    *)
(***************************************************************************)
BackoffEnds ==
    /\ pc[Restarter] = "backoff"
    /\ rm' = [rm EXCEPT !.active = FALSE]
    /\ pc' = [pc EXCEPT ![Restarter] = "start"]
    /\ stack' = [stack EXCEPT ![Restarter] = <<"restarted">>]
    /\ UNCHANGED <<st, manual, autoRemove, registered, restart, restartCount, lock,
                   runtime, err, locals, woken>>

BackoffCanceled ==
    /\ pc[Restarter] = "backoff" /\ restart.canceled
    /\ Goto(Restarter, "giveUp")
    /\ OnlyControl

\* Mutant: a failed restart is only logged.
RestartedOnlyLogs ==
    /\ pc[Restarter] = "restarted"
    /\ Goto(Restarter, "idle")
    /\ OnlyControl

Restarted ==
    /\ pc[Restarter] = "restarted"
    /\ Goto(Restarter, IF err[Restarter] THEN "giveUp" ELSE "idle")
    /\ OnlyControl

\* SetStopped with the exit status of the exit.  A container with a restart
\* policy has no AutoRemove, so that autoRemove returns.
GiveUp ==
    /\ pc[Restarter] = "giveUp" /\ Unlocked
    /\ st' = SetStopped(st, restart.code)
    /\ WakeAll
    /\ Goto(Restarter, "idle")
    /\ UNCHANGED <<manual, autoRemove, registered, manager, lock, runtime, locals>>
-----------------------------------------------------------------------------
(***************************************************************************)
(* containerStart.  A client resets the restart manager, the Restarter     *)
(* does not.                                                               *)
(***************************************************************************)
Resets(t) == t # Restarter

\* ContainerStart's validateState.
Validate(t) ==
    /\ pc[t] = "validate" /\ Unlocked
    /\ IF st.Paused \/ st.Running \/ st.RemovalInProgress \/ st.Dead
         THEN Return(t, TRUE)
         ELSE Goto(t, "start")
    /\ OnlyControl

\* The checks under the lock that end the call.
StartRefused(t) ==
    /\ pc[t] = "start" /\ Unlocked
    /\ \/ Resets(t) /\ st.Running /\ Return(t, FALSE)
       \/ /\ ~(Resets(t) /\ st.Running)
          /\ st.RemovalInProgress \/ st.Dead
          /\ Return(t, TRUE)
    /\ OnlyControl

\* Mutant: a dead container, or one being removed, is started.
StartsUnchecked(t) == /\ pc[t] = "start" /\ Unlocked
                      /\ ~(Resets(t) /\ st.Running)

Starts(t) == /\ pc[t] = "start" /\ Unlocked
             /\ ~(Resets(t) /\ st.Running)
             /\ ~st.RemovalInProgress /\ ~st.Dead

\* What a client's start does to the restart manager and the stop flag.
ResetForStart(t) == IF Resets(t) THEN ResetRestart /\ manual' = FALSE
                                 ELSE UNCHANGED <<manager, manual>>

(***************************************************************************)
(* Mounts, network, specification, Create or Start fail, before or after   *)
(* the restart manager is reset; what was set up is cleaned up, and a      *)
(* container with AutoRemove is removed, with the lock released.           *)
(***************************************************************************)
StartFails(t) ==
    /\ Starts(t)
    /\ "start" \in scenario.Faults \/ starts = scenario.MaxStarts
    /\ ResetForStart(t) \/ UNCHANGED <<manager, manual>>
    /\ \E cannotRun \in BOOLEAN : st' = StartFailure(st, cannotRun)
    /\ IF autoRemove THEN Call(t, "rm", "startFailed") ELSE Return(t, TRUE)
    /\ UNCHANGED <<autoRemove, registered, lock, runtime, locals, woken>>

StartFailed(t) ==
    /\ pc[t] = "startFailed" /\ Unlocked
    /\ Return(t, TRUE)
    /\ OnlyControl

\* Mutant: the lock is released while containerd starts the task.
StartsTaskUnlocked(t) ==
    /\ Starts(t)
    /\ ResetForStart(t)
    /\ StartTask
    /\ pid' = [pid EXCEPT ![t] = starts + 1]
    /\ Goto(t, "started")
    /\ UNCHANGED <<st, autoRemove, registered, lock, op, saved, calls, held, scenario, woken>>

\* containerd starts the task; the lock stays held.
StartsTask(t) ==
    /\ Starts(t)
    /\ ResetForStart(t)
    /\ StartTask
    /\ pid' = [pid EXCEPT ![t] = starts + 1]
    /\ lock' = t
    /\ Goto(t, "started")
    /\ UNCHANGED <<st, autoRemove, registered, op, saved, calls, held, scenario, woken>>

Started(t) ==
    /\ pc[t] = "started"
    /\ st' = SetRunning(st, pid[t])
    /\ lock' = Free
    /\ Return(t, FALSE)
    /\ UNCHANGED <<manual, autoRemove, registered, manager, runtime, locals, woken>>
-----------------------------------------------------------------------------
(***************************************************************************)
(* State.Wait(WaitConditionNotRunning).  The result is an error when the   *)
(* context ends first, and also when the state has an ErrorMsg.  The waits *)
(* that return to a label in NoTimeout have no deadline.                   *)
(***************************************************************************)
NoTimeout == {"stopDone", "killDone"}

Wait(t) ==
    /\ pc[t] = "wait" /\ Unlocked
    /\ IF st.Running THEN Goto(t, "blocked") ELSE Return(t, st.Err)
    /\ OnlyControl

Wakes(t) ==
    /\ pc[t] = "blocked" /\ t \in woken /\ Unlocked
    /\ Return(t, st.Err)
    /\ woken' = woken \ {t}
    /\ UNCHANGED <<st, manual, autoRemove, registered, manager, lock, runtime, locals>>

TimesOut(t) ==
    /\ pc[t] = "blocked" /\ Head(stack[t]) \notin NoTimeout
    /\ Return(t, TRUE)
    /\ woken' = woken \ {t}
    /\ UNCHANGED <<st, manual, autoRemove, registered, manager, lock, runtime, locals>>
-----------------------------------------------------------------------------
(***************************************************************************)
(* killWithSignal, under the lock, with its result, for SIGKILL and the    *)
(* container's stop signal (any signal, if none is configured), for which  *)
(* ExitOnNext is called.  A process that is gone is no error; a paused one *)
(* is resumed so that the signal reaches it.                               *)
(***************************************************************************)
SendSignal(sig) ==
    IF Alive
      THEN IF st.Paused /\ task.frozen
             THEN /\ task' = [Signalled(sig) EXCEPT !.frozen = FALSE]
                  /\ queue' = Append(queue, Event("resumed"))
             ELSE task' = Signalled(sig) /\ UNCHANGED queue
      ELSE UNCHANGED <<task, queue>>

KillWithSignal(sig, e) ==
    /\ Unlocked
    /\ \/ /\ ~st.Running /\ e
          /\ UNCHANGED <<manual, manager, task, queue>>
       \/ /\ st.Running
          /\ CancelRestart
          /\ manual' = TRUE
          /\ \/ st.Restarting /\ ~e /\ UNCHANGED <<task, queue>>
             \/ ~st.Restarting /\ ~e /\ SendSignal(sig)
             \/ ~st.Restarting /\ e /\ "signal" \in scenario.Faults /\ UNCHANGED <<task, queue>>
    /\ UNCHANGED <<st, autoRemove, registered, lock, starts, locals, woken>>

(***************************************************************************)
(* killWithSignal for a signal that is neither: the policy goes on and a   *)
(* paused process stays so, but it counts as a stop by the user.  The      *)
(* process may end of it.                                                  *)
(***************************************************************************)
KillWithOther(e) ==
    /\ Unlocked /\ st.Running
    /\ manual' = TRUE
    /\ \/ ~e /\ task' = IF Alive /\ ~st.Restarting THEN Signalled("term") ELSE task
       \/ ~st.Restarting /\ e /\ "signal" \in scenario.Faults /\ UNCHANGED task
    /\ UNCHANGED <<st, autoRemove, registered, manager, lock, queue, starts, locals, woken>>

\* ContainerKill with a signal other than SIGKILL.
ContainerSignal(t) ==
    /\ pc[t] = "signal"
    /\ \E e \in BOOLEAN : (KillWithSignal("term", e) \/ KillWithOther(e)) /\ Return(t, e)

\* Kill: IsRunning.
Kill(t) ==
    /\ pc[t] = "kill" /\ Unlocked
    /\ IF st.Running THEN Goto(t, "killSignal") ELSE Return(t, TRUE)
    /\ OnlyControl

\* After an error, Kill waits two seconds before it believes it.
KillSignal(t) ==
    /\ pc[t] = "killSignal"
    /\ \E e \in BOOLEAN : /\ KillWithSignal("kill", e)
                          /\ Call(t, "wait", IF e THEN "killRetry" ELSE "killWaited")

KillRetry(t) ==
    /\ pc[t] = "killRetry"
    /\ IF err[t] THEN Return(t, TRUE) ELSE Call(t, "wait", "killWaited")
    /\ OnlyControl

\* killProcessDirectly after its Wait: GetPID.
KillWaited(t) ==
    /\ pc[t] = "killWaited"
    /\ IF err[t]
         THEN /\ Unlocked
              /\ pid' = [pid EXCEPT ![t] = st.Pid]
              /\ IF st.Pid = 0 THEN Call(t, "wait", "killDone") ELSE Goto(t, "killDirect")
         ELSE Call(t, "wait", "killDone") /\ UNCHANGED pid
    /\ UNCHANGED <<st, manual, autoRemove, registered, manager, lock, runtime, op, saved,
                   calls, held, scenario, woken>>

\* unix.Kill(pid, 9); a process that is gone (ESRCH) ends Kill without an error.
KillDirect(t) ==
    /\ pc[t] = "killDirect"
    /\ \/ IF Alive /\ task.pid = pid[t]
            THEN task' = Signalled("kill") /\ Call(t, "wait", "killDone")
            ELSE Return(t, FALSE) /\ UNCHANGED task
       \/ "signal" \in scenario.Faults /\ Return(t, TRUE) /\ UNCHANGED task
    /\ UNCHANGED <<st, manual, autoRemove, registered, manager, lock, queue, starts, locals,
                   woken>>

KillDone(t) ==
    /\ pc[t] = "killDone"
    /\ Return(t, FALSE)
    /\ OnlyControl
-----------------------------------------------------------------------------
(***************************************************************************)
(* ContainerStop and containerStop.                                        *)
(***************************************************************************)
ContainerStop(t) ==
    /\ pc[t] = "containerStop" /\ Unlocked
    /\ IF st.Running THEN Goto(t, "stop") ELSE Return(t, TRUE)
    /\ OnlyControl

Stop(t) ==
    /\ pc[t] = "stop" /\ Unlocked
    /\ IF st.Running THEN Goto(t, "stopSignal") ELSE Return(t, FALSE)
    /\ OnlyControl

StopSignal(t) ==
    /\ pc[t] = "stopSignal"
    /\ \E e \in BOOLEAN : /\ KillWithSignal("term", e)
                          /\ Call(t, "wait", IF e THEN "stopRetry" ELSE "stopWaited")

\* The signal was not sent, and two seconds later the container still runs.
StopRetry(t) ==
    /\ pc[t] = "stopRetry"
    /\ IF err[t]
         THEN \E e \in BOOLEAN :
                 /\ KillWithSignal("kill", e)
                 /\ IF e THEN Return(t, TRUE) ELSE Call(t, "wait", "stopWaited")
         ELSE Call(t, "wait", "stopWaited") /\ OnlyControl

\* The process did not exit in time.
StopWaited(t) ==
    /\ pc[t] = "stopWaited"
    /\ IF err[t] THEN Call(t, "kill", "stopKilled") ELSE Return(t, FALSE)
    /\ OnlyControl

\* Whatever made Kill fail, only a stopped container counts.
StopKilled(t) ==
    /\ pc[t] = "stopKilled"
    /\ IF err[t] THEN Call(t, "wait", "stopDone") ELSE Return(t, FALSE)
    /\ OnlyControl

StopDone(t) ==
    /\ pc[t] = "stopDone"
    /\ Return(t, FALSE)
    /\ OnlyControl
-----------------------------------------------------------------------------
(***************************************************************************)
(* containerRestart.  AutoRemove is saved, cleared and restored without    *)
(* the lock.                                                               *)
(***************************************************************************)
Restart(t) ==
    /\ pc[t] = "restart" /\ Unlocked
    /\ Goto(t, IF st.Running THEN "restartSave" ELSE "start")
    /\ OnlyControl

RestartSave(t) ==
    /\ pc[t] = "restartSave"
    /\ saved' = [saved EXCEPT ![t] = autoRemove]
    /\ Goto(t, "restartClear")
    /\ UNCHANGED <<st, manual, autoRemove, registered, manager, lock, runtime, op, pid, calls,
                   held, scenario, woken>>

RestartClear(t) ==
    /\ pc[t] = "restartClear"
    /\ autoRemove' = FALSE
    /\ Call(t, "stop", "restartStopped")
    /\ UNCHANGED <<st, manual, registered, manager, lock, runtime, locals, woken>>

RestartStopped(t) ==
    /\ pc[t] = "restartStopped"
    /\ autoRemove' = saved[t]
    /\ IF err[t] THEN Return(t, TRUE) ELSE Goto(t, "start")
    /\ UNCHANGED <<st, manual, registered, manager, lock, runtime, locals, woken>>
-----------------------------------------------------------------------------
(***************************************************************************)
(* containerPause and containerUnpause.                                    *)
(***************************************************************************)
Pause(t) ==
    /\ pc[t] = "pause" /\ Unlocked
    /\ IF st.Running /\ ~st.Paused /\ ~st.Restarting /\ Alive /\ ~task.frozen
         THEN PauseTask /\ st' = [st EXCEPT !.Paused = TRUE] /\ Return(t, FALSE)
         ELSE UNCHANGED <<st, task, queue>> /\ Return(t, TRUE)
    /\ UNCHANGED <<manual, autoRemove, registered, manager, lock, starts, locals, woken>>

Unpause(t) ==
    /\ pc[t] = "unpause" /\ Unlocked
    /\ IF st.Paused /\ Alive /\ task.frozen
         THEN ResumeTask /\ st' = [st EXCEPT !.Paused = FALSE] /\ Return(t, FALSE)
         ELSE UNCHANGED <<st, task, queue>> /\ Return(t, TRUE)
    /\ UNCHANGED <<manual, autoRemove, registered, manager, lock, starts, locals, woken>>
-----------------------------------------------------------------------------
(***************************************************************************)
(* ContainerRm and cleanupContainer.  Only a client's plain rm does not    *)
(* force.                                                                  *)
(***************************************************************************)
Forces(t) == op[t] # "rm"

\* SetRemovalInProgress.
Rm(t) ==
    /\ pc[t] = "rm" /\ Unlocked
    /\ IF st.RemovalInProgress
         THEN Return(t, TRUE) /\ UNCHANGED st
         ELSE Goto(t, "rmCheck") /\ st' = [st EXCEPT !.RemovalInProgress = TRUE]
    /\ UNCHANGED <<manual, autoRemove, registered, manager, lock, runtime, locals, woken>>

\* End the removal with the result e.
RmEnds(t, e) == /\ pc' = [pc EXCEPT ![t] = "rmEnd"]
                /\ err' = [err EXCEPT ![t] = e]
                /\ UNCHANGED stack

RmCheck(t) ==
    /\ pc[t] = "rmCheck" /\ Unlocked
    /\ \/ ~registered /\ RmEnds(t, FALSE)
       \/ registered /\ st.Running /\ ~Forces(t) /\ RmEnds(t, TRUE)
       \/ registered /\ st.Running /\ Forces(t) /\ Call(t, "kill", "rmKilled")
       \/ registered /\ ~st.Running /\ Call(t, "stop", "rmStopped")
    /\ OnlyControl

RmKilled(t) ==
    /\ pc[t] = "rmKilled"
    /\ IF err[t] THEN RmEnds(t, TRUE) ELSE Call(t, "stop", "rmStopped")
    /\ OnlyControl

RmStopped(t) ==
    /\ pc[t] = "rmStopped"
    /\ IF err[t] THEN RmEnds(t, TRUE) ELSE Goto(t, "rmDead")
    /\ OnlyControl

RmDead(t) ==
    /\ pc[t] = "rmDead" /\ Unlocked
    /\ st' = [st EXCEPT !.Dead = TRUE]
    /\ Goto(t, "rmStorage")
    /\ UNCHANGED <<manual, autoRemove, registered, manager, lock, runtime, locals, woken>>

(***************************************************************************)
(* The layer or the directory cannot be removed, and the error is set      *)
(* without the lock, in the first half of SetRemovalError; or both are,    *)
(* and the container leaves daemon.containers.                             *)
(***************************************************************************)
RmStorage(t) ==
    /\ pc[t] = "rmStorage"
    /\ \/ /\ "storage" \in scenario.Faults
          /\ st' = SetError(st, TRUE)
          /\ err' = [err EXCEPT ![t] = TRUE]
          /\ pc' = [pc EXCEPT ![t] = "rmWake"]
          /\ UNCHANGED <<registered, stack>>
       \/ registered' = FALSE /\ Goto(t, "rmRemoved") /\ UNCHANGED st
    /\ UNCHANGED <<manual, autoRemove, manager, lock, runtime, locals, woken>>

\* The first half of SetRemoved.
RmRemoved(t) ==
    /\ pc[t] = "rmRemoved"
    /\ st' = SetError(st, FALSE)
    /\ err' = [err EXCEPT ![t] = FALSE]
    /\ pc' = [pc EXCEPT ![t] = "rmWake"]
    /\ UNCHANGED <<manual, autoRemove, registered, manager, lock, runtime, stack, locals, woken>>

RmWake(t) ==
    /\ pc[t] = "rmWake" /\ Unlocked
    /\ WakeAll
    /\ Goto(t, "rmEnd")
    /\ UNCHANGED <<st, manual, autoRemove, registered, manager, lock, runtime, locals>>

\* ResetRemovalInProgress, deferred.
RmEnd(t) ==
    /\ pc[t] = "rmEnd" /\ Unlocked
    /\ st' = [st EXCEPT !.RemovalInProgress = FALSE]
    /\ Return(t, err[t])
    /\ UNCHANGED <<manual, autoRemove, registered, manager, lock, runtime, locals, woken>>
-----------------------------------------------------------------------------
(***************************************************************************)
(* ProcessEvent.  The event queue runs the handlers of a container one     *)
(* after the other: the event at its head is the one being handled.        *)
(***************************************************************************)
Handles(type) == /\ pc[Monitor] = "idle"
                 /\ queue # <<>> /\ Head(queue).type = type

\* GetContainer fails.
EventDropped ==
    /\ pc[Monitor] = "idle" /\ queue # <<>> /\ ~registered
    /\ queue' = Tail(queue)
    /\ UNCHANGED <<st, manual, autoRemove, registered, manager, lock, task, starts, control,
                   locals, woken>>

\* A start that docker did not make is recorded.
EventStart ==
    /\ Handles("start") /\ registered /\ Unlocked
    /\ IF st.Running
         THEN UNCHANGED <<st, manual>>
         ELSE st' = SetRunning(st, Head(queue).pid) /\ manual' = FALSE
    /\ queue' = Tail(queue)
    /\ UNCHANGED <<autoRemove, registered, manager, lock, task, starts, control, locals, woken>>

EventPaused ==
    /\ Handles("paused") /\ registered /\ Unlocked
    /\ st' = [st EXCEPT !.Paused = TRUE]
    /\ queue' = Tail(queue)
    /\ UNCHANGED <<manual, autoRemove, registered, manager, lock, task, starts, control, locals,
                   woken>>

\* Mutant: the resumed event is ignored, as if every resume were ContainerUnpause's.
EventResumedIgnored ==
    /\ Handles("resumed") /\ registered /\ Unlocked
    /\ queue' = Tail(queue)
    /\ UNCHANGED <<st, manual, autoRemove, registered, manager, lock, task, starts, control,
                   locals, woken>>

EventResumed ==
    /\ Handles("resumed") /\ registered /\ Unlocked
    /\ st' = [st EXCEPT !.Paused = FALSE]
    /\ queue' = Tail(queue)
    /\ UNCHANGED <<manual, autoRemove, registered, manager, lock, task, starts, control, locals,
                   woken>>

(***************************************************************************)
(* The pid of an exit is compared with the container's without the lock;   *)
(* any other pid is taken for an exec's, and the event is over.            *)
(***************************************************************************)
EventExit ==
    /\ Handles("exit") /\ registered
    /\ IF Head(queue).pid = st.Pid
         THEN Goto(Monitor, "exit") /\ UNCHANGED queue
         ELSE queue' = Tail(queue) /\ UNCHANGED control
    /\ UNCHANGED <<st, manual, autoRemove, registered, manager, lock, task, starts, locals,
                   woken>>

ExitRestarts(code) ==
    /\ ShouldRestart(code)
    /\ st' = SetRestarting(st, code)
    /\ rm' = [rm EXCEPT !.active = TRUE]
    /\ restart' = [canceled |-> FALSE, code |-> code]
    /\ restartCount' = restartCount + 1
    /\ queue' = Tail(queue)
    /\ pc' = [pc EXCEPT ![Monitor] = "idle", ![Restarter] = "backoff"]

\* The event has an error, for SetError, only on Windows (libcontainerd/local); the
\* remote client sets none.
ExitStops(code) ==
    /\ ~ShouldRestart(code)
    /\ st' = SetStopped(st, code)
    /\ pc' = [pc EXCEPT ![Monitor] = "autoRemove"]
    /\ UNCHANGED <<manager, queue>>

\* The handler under the lock: DeleteTask, the decision, Cleanup.
Exit ==
    /\ pc[Monitor] = "exit" /\ Unlocked
    /\ task' = NoTask
    /\ ExitRestarts(Head(queue).code) \/ ExitStops(Head(queue).code)
    /\ WakeAll
    /\ UNCHANGED <<manual, autoRemove, registered, lock, starts, stack, err, locals>>

\* autoRemove, in the handler's goroutine.
ExitAutoRemove ==
    /\ pc[Monitor] = "autoRemove" /\ Unlocked
    /\ IF autoRemove /\ registered
         THEN Call(Monitor, "rm", "handled") /\ UNCHANGED queue
         ELSE Goto(Monitor, "idle") /\ queue' = Tail(queue)
    /\ UNCHANGED <<st, manual, autoRemove, registered, manager, lock, task, starts, locals,
                   woken>>

Handled ==
    /\ pc[Monitor] = "handled"
    /\ Goto(Monitor, "idle")
    /\ queue' = Tail(queue)
    /\ UNCHANGED <<st, manual, autoRemove, registered, manager, lock, task, starts, locals,
                   woken>>
-----------------------------------------------------------------------------
(***************************************************************************)
(* A client asks for o, and the container is found.                        *)
(***************************************************************************)
Entry == [start |-> "validate", stop |-> "containerStop", kill |-> "kill",
          signal |-> "signal", restart |-> "restart", pause |-> "pause",
          unpause |-> "unpause", rm |-> "rm", rmForce |-> "rm"]

\* A client serves one of the calls os.
Serves(t, os) == pc[t] # "idle" /\ op[t] \in os

StartCalls == {"start", "restart"}

Hold(t, o) == IF o \in StartCalls THEN {}
              ELSE IF o = "stop" /\ \A u \in Clients : ~Serves(u, StartCalls)
                THEN held \cup {t}
                ELSE held \ {t}

Request(t, o) ==
    /\ o \in scenario.Ops
    /\ pc[t] = "idle" /\ registered /\ calls < scenario.MaxCalls
    /\ held' = Hold(t, o)
    /\ calls' = calls + 1
    /\ op' = [op EXCEPT ![t] = o]
    /\ Call(t, Entry[o], "idle")
    /\ UNCHANGED <<st, manual, autoRemove, registered, manager, lock, runtime, pid, saved,
                   scenario, woken>>

\* The steps any goroutine can be in; those of a Wait apart.
Step(t) ==
    \/ Validate(t) \/ StartRefused(t) \/ StartFails(t) \/ StartFailed(t)
    \/ StartsTask(t) \/ Started(t)
    \/ Wait(t) \/ Wakes(t) \/ TimesOut(t)
    \/ ContainerSignal(t)
    \/ Kill(t) \/ KillSignal(t) \/ KillRetry(t) \/ KillWaited(t) \/ KillDirect(t) \/ KillDone(t)
    \/ ContainerStop(t) \/ Stop(t) \/ StopSignal(t) \/ StopRetry(t) \/ StopWaited(t)
    \/ StopKilled(t) \/ StopDone(t)
    \/ Restart(t) \/ RestartSave(t) \/ RestartClear(t) \/ RestartStopped(t)
    \/ Pause(t) \/ Unpause(t)
    \/ Rm(t) \/ RmCheck(t) \/ RmKilled(t) \/ RmStopped(t) \/ RmDead(t) \/ RmStorage(t)
    \/ RmRemoved(t) \/ RmWake(t) \/ RmEnd(t)

Handle == \/ EventDropped \/ EventStart \/ EventPaused \/ EventResumed
          \/ EventExit \/ Exit \/ ExitAutoRemove \/ Handled

Backoff == BackoffEnds \/ BackoffCanceled \/ Restarted \/ GiveUp

Next == \/ \E t \in Clients, o \in AllOps : Request(t, o)
        \/ \E t \in Threads : Step(t)
        \/ Handle
        \/ Backoff
        \/ \E code \in scenario.ExitCodes : ProcessExits(code)

(***************************************************************************)
(* Goroutines run, timers fire, events arrive, and a process that was sent *)
(* SIGKILL and is not frozen dies.  The lock is a Go mutex, which does not *)
(* starve a goroutine, hence the strong fairness.  Nothing makes a process *)
(* exit by itself.                                                         *)
(***************************************************************************)
Dies == task.signal = "kill" /\ \E code \in scenario.ExitCodes : ProcessExits(code)

Fairness == /\ \A t \in Threads : SF_vars(Step(t))
            /\ SF_vars(Handle)
            /\ SF_vars(Backoff)
            /\ WF_vars(Dies)

Safety == Init /\ [][Next]_vars

Spec == Safety /\ Fairness
-----------------------------------------------------------------------------
Labels == {"idle", "validate", "start", "started", "startFailed", "wait", "blocked", "signal",
           "kill", "killSignal", "killRetry", "killWaited", "killDirect", "killDone",
           "containerStop", "stop", "stopSignal", "stopRetry", "stopWaited", "stopKilled",
           "stopDone", "restart", "restartSave", "restartClear", "restartStopped", "pause",
           "unpause", "rm", "rmCheck", "rmKilled", "rmStopped", "rmDead", "rmStorage", "rmRemoved",
           "rmWake", "rmEnd", "exit", "autoRemove", "handled", "backoff", "restarted", "giveUp"}

Pids == 0 .. scenario.MaxStarts

TypeOK ==
    /\ scenario \in Scenarios
    /\ st \in States(Pids, scenario.ExitCodes \cup {0, 127, 128})
    /\ manual \in BOOLEAN /\ autoRemove \in BOOLEAN /\ registered \in BOOLEAN
    /\ restartCount \in 0 .. scenario.MaxStarts
    /\ rm \in [canceled : BOOLEAN, active : BOOLEAN]
    /\ restart \in [canceled : BOOLEAN, code : scenario.ExitCodes \cup {0}]
    /\ lock \in Threads \cup {Free}
    /\ task \in [state : {"none", "running", "exited"}, pid : Pids, frozen : BOOLEAN,
                 signal : {"none", "term", "kill"}]
    /\ queue \in Seq([type : {"start", "exit", "paused", "resumed"}, pid : Pids,
                      code : scenario.ExitCodes \cup {0}])
    /\ starts \in Pids /\ calls \in 0 .. scenario.MaxCalls
    /\ pc \in [Threads -> Labels]
    /\ stack \in [Threads -> Seq(Labels)]
    /\ op \in [Threads -> AllOps \cup {"none"}]
    /\ err \in [Threads -> BOOLEAN]
    /\ pid \in [Threads -> Pids]
    /\ saved \in [Threads -> BOOLEAN]
    /\ woken \subseteq Blocked
    /\ held \subseteq Clients

(***************************************************************************)
(* A container that is not running has no process, whoever stopped,        *)
(* killed or restarted it: SetStopped is called only after the exit of     *)
(* the process it is about, or when none was started.                      *)
(***************************************************************************)
StoppedHasNoProcess == Unlocked /\ ~st.Running => ~Alive

(***************************************************************************)
(* A container that is running, and not waiting to be restarted, has its   *)
(* process or the exit of its process still to be handled: the exit event  *)
(* is never taken for an exec's, and no start event brings back a          *)
(* container whose process has exited.                                     *)
(***************************************************************************)
RunningHasProcess ==
    Unlocked /\ st.Running /\ ~st.Restarting /\ registered =>
        \/ Alive /\ task.pid = st.Pid
        \/ \E i \in DOMAIN queue : queue[i].type = "exit" /\ queue[i].pid = st.Pid

(***************************************************************************)
(* A container is restarting exactly while a goroutine has its restart in  *)
(* hand, so that a restarting container is always started or stopped.      *)
(***************************************************************************)
RestartHasOwner ==
    Unlocked => (st.Restarting <=> \/ pc[Restarter] \in {"backoff", "start", "giveUp"}
                                   \/ pc[Restarter] = "restarted" /\ err[Restarter])

(***************************************************************************)
(* A removed container has no process, and none is started for it.         *)
(***************************************************************************)
RemovedHasNoProcess == st.Dead \/ ~registered => ~Alive

(***************************************************************************)
(* When all events have been handled, the container is paused exactly if   *)
(* its process is frozen, although ContainerPause, ContainerUnpause, the   *)
(* resume in killWithSignal and the late events all write the flag.  Not   *)
(* once it was removed: the events that were still to come are dropped,    *)
(* and the flag of a container nobody can find stays as it was.            *)
(***************************************************************************)
PausedAgrees ==
    Unlocked /\ registered /\ queue = <<>> => (st.Paused <=> Alive /\ task.frozen)

(***************************************************************************)
(* At most one goroutine is past SetRemovalInProgress at a time, and the   *)
(* flag is set as long as one is.                                          *)
(***************************************************************************)
Removing(t) == \E l \in {"rmCheck", "rmKilled", "rmStopped", "rmDead", "rmStorage", "rmRemoved",
                          "rmWake", "rmEnd"} :
                  pc[t] = l \/ \E i \in DOMAIN stack[t] : stack[t][i] = l

OneRemoval == Cardinality({t \in Threads : Removing(t)}) =
                IF st.RemovalInProgress THEN 1 ELSE 0

(***************************************************************************)
(* When ContainerStop has returned, and no client asked for a start in the *)
(* meantime, the process is gone and the restart policy does not bring it  *)
(* back, although the exit, the end of a back-off, a failed start and the  *)
(* stop can come in any order.                                             *)
(***************************************************************************)
StopSticks == \A t \in held : pc[t] = "idle" /\ ~err[t] => ~Alive /\ ~st.Restarting

(***************************************************************************)
(* A start, stop, kill, signal or restart returns, unless from some time   *)
(* on a process lives that was not sent SIGKILL: if no signal fails to be  *)
(* sent, they wait only for a process, and never for one another or for a  *)
(* channel nobody closes.  The claim is not made, because it is false, of  *)
(* a container that is being removed or paused (see the README).           *)
(***************************************************************************)
OnlyRuns == /\ scenario.Ops \cap {"rm", "rmForce", "pause", "unpause"} = {}
            /\ ~scenario.AutoRemove /\ "signal" \notin scenario.Faults

CallsReturn ==
    OnlyRuns => \A t \in Clients : []<>(pc[t] = "idle") \/ <>[](Alive /\ task.signal # "kill")

\* A container does not stay restarting.
RestartResolves == st.Restarting ~> ~st.Restarting

(***************************************************************************)
(* "ProcessEvent is called by libcontainerd whenever an event occurs"      *)
(* (daemon/monitor.go:28): the exit of the process is handled.  Not for a  *)
(* container with AutoRemove, whose handler may itself wait for an exit.   *)
(***************************************************************************)
ExitHandled ==
    ~scenario.AutoRemove => (task.state = "exited" ~> task.state # "exited")

(***************************************************************************)
(* The state, the process and the goroutines in charge agree, however the  *)
(* calls, the events and the exits of processes interleave.                *)
(***************************************************************************)
StateAgrees == TypeOK /\ StoppedHasNoProcess /\ RunningHasProcess /\ RestartHasOwner

(***************************************************************************)
(* Removals exclude one another (the RemovalInProgress flag), and a        *)
(* container that was removed has left no process behind.                  *)
(***************************************************************************)
RemovalWhole == RemovedHasNoProcess /\ OneRemoval
=============================================================================
