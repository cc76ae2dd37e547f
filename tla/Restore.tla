------------------------------ MODULE Restore -------------------------------
(***************************************************************************)
(* A container across the lives of the daemon: the daemon dies between any *)
(* two steps, or is shut down, the process may go on or end while nobody   *)
(* listens, and restore brings the record on disk back in line with what   *)
(* containerd still has, while events of the container already arrive.     *)
(*                                                                         *)
(* A record is the container as CheckpointTo writes it: its State and two  *)
(* flags.  Every operation is split where the daemon can die between two   *)
(* effects that outlive it: on the disk, on the container's files and in   *)
(* containerd.  What the calls wait for, and the signals they repeat, is   *)
(* in module Lifecycle; here the process may end at any time, signalled or *)
(* not.                                                                    *)
(***************************************************************************)
EXTENDS State, Sequences, TLC

CONSTANT Scenarios

AllOps == {"start", "stop", "pause", "unpause", "rm"}

ScenarioType ==
    [LiveRestore : BOOLEAN,                    \* configStore.LiveRestoreEnabled
     Policy : {"no", "always", "unless-stopped", "on-failure"},
     AutoRemove : BOOLEAN,                     \* HostConfig.AutoRemove
     Ops : SUBSET AllOps,                      \* the API calls made
     Faults : SUBSET {"restore", "status", "events", "start", "storage", "checkpoint"},
     ExitCodes : SUBSET Nat,
     MaxStarts : Nat,                          \* bound: processes ever started
     MaxCalls : Nat,                           \* bound: API calls ever made
     MaxDowns : Nat]                           \* bound: ends of the daemon

ASSUME RestoreAssumption ==
    \A s \in Scenarios : s \in ScenarioType /\ (s.AutoRemove => s.Policy = "no")

(***************************************************************************)
(* Main runs restore, then Shutdown; Api serves the calls, one at a time;  *)
(* Monitor handles the events; Restarter is the goroutine ProcessEvent     *)
(* starts for a restart (bound: one at a time).                            *)
(***************************************************************************)
Main == "main"
Api == "api"
Monitor == "monitor"
Restarter == "restarter"
Threads == {Main, Api, Monitor, Restarter}
Free == "free"

VARIABLES scenario,    \* the scenario, which does not change
          up,          \* the daemon: down, restoring, up, stopping
          c,           \* the container in memory
          registered,  \* it is in daemon.containers
          disk,        \* its config.v2.json, or Gone
          layer,       \* its read-write layer exists
          object,      \* containerd has a container object of its name
          task,        \* containerd's task and its process
          queue,       \* events to be handled, the one being handled first
          rm,          \* the restartManager, and who made it active
          restart,     \* the Restarter's: its manager was cancelled, the exit code
          lock,        \* who holds the container lock across steps
          pc,          \* where each goroutine is
          removes,     \* goroutines in ContainerRm
          found,       \* locals of restore: process # nil, alive, ec, the list it put c in
          starts, calls, downs,
          lost,        \* history: an event did not reach this daemon
          gaveUp,      \* history: restore met an error of containerd
          recorded,    \* history: the last process whose start was saved
          raced,       \* history: restore marked the container stopped while the exit of
                       \* its process was being handled, or a restart was under way
          stopped      \* history: the user stopped the container, before a Shutdown

outside == <<layer, object, task>>
manager == <<rm, restart>>
history == <<lost, gaveUp, recorded, raced, stopped>>
bounds == <<starts, calls, downs, scenario>>
vars == <<up, c, registered, disk, outside, queue, manager, lock, pc, removes, found,
          bounds, history>>

Gone == [gone |-> TRUE]
NewContainer ==
    [Running |-> FALSE, Paused |-> FALSE, Restarting |-> FALSE, RemovalInProgress |-> FALSE,
     Dead |-> FALSE, Pid |-> 0, ExitCode |-> 0, Err |-> FALSE,
     HasBeenManuallyStopped |-> FALSE, HasBeenStartedBefore |-> FALSE]
NoTask == [state |-> "none", pid |-> 0, frozen |-> FALSE, code |-> 0]
NewManager == [canceled |-> FALSE, active |-> FALSE, by |-> "none"]
NoRestart == [canceled |-> FALSE, code |-> 0]
NotFound == [process |-> FALSE, alive |-> FALSE, ec |-> 0, list |-> "none"]

\* The container was created, and the daemon has not been down since.
Init == /\ scenario \in Scenarios
        /\ up = "up"
        /\ c = NewContainer /\ registered = TRUE
        /\ disk = NewContainer /\ layer = TRUE
        /\ object = FALSE /\ task = NoTask
        /\ queue = <<>>
        /\ rm = NewManager /\ restart = NoRestart
        /\ lock = Free
        /\ pc = [t \in Threads |-> "idle"]
        /\ removes = {}
        /\ found = NotFound
        /\ starts = 0 /\ calls = 0 /\ downs = 0
        /\ lost = FALSE /\ gaveUp = FALSE /\ recorded = 0 /\ raced = FALSE /\ stopped = FALSE
-----------------------------------------------------------------------------
Unlocked == lock = Free

Goto(t, label) == pc' = [pc EXCEPT ![t] = label]

\* CheckpointTo: once the directory is gone nothing can be written into it.
SaveFile(m) == disk' = IF disk = Gone THEN Gone ELSE m

Save(m) == c' = m /\ SaveFile(m)

\* The same, where the error of CheckpointTo is modelled: it is logged, and the file stays.
SaveOrFail(m) == c' = m /\ (SaveFile(m) \/ ("checkpoint" \in scenario.Faults /\ UNCHANGED disk))

Alive == task.state = "running"

\* A call of t is over.
Ends(t) == CASE t = Main /\ up = "stopping" -> "off"
             [] t = Main /\ up # "stopping" -> "ready"
             [] t = Monitor -> "handled"
             [] OTHER -> "idle"

\* An event reaches the daemon, unless it is down or its stream is broken.
Emit(type, pid, code) ==
    \/ /\ up # "down"
       /\ queue' = Append(queue, [type |-> type, pid |-> pid, code |-> code])
       /\ UNCHANGED lost
    \/ /\ up = "down" \/ "events" \in scenario.Faults
       /\ lost' = (up # "down")
       /\ UNCHANGED queue

ProcessExits(code) ==
    /\ Alive /\ ~task.frozen
    /\ task' = [task EXCEPT !.state = "exited", !.code = code]
    /\ Emit("exit", task.pid, code)
    /\ UNCHANGED <<up, c, registered, disk, layer, object, manager, lock, pc, removes, found,
                   bounds, gaveUp, recorded, raced, stopped>>

\* DeleteTask: containerd does not delete a task that runs.
DeletedTask == IF Alive THEN task ELSE NoTask

\* containerd.Delete: nor a container that has a task.
DeletedObject(tk) == object /\ tk.state # "none"
-----------------------------------------------------------------------------
(***************************************************************************)
(* The restart manager.                                                    *)
(***************************************************************************)
CanceledRestart == [restart EXCEPT !.canceled = @ \/ pc[Restarter] = "backoff"]

CancelRestart == rm' = [rm EXCEPT !.canceled = TRUE] /\ restart' = CanceledRestart

ResetRestartManager == rm' = NewManager /\ restart' = CanceledRestart

\* ShouldRestart returns true; it fails on a manager cancelled or active.
ShouldRestart(code, manual) ==
    /\ scenario.Policy # "no"
    /\ ~rm.canceled /\ ~rm.active
    /\ \/ scenario.Policy = "always"
       \/ scenario.Policy = "unless-stopped" /\ ~manual
       \/ scenario.Policy = "on-failure" /\ code # 0

Activate(by) == rm' = [rm EXCEPT !.active = TRUE, !.by = by]

\* The back-off of the ShouldRestart that restore called, which nobody waits for.
TimerFires ==
    /\ rm.active /\ rm.by = "restore" /\ ~rm.canceled
    /\ rm' = [rm EXCEPT !.active = FALSE]
    /\ UNCHANGED <<up, c, registered, disk, outside, queue, restart, lock, pc, removes, found,
                   bounds, history>>

BackoffEnds ==
    /\ pc[Restarter] = "backoff"
    /\ rm' = IF restart.canceled THEN rm ELSE [rm EXCEPT !.active = FALSE]
    /\ Goto(Restarter, "startup")
    /\ UNCHANGED <<up, c, registered, disk, outside, queue, restart, lock, removes, found,
                   bounds, history>>

BackoffCanceled ==
    /\ pc[Restarter] = "backoff" /\ restart.canceled
    /\ Goto(Restarter, "giveUp")
    /\ UNCHANGED <<up, c, registered, disk, outside, queue, manager, lock, removes, found,
                   bounds, history>>

\* waitForStartupDone.
StartupDone ==
    /\ pc[Restarter] = "startup" /\ up # "restoring"
    /\ Goto(Restarter, "start")
    /\ UNCHANGED <<up, c, registered, disk, outside, queue, manager, lock, removes, found,
                   bounds, history>>

GiveUp ==
    /\ pc[Restarter] = "giveUp" /\ Unlocked
    /\ Save(SetStopped(c, restart.code))
    /\ Goto(Restarter, "idle")
    /\ UNCHANGED <<up, registered, outside, queue, manager, lock, removes, found, bounds,
                   history>>
-----------------------------------------------------------------------------
(***************************************************************************)
(* containerStart: by a call, by restore, and by the Restarter, which      *)
(* alone does not reset the restart manager.                               *)
(***************************************************************************)
Resets(t) == t # Restarter

StartFailed(t) == IF t = Restarter THEN "giveUp" ELSE Ends(t)

StartRefused(t) ==
    /\ pc[t] = "start" /\ Unlocked
    /\ IF Resets(t) /\ c.Running
         THEN Goto(t, Ends(t))
         ELSE (c.RemovalInProgress \/ c.Dead) /\ Goto(t, StartFailed(t))
    /\ UNCHANGED <<up, c, registered, disk, outside, queue, manager, lock, removes, found,
                   bounds, history>>

Starts(t) == /\ pc[t] = "start" /\ Unlocked
             /\ ~(Resets(t) /\ c.Running)
             /\ ~c.RemovalInProgress /\ ~c.Dead

\* The flag of a manual stop is cleared, in memory.
ForStart(t) == IF Resets(t) THEN [c EXCEPT !.HasBeenManuallyStopped = FALSE] ELSE c

(***************************************************************************)
(* Create, when containerd still has a container of the name too: what is  *)
(* left of a previous run is deleted first.                                *)
(***************************************************************************)
Creates(t) ==
    /\ Starts(t)
    /\ starts < scenario.MaxStarts
    /\ object => ~Alive
    /\ IF Resets(t) THEN ResetRestartManager ELSE UNCHANGED manager
    /\ c' = ForStart(t)
    /\ object' = TRUE
    /\ task' = DeletedTask
    /\ lock' = t
    /\ Goto(t, "created")
    /\ UNCHANGED <<up, registered, disk, layer, queue, removes, found, bounds, history>>

(***************************************************************************)
(* A step fails before the restart manager is reset or after, the name     *)
(* stays in use in containerd, or the task does not start: Cleanup, and    *)
(* the removal of a container with AutoRemove.                             *)
(***************************************************************************)
StartFails(t) ==
    /\ \/ /\ Starts(t)
          /\ "start" \in scenario.Faults \/ starts = scenario.MaxStarts \/ (object /\ Alive)
          /\ \/ /\ Resets(t) /\ ResetRestartManager
                /\ Save(StartFailure(ForStart(t), FALSE))
                /\ stopped' = (stopped /\ t # Api)
             \/ /\ UNCHANGED <<manager, stopped>>
                /\ Save(StartFailure(c, FALSE))
       \/ /\ pc[t] = "created" /\ "start" \in scenario.Faults
          /\ Save(StartFailure(c, FALSE))
          /\ stopped' = (stopped /\ t # Api)
          /\ UNCHANGED manager
    /\ object' = DeletedObject(task)
    /\ lock' = Free
    /\ Goto(t, IF scenario.AutoRemove THEN "rm" ELSE StartFailed(t))
    /\ UNCHANGED <<up, registered, layer, task, queue, removes, found, bounds, lost, gaveUp,
                   recorded, raced>>

StartsTask(t) ==
    /\ pc[t] = "created"
    /\ starts' = starts + 1
    /\ task' = [NoTask EXCEPT !.state = "running", !.pid = starts + 1]
    /\ Emit("start", starts + 1, 0)
    /\ Goto(t, "started")
    /\ UNCHANGED <<up, c, registered, disk, layer, object, manager, lock, removes, found,
                   calls, downs, scenario, gaveUp, recorded, raced, stopped>>

Started(t) ==
    /\ pc[t] = "started"
    /\ Save([SetRunning(c, starts) EXCEPT !.HasBeenStartedBefore = TRUE])
    /\ recorded' = starts
    /\ lock' = Free
    /\ stopped' = (stopped /\ t # Api)
    /\ Goto(t, Ends(t))
    /\ UNCHANGED <<up, registered, outside, queue, manager, removes, found, bounds, lost,
                   gaveUp, raced>>
-----------------------------------------------------------------------------
(***************************************************************************)
(* killWithSignal, by ContainerStop, by a removal and by Shutdown, which   *)
(* is no stop by the user.                                                 *)
(***************************************************************************)
Killed(t) == IF t \in removes THEN "rmDead" ELSE Ends(t)

\* Mutant: the manual stop is kept in memory only.
KillUnsaved(t) ==
    /\ pc[t] = "kill" /\ Unlocked
    /\ IF c.Running
         THEN /\ CancelRestart
              /\ IF up = "stopping"
                   THEN UNCHANGED <<c, disk>>
                   ELSE c' = [c EXCEPT !.HasBeenManuallyStopped = TRUE] /\ UNCHANGED disk
              /\ lock' = IF c.Restarting THEN Free ELSE t
              /\ Goto(t, IF c.Restarting THEN "wait" ELSE "signal")
              /\ stopped' = (stopped \/ (t = Api /\ up = "up"))
         ELSE Goto(t, Killed(t)) /\ UNCHANGED <<c, disk, manager, lock, stopped>>
    /\ UNCHANGED <<up, registered, outside, queue, removes, found, bounds, lost, gaveUp,
                   recorded, raced>>

\* Mutant: Shutdown counts as a manual stop.
KillManual(t) ==
    /\ pc[t] = "kill" /\ Unlocked
    /\ IF c.Running
         THEN /\ CancelRestart
              /\ Save([c EXCEPT !.HasBeenManuallyStopped = TRUE])
              /\ lock' = IF c.Restarting THEN Free ELSE t
              /\ Goto(t, IF c.Restarting THEN "wait" ELSE "signal")
              /\ stopped' = (stopped \/ (t = Api /\ up = "up"))
         ELSE Goto(t, Killed(t)) /\ UNCHANGED <<c, disk, manager, lock, stopped>>
    /\ UNCHANGED <<up, registered, outside, queue, removes, found, bounds, lost, gaveUp,
                   recorded, raced>>

Kill(t) ==
    /\ pc[t] = "kill" /\ Unlocked
    /\ IF c.Running
         THEN /\ CancelRestart
              /\ IF up = "stopping"
                   THEN UNCHANGED <<c, disk>>
                   ELSE Save([c EXCEPT !.HasBeenManuallyStopped = TRUE])
              /\ lock' = IF c.Restarting THEN Free ELSE t
              /\ Goto(t, IF c.Restarting THEN "wait" ELSE "signal")
              /\ stopped' = (stopped \/ (t = Api /\ up = "up"))
         ELSE Goto(t, Killed(t)) /\ UNCHANGED <<c, disk, manager, lock, stopped>>
    /\ UNCHANGED <<up, registered, outside, queue, removes, found, bounds, lost, gaveUp,
                   recorded, raced>>

\* A container paused is resumed, so that the signal reaches it.
Signal(t) ==
    /\ pc[t] = "signal"
    /\ IF c.Paused /\ Alive /\ task.frozen
         THEN task' = [task EXCEPT !.frozen = FALSE] /\ Emit("resumed", task.pid, 0)
         ELSE UNCHANGED <<task, queue, lost>>
    /\ lock' = Free
    /\ Goto(t, "wait")
    /\ UNCHANGED <<up, c, registered, disk, layer, object, manager, removes, found, bounds,
                   gaveUp, recorded, raced, stopped>>

(***************************************************************************)
(* The container has stopped; or killProcessDirectly finds no process, for *)
(* which only Shutdown does not settle.                                    *)
(***************************************************************************)
Waited(t) ==
    /\ pc[t] = "wait" /\ Unlocked
    /\ \/ ~c.Running
       \/ up # "stopping" /\ c.Pid # 0 /\ ~(Alive /\ task.pid = c.Pid)
    /\ Goto(t, Killed(t))
    /\ UNCHANGED <<up, c, registered, disk, outside, queue, manager, lock, removes, found,
                   bounds, history>>
-----------------------------------------------------------------------------
(***************************************************************************)
(* ContainerRm with force: by a call, by autoRemove and by restore.        *)
(* Without force it does the same, but refuses a running container.        *)
(***************************************************************************)
Rm(t) ==
    /\ pc[t] = "rm" /\ Unlocked
    /\ IF registered /\ ~c.RemovalInProgress
         THEN /\ c' = [c EXCEPT !.RemovalInProgress = TRUE]
              /\ removes' = removes \cup {t}
              /\ Goto(t, "kill")
         ELSE Goto(t, Ends(t)) /\ UNCHANGED <<c, removes>>
    /\ UNCHANGED <<up, registered, disk, outside, queue, manager, lock, found, bounds, history>>

\* Mutant: the container is marked dead in memory only.
RmDeadUnsaved(t) ==
    /\ pc[t] = "rmDead" /\ Unlocked
    /\ c' = [c EXCEPT !.Dead = TRUE]
    /\ Goto(t, "rmLayer")
    /\ UNCHANGED <<up, registered, disk, outside, queue, manager, lock, removes, found, bounds,
                   history>>

RmDead(t) ==
    /\ pc[t] = "rmDead" /\ Unlocked
    /\ SaveOrFail([c EXCEPT !.Dead = TRUE])
    /\ Goto(t, "rmLayer")
    /\ UNCHANGED <<up, registered, outside, queue, manager, lock, removes, found, bounds,
                   history>>

RmLayer(t) ==
    /\ pc[t] = "rmLayer"
    /\ \/ layer' = FALSE /\ Goto(t, "rmFiles")
       \/ layer /\ "storage" \in scenario.Faults /\ Goto(t, "rmEnd") /\ UNCHANGED layer
    /\ UNCHANGED <<up, c, registered, disk, object, task, queue, manager, lock, removes, found,
                   bounds, history>>

RmFiles(t) ==
    /\ pc[t] = "rmFiles"
    /\ \/ disk' = Gone /\ registered' = FALSE
       \/ "storage" \in scenario.Faults /\ UNCHANGED <<disk, registered>>
    /\ Goto(t, "rmEnd")
    /\ UNCHANGED <<up, c, outside, queue, manager, lock, removes, found, bounds, history>>

RmEnd(t) ==
    /\ pc[t] = "rmEnd" /\ Unlocked
    /\ c' = [c EXCEPT !.RemovalInProgress = FALSE]
    /\ removes' = removes \ {t}
    /\ Goto(t, Ends(t))
    /\ UNCHANGED <<up, registered, disk, outside, queue, manager, lock, found, bounds, history>>
-----------------------------------------------------------------------------
(***************************************************************************)
(* containerPause and containerUnpause.                                    *)
(***************************************************************************)
Pause ==
    /\ pc[Api] = "pause" /\ Unlocked
    /\ IF c.Running /\ ~c.Paused /\ ~c.Restarting /\ Alive /\ ~task.frozen
         THEN /\ task' = [task EXCEPT !.frozen = TRUE] /\ Emit("paused", task.pid, 0)
              /\ lock' = Api /\ Goto(Api, "pausing")
         ELSE Goto(Api, "idle") /\ UNCHANGED <<task, queue, lost, lock>>
    /\ UNCHANGED <<up, c, registered, disk, layer, object, manager, removes, found, bounds,
                   gaveUp, recorded, raced, stopped>>

Unpause ==
    /\ pc[Api] = "unpause" /\ Unlocked
    /\ IF c.Paused /\ Alive /\ task.frozen
         THEN /\ task' = [task EXCEPT !.frozen = FALSE] /\ Emit("resumed", task.pid, 0)
              /\ lock' = Api /\ Goto(Api, "unpausing")
         ELSE Goto(Api, "idle") /\ UNCHANGED <<task, queue, lost, lock>>
    /\ UNCHANGED <<up, c, registered, disk, layer, object, manager, removes, found, bounds,
                   gaveUp, recorded, raced, stopped>>

Paused ==
    /\ pc[Api] \in {"pausing", "unpausing"}
    /\ Save([c EXCEPT !.Paused = (pc[Api] = "pausing")])
    /\ lock' = Free
    /\ Goto(Api, "idle")
    /\ UNCHANGED <<up, registered, outside, queue, manager, removes, found, bounds, history>>

Request(op) ==
    /\ up = "up" /\ pc[Api] = "idle" /\ registered
    /\ op \in scenario.Ops /\ calls < scenario.MaxCalls
    /\ calls' = calls + 1
    /\ Goto(Api, IF op = "stop" THEN "kill" ELSE op)
    /\ UNCHANGED <<up, c, registered, disk, outside, queue, manager, lock, removes, found,
                   starts, downs, scenario, history>>
-----------------------------------------------------------------------------
(***************************************************************************)
(* ProcessEvent.                                                           *)
(***************************************************************************)
Handles(type) == /\ pc[Monitor] = "idle" /\ registered
                 /\ queue # <<>> /\ Head(queue).type = type

\* GetContainer fails; or the handler has returned.
EventDone ==
    /\ queue # <<>>
    /\ pc[Monitor] = "handled" \/ (pc[Monitor] = "idle" /\ ~registered)
    /\ queue' = Tail(queue)
    /\ Goto(Monitor, "idle")
    /\ UNCHANGED <<up, c, registered, disk, outside, manager, lock, removes, found, bounds,
                   history>>

EventStart ==
    /\ Handles("start") /\ Unlocked
    /\ IF c.Running
         THEN UNCHANGED <<c, disk, recorded>>
         ELSE /\ Save([SetRunning(c, Head(queue).pid) EXCEPT
                         !.HasBeenManuallyStopped = FALSE, !.HasBeenStartedBefore = TRUE])
              /\ recorded' = Head(queue).pid
    /\ queue' = Tail(queue)
    /\ UNCHANGED <<up, registered, outside, manager, lock, pc, removes, found, bounds, lost,
                   gaveUp, raced, stopped>>

EventPaused ==
    /\ Handles("paused") \/ Handles("resumed")
    /\ Unlocked
    /\ Save([c EXCEPT !.Paused = (Head(queue).type = "paused")])
    /\ queue' = Tail(queue)
    /\ UNCHANGED <<up, registered, outside, manager, lock, pc, removes, found, bounds, history>>

\* The pid is compared without the lock; another one is taken for an exec's.
EventExit ==
    /\ Handles("exit")
    /\ IF Head(queue).pid = c.Pid
         THEN Goto(Monitor, "exit") /\ UNCHANGED queue
         ELSE queue' = Tail(queue) /\ UNCHANGED pc
    /\ UNCHANGED <<up, c, registered, disk, outside, manager, lock, removes, found, bounds,
                   history>>

\* DeleteTask, under the lock.
ExitDeletes ==
    /\ pc[Monitor] = "exit" /\ Unlocked
    /\ task' = DeletedTask
    /\ lock' = Monitor
    /\ Goto(Monitor, "decide")
    /\ UNCHANGED <<up, c, registered, disk, layer, object, queue, manager, removes, found,
                   bounds, history>>

\* The decision, and Cleanup.
ExitDecides ==
    /\ pc[Monitor] = "decide"
    /\ LET code == Head(queue).code IN
       IF ShouldRestart(code, up = "stopping" \/ c.HasBeenManuallyStopped)
         THEN /\ pc[Restarter] = "idle"
              /\ c' = SetRestarting(c, code)
              /\ Activate("monitor")
              /\ restart' = [canceled |-> FALSE, code |-> code]
         ELSE c' = SetStopped(c, code) /\ UNCHANGED manager
    /\ object' = DeletedObject(task)
    /\ Goto(Monitor, "save")
    /\ UNCHANGED <<up, registered, disk, layer, task, queue, lock, removes, found, bounds,
                   history>>

\* The checkpoint; then the goroutine of a restart, or autoRemove.
ExitSaves ==
    /\ pc[Monitor] = "save"
    /\ SaveFile(c)
    /\ lock' = Free
    /\ pc' = IF c.Restarting THEN [pc EXCEPT ![Monitor] = "handled", ![Restarter] = "backoff"]
             ELSE [pc EXCEPT ![Monitor] = IF scenario.AutoRemove THEN "rm" ELSE "handled"]
    /\ UNCHANGED <<up, c, registered, outside, queue, manager, removes, found, bounds, history>>
-----------------------------------------------------------------------------
(***************************************************************************)
(* The end of the daemon, at any time or after Shutdown, which leaves a    *)
(* running container alone under live restore.  Its memory is lost.        *)
(***************************************************************************)
Down ==
    /\ up' = "down"
    /\ c' = NewContainer /\ registered' = FALSE
    /\ queue' = <<>>
    /\ rm' = NewManager /\ restart' = NoRestart
    /\ lock' = Free
    /\ pc' = [t \in Threads |-> "idle"]
    /\ removes' = {}
    /\ found' = NotFound
    /\ lost' = FALSE /\ gaveUp' = FALSE
    /\ UNCHANGED <<disk, outside, recorded, raced, stopped>>

Crash ==
    /\ up # "down" /\ downs < scenario.MaxDowns
    /\ downs' = downs + 1
    /\ Down
    /\ UNCHANGED <<starts, calls, scenario>>

Shutdown ==
    /\ up = "up" /\ pc[Main] = "idle" /\ downs < scenario.MaxDowns
    /\ downs' = downs + 1
    /\ up' = "stopping"
    /\ Goto(Main, IF registered /\ c.Running /\ ~scenario.LiveRestore THEN "kill" ELSE "off")
    /\ UNCHANGED <<c, registered, disk, outside, queue, manager, lock, removes, found, starts,
                   calls, scenario, history>>

ShutdownEnds ==
    /\ pc[Main] = "off"
    /\ Down
    /\ UNCHANGED bounds
-----------------------------------------------------------------------------
(***************************************************************************)
(* restore, for this container.                                            *)
(***************************************************************************)

\* load; a container whose layer is gone is left out.
Loads ==
    /\ up = "down"
    /\ up' = "restoring"
    /\ IF disk # Gone /\ layer THEN c' = disk /\ Goto(Main, "register")
                               ELSE UNCHANGED c /\ Goto(Main, "ready")
    /\ UNCHANGED <<registered, disk, outside, queue, manager, lock, removes, found, bounds,
                   history>>

\* Register.
Registers ==
    /\ pc[Main] = "register"
    /\ registered' = TRUE
    /\ SaveFile(c)
    /\ Goto(Main, "restore")
    /\ UNCHANGED <<up, c, outside, queue, manager, lock, removes, found, bounds, history>>

\* containerd.Restore; an error other than NotFound ends it.
Restores ==
    /\ pc[Main] = "restore"
    /\ found' = [NotFound EXCEPT !.process = object, !.alive = object /\ Alive]
    /\ Goto(Main, "restored")
    /\ UNCHANGED <<up, c, registered, disk, outside, queue, manager, lock, removes, bounds,
                   history>>

\* containerd.Restore or the signal fails.
RestoreFails ==
    /\ pc[Main] \in {"restore", "restored"} /\ "restore" \in scenario.Faults
    /\ pc[Main] = "restored" =>
          ~scenario.LiveRestore /\ (found.alive \/ ~found.process)
    /\ gaveUp' = TRUE
    /\ Goto(Main, "ready")
    /\ UNCHANGED <<up, c, registered, disk, outside, queue, manager, lock, removes, found,
                   bounds, lost, recorded, raced, stopped>>

(***************************************************************************)
(* A process that has ended is deleted, with its exit code, or 255 when    *)
(* there is none to delete; any other one is signalled if there is no live *)
(* restore.                                                                *)
(***************************************************************************)
Restored ==
    /\ pc[Main] = "restored"
    /\ IF found.process /\ ~found.alive
         THEN /\ found' = [found EXCEPT !.ec = IF task.state = "exited" THEN task.code ELSE 255]
              /\ task' = DeletedTask
         ELSE UNCHANGED <<found, task>>
    /\ Goto(Main, "inspect")
    /\ UNCHANGED <<up, c, registered, disk, layer, object, queue, manager, lock, removes,
                   bounds, history>>

\* Mutant: a process that ended while the daemon was down is not noticed.
InspectsTrusting ==
    /\ pc[Main] = "inspect" /\ Unlocked
    /\ IF c.Running \/ c.Paused
         THEN /\ CancelRestart
              /\ Goto(Main, IF c.Paused THEN "status" ELSE "reset")
         ELSE Goto(Main, "list") /\ UNCHANGED manager
    /\ UNCHANGED <<up, c, registered, disk, outside, queue, lock, removes, found, bounds,
                   history>>

Inspects ==
    /\ pc[Main] = "inspect" /\ Unlocked
    /\ IF c.Running \/ c.Paused
         THEN /\ CancelRestart
              /\ Goto(Main, IF ~found.alive THEN "stopped"
                            ELSE IF c.Paused THEN "status" ELSE "reset")
         ELSE Goto(Main, "list") /\ UNCHANGED manager
    /\ UNCHANGED <<up, c, registered, disk, outside, queue, lock, removes, found, bounds,
                   history>>

\* containerd.Status of a container recorded as paused, and of its error.
Status ==
    /\ pc[Main] = "status" /\ Unlocked
    /\ \/ /\ task.state = "none" \/ task.frozen
          /\ Goto(Main, "reset")
          /\ UNCHANGED <<c, disk, found>>
       \/ /\ task.state = "exited"
          /\ found' = [found EXCEPT !.alive = FALSE]
          /\ Goto(Main, "stopped")
          /\ UNCHANGED <<c, disk>>
       \/ /\ Alive /\ ~task.frozen
          /\ Save([c EXCEPT !.Paused = FALSE])
          /\ Goto(Main, "reset")
          /\ UNCHANGED found
    /\ UNCHANGED <<up, registered, outside, queue, manager, lock, removes, bounds, history>>

StatusFails ==
    /\ pc[Main] = "status" /\ "status" \in scenario.Faults
    /\ gaveUp' = TRUE
    /\ Goto(Main, "reset")
    /\ UNCHANGED <<up, c, registered, disk, outside, queue, manager, lock, removes, found,
                   bounds, lost, recorded, raced, stopped>>

MarksStopped ==
    /\ pc[Main] = "stopped" /\ Unlocked
    /\ Save(SetStopped(c, found.ec))
    /\ object' = DeletedObject(task)
    /\ Goto(Main, "reset")
    /\ raced' = (raced \/ pc[Monitor] = "exit" \/ pc[Restarter] # "idle")
    /\ UNCHANGED <<up, registered, layer, task, queue, manager, lock, removes, found, bounds,
                   lost, gaveUp, recorded, stopped>>

ResetsManager ==
    /\ pc[Main] = "reset"
    /\ ResetRestartManager
    /\ Goto(Main, "list")
    /\ UNCHANGED <<up, c, registered, disk, outside, queue, lock, removes, found, bounds,
                   history>>

\* restartContainers, removeContainers, or neither.
Lists ==
    /\ pc[Main] = "list"
    /\ LET again == ShouldRestart(c.ExitCode, c.HasBeenManuallyStopped) IN
       /\ IF again THEN Activate("restore") ELSE UNCHANGED rm
       /\ found' = [found EXCEPT !.list = IF again /\ c.HasBeenStartedBefore THEN "start"
                                          ELSE IF scenario.AutoRemove THEN "rm" ELSE "ready"]
    /\ Goto(Main, "unmark")
    /\ UNCHANGED <<up, c, registered, disk, outside, queue, restart, lock, removes, bounds,
                   history>>

\* A removal under way when the daemon died.
Unmarks ==
    /\ pc[Main] = "unmark" /\ Unlocked
    /\ IF c.RemovalInProgress
         THEN SaveOrFail([c EXCEPT !.RemovalInProgress = FALSE, !.Dead = TRUE])
         ELSE UNCHANGED <<c, disk>>
    /\ Goto(Main, found.list)
    /\ UNCHANGED <<up, registered, outside, queue, manager, lock, removes, found, bounds,
                   history>>

\* close(startupDone); the API is served.
Ready ==
    /\ pc[Main] = "ready"
    /\ up' = "up"
    /\ Goto(Main, "idle")
    /\ found' = NotFound
    /\ UNCHANGED <<c, registered, disk, outside, queue, manager, lock, removes, bounds, history>>
-----------------------------------------------------------------------------
Start(t) == StartRefused(t) \/ Creates(t) \/ StartFails(t) \/ StartsTask(t) \/ Started(t)

Removal(t) == Rm(t) \/ RmDead(t) \/ RmLayer(t) \/ RmFiles(t) \/ RmEnd(t)

Event == EventDone \/ EventStart \/ EventPaused \/ EventExit
         \/ ExitDeletes \/ ExitDecides \/ ExitSaves

Backoff == TimerFires \/ BackoffEnds \/ BackoffCanceled \/ StartupDone \/ GiveUp

RestoreStep == \/ Loads \/ Registers \/ Restores \/ RestoreFails \/ Restored \/ Inspects
               \/ Status \/ StatusFails \/ MarksStopped \/ ResetsManager \/ Lists \/ Unmarks \/ Ready

Next == \/ \E op \in AllOps : Request(op)
        \/ \E t \in Threads : Start(t) \/ Kill(t) \/ Signal(t) \/ Waited(t) \/ Removal(t)
        \/ Pause \/ Unpause \/ Paused
        \/ Event \/ Backoff
        \/ \E code \in scenario.ExitCodes : ProcessExits(code)
        \/ Crash \/ Shutdown \/ ShutdownEnds
        \/ RestoreStep

Spec == Init /\ [][Next]_vars
-----------------------------------------------------------------------------
Pids == 0 .. scenario.MaxStarts
Codes == scenario.ExitCodes \cup {0, 128, 255}

Containers ==
    [Running : BOOLEAN, Paused : BOOLEAN, Restarting : BOOLEAN, RemovalInProgress : BOOLEAN,
     Dead : BOOLEAN, Pid : Pids, ExitCode : Codes, Err : BOOLEAN,
     HasBeenManuallyStopped : BOOLEAN, HasBeenStartedBefore : BOOLEAN]

Events == [type : {"start", "exit", "paused", "resumed"}, pid : Pids, code : Codes]

\* Where the container lock is held between two steps.
HoldsLock == {"created", "started", "signal", "pausing", "unpausing", "decide", "save"}

\* The types; and the lock is held exactly where the code holds it.
TypeOK ==
    /\ scenario \in Scenarios
    /\ up \in {"down", "restoring", "up", "stopping"}
    /\ c \in Containers
    /\ registered \in BOOLEAN
    /\ disk \in Containers \cup {Gone}
    /\ layer \in BOOLEAN /\ object \in BOOLEAN
    /\ task \in [state : {"none", "running", "exited"}, pid : Pids, frozen : BOOLEAN,
                 code : Codes]
    /\ task.state # "none" => object
    /\ queue \in Seq(Events)
    /\ rm \in [canceled : BOOLEAN, active : BOOLEAN, by : {"none", "restore", "monitor"}]
    /\ restart \in [canceled : BOOLEAN, code : Codes]
    /\ lock \in Threads \cup {Free} /\ \A t \in Threads : lock = t <=> pc[t] \in HoldsLock
    /\ removes \subseteq Threads
    /\ found \in [process : BOOLEAN, alive : BOOLEAN, ec : Codes,
                  list : {"none", "start", "rm", "ready"}]

(***************************************************************************)
(* What the daemon knows can be relied on: the container is registered and *)
(* in nobody's hands, its events arrived, containerd answered restore, and *)
(* restore did not mark it stopped in the middle of ProcessEvent.          *)
(***************************************************************************)
Reliable == up = "up" /\ Unlocked /\ registered /\ ~lost /\ ~gaveUp /\ ~raced

(***************************************************************************)
(* Wherever the daemon died, after its restart a container it calls        *)
(* running has its process, or the exit of it is still to be handled.      *)
(***************************************************************************)
RunningHasProcess ==
    Reliable /\ c.Running /\ ~c.Restarting =>
        \/ Alive /\ task.pid = c.Pid
        \/ \E i \in DOMAIN queue : queue[i].type = "exit" /\ queue[i].pid = c.Pid

(***************************************************************************)
(* Live restore and a crash lose no process: one whose start was saved is  *)
(* the one the daemon has, as long as it lives.  (A daemon that dies       *)
(* between containerd.Start and CheckpointTo loses the process.)           *)
(***************************************************************************)
ProcessIsKnown ==
    Reliable /\ Alive /\ task.pid = recorded => c.Running /\ c.Pid = task.pid

(***************************************************************************)
(* A container that the daemon calls paused is frozen, although it may     *)
(* have been resumed, or have ended, while the daemon was down.            *)
(***************************************************************************)
PausedIsFrozen == Reliable /\ queue = <<>> /\ c.Paused => Alive /\ task.frozen

(***************************************************************************)
(* A container is not left restarting by a daemon that died during the     *)
(* back-off (unless that daemon had started it and not saved the start).   *)
(***************************************************************************)
RestartHasOwner ==
    Reliable /\ c.Restarting => pc[Restarter] # "idle" \/ starts # recorded

(***************************************************************************)
(* The flag of a removal is set only while some goroutine removes the      *)
(* container, so that the next daemon can be asked to remove what it loads *)
(* (daemon/daemon.go:444-459).  Not if an error of containerd has ended    *)
(* its restore of the container: then the flag is as it was on disk.       *)
(***************************************************************************)
RemovalHasOwner == up = "up" /\ c.RemovalInProgress => gaveUp \/ removes # {}

(***************************************************************************)
(* "If error happens before container meta file got removed from disk,     *)
(* then a restart of docker should not make a dead container alive"        *)
(* (daemon/delete.go:110-112): a daemon that has a container without a     *)
(* layer knows that it is dead, whether the checkpoint of that failed or   *)
(* not, and if it could not fail the file says it too.                     *)
(***************************************************************************)
HalfRemovedIsDead ==
    ~layer => /\ registered => c.Dead
              /\ disk = Gone \/ disk.Dead \/ "checkpoint" \in scenario.Faults

(***************************************************************************)
(* What was removed or stopped stays so, whoever starts a process, in this *)
(* daemon or a later: none is started for a container that is dead or      *)
(* being removed according to its file, and restore does not start one of  *)
(* policy unless-stopped that the user has stopped, wherever in the stop   *)
(* the daemon died.                                                        *)
(***************************************************************************)
StaysDown ==
    [][/\ starts' # starts => disk # Gone /\ ~disk.Dead /\ ~disk.RemovalInProgress
       /\ pc[Main] = "start" /\ pc'[Main] = "created" /\ ~raced =>
             ~(scenario.Policy = "unless-stopped" /\ stopped)]_vars

(***************************************************************************)
(* A container that its policy keeps running runs again when the daemon is *)
(* ready, if its process ended while the daemon was down, or with it in    *)
(* Shutdown, or during a back-off: "including on daemon startup, except if *)
(* the container was put into a stopped state before the Docker daemon was *)
(* stopped" (cli/docs/reference/run.md:528-530, of unless-stopped).  The   *)
(* table at cli/docs/reference/commandline/run.md:645 says that a restart  *)
(* of Docker ends it: there the code follows the other documents.          *)
(***************************************************************************)
KeptRunning == \/ scenario.Policy = "always"
               \/ scenario.Policy = "unless-stopped" /\ ~stopped

EndedDown == registered /\ ~found.alive /\ c.HasBeenStartedBefore /\ ~c.Dead

BackAfterDown ==
    [][pc[Main] = "ready" /\ up' = "up" /\ ~gaveUp /\ ~raced /\ KeptRunning /\ EndedDown
          => c.Running \/ c.Err]_vars

(***************************************************************************)
(* Wherever the daemon died, once the next one is up the record and the    *)
(* process agree.                                                          *)
(***************************************************************************)
RecordAgrees ==
    TypeOK /\ RunningHasProcess /\ ProcessIsKnown /\ PausedIsFrozen /\ RestartHasOwner

(***************************************************************************)
(* Wherever the daemon died in a removal: the next one can be asked to     *)
(* remove the container again, if it has loaded it and restore met no      *)
(* error, and never has one without a layer for alive.  (It does not load  *)
(* a container whose layer is gone: what is left of its directory stays.)  *)
(***************************************************************************)
RemovalSafe == RemovalHasOwner /\ HalfRemovedIsDead

(***************************************************************************)
(* "LiveRestoreEnabled determines whether we should keep containers alive  *)
(* upon daemon shutdown/start" (daemon/config/config.go:153): under live   *)
(* restore, the start of the daemon does not remove a container that       *)
(* is alive.                                                               *)
(***************************************************************************)
LiveRestoreKeeps ==
    scenario.LiveRestore /\ Main \in removes /\ up = "restoring" => ~(Alive /\ task.pid = recorded)
=============================================================================
