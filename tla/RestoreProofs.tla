--------------------------- MODULE RestoreProofs ----------------------------
(***************************************************************************)
(* A container across the lives of the daemon, for any container, any      *)
(* faults, and any number of calls, processes, crashes and shutdowns.      *)
(***************************************************************************)
EXTENDS Restore, TLAPS, SequenceTheorems

(***************************************************************************)
(* Control: where each goroutine can be, in each phase of the daemon.      *)
(***************************************************************************)
RestoreLabels == {"register", "restore", "restored", "inspect", "status", "stopped", "reset",
                  "list", "unmark"}
StartLabels == {"start", "created", "started"}
KillLabels == {"kill", "signal", "wait"}
RmLabels == {"rmDead", "rmLayer", "rmFiles", "rmEnd"}
BootLabels == RestoreLabels \cup StartLabels \cup KillLabels \cup RmLabels \cup {"rm", "ready"}
ApiLabels == {"idle", "rm", "pause", "unpause", "pausing", "unpausing"}
                \cup StartLabels \cup KillLabels \cup RmLabels
MonitorLabels == {"idle", "exit", "decide", "save", "handled", "rm"} \cup KillLabels \cup RmLabels
RestarterLabels == {"idle", "backoff", "startup", "giveUp"} \cup StartLabels
Labels == BootLabels \cup ApiLabels \cup MonitorLabels \cup RestarterLabels \cup {"off"}

PhaseOK ==
    /\ up = "down" => /\ pc[Main] = "idle" /\ pc[Api] = "idle" /\ pc[Monitor] = "idle"
                      /\ pc[Restarter] = "idle" /\ ~registered
    /\ up = "restoring" => /\ pc[Main] \in BootLabels /\ pc[Api] = "idle"
                           /\ pc[Restarter] \notin StartLabels
    /\ up = "up" => pc[Main] = "idle"
    /\ up = "stopping" => pc[Main] \in KillLabels \cup {"off"}
    /\ up # "restoring" => found = NotFound
    /\ pc[Main] \in StartLabels => found.list = "start"
    /\ pc[Main] = "unmark" => found.list # "none"
    /\ pc[Monitor] # "idle" => queue # <<>>

InRm(t) == pc[t] \in {"rm"} \cup KillLabels \cup RmLabels

\* Who removes the container, and who restarts it.
RolesOK ==
    /\ \A t \in removes : pc[t] \in KillLabels \cup RmLabels
    /\ \A t \in Threads : pc[t] \in RmLabels => t \in removes
    /\ pc[Monitor] \in KillLabels => Monitor \in removes
    /\ pc[Main] \in KillLabels => (Main \in removes <=> up = "restoring")
    /\ InRm(Monitor) \/ (up = "restoring" /\ InRm(Main)) \/ found.list = "rm" => scenario.AutoRemove
    /\ pc[Restarter] # "idle" => scenario.Policy # "no"
    /\ pc[Monitor] = "save" /\ c.Restarting => scenario.Policy # "no" /\ pc[Restarter] = "idle"

LabelsOK ==
    /\ pc \in [Threads -> Labels]
    /\ pc[Api] \in ApiLabels /\ pc[Monitor] \in MonitorLabels
    /\ pc[Restarter] \in RestarterLabels

ControlOK == LabelsOK /\ PhaseOK /\ RolesOK
-----------------------------------------------------------------------------
(***************************************************************************)
(* Removal: what is in memory, on disk and in the driver.                  *)
(***************************************************************************)
Quiet == /\ pc[Api] = "idle" /\ pc[Monitor] = "idle" /\ pc[Restarter] = "idle"
         /\ pc[Main] \in {"idle", "register", "ready", "off"}

LoadedOK ==
    /\ registered => disk # Gone
    /\ ~registered => Quiet \/ (disk = Gone /\ c.Dead)
    /\ pc[Main] = "register" => c = disk /\ disk # Gone /\ ~registered /\ layer
    /\ up = "down" => ~registered /\ c = NewContainer /\ queue = <<>>

DeadOK ==
    /\ registered => (disk.Dead => c.Dead) /\ (c.Dead => disk.Dead \/ "checkpoint" \in scenario.Faults)
    /\ registered /\ disk.RemovalInProgress => c.RemovalInProgress \/ c.Dead
    /\ \A t \in Threads :
          /\ pc[t] \in {"rmLayer", "rmFiles", "rmEnd"} => c.Dead
          /\ pc[t] \in {"created", "started"} => ~c.Dead /\ ~c.RemovalInProgress
    /\ HalfRemovedIsDead
    /\ c.RemovalInProgress => gaveUp \/ removes # {} \/ pc[Main] \in RestoreLabels

TaskOK ==
    /\ starts \in Pids /\ recorded \in 0 .. starts
    /\ task.state # "none" => object /\ task.pid = starts /\ starts > 0
    /\ task.frozen => Alive
    /\ \A t \in Threads :
          /\ pc[t] = "created" => object /\ task = NoTask /\ starts < scenario.MaxStarts
          /\ pc[t] = "started" => task.state # "none" /\ recorded < starts

PidsOK == \A i \in DOMAIN queue : queue[i].pid \in 1 .. starts

Tasks == [state : {"none", "running", "exited"}, pid : Pids, frozen : BOOLEAN, code : Codes]

Managers == [canceled : BOOLEAN, active : BOOLEAN, by : {"none", "restore", "monitor"}]
Founds == [process : BOOLEAN, alive : BOOLEAN, ec : Codes, list : {"none", "start", "rm", "ready"}]

-----------------------------------------------------------------------------
(***************************************************************************)
(* What the record says, as long as restore has not marked the container   *)
(* stopped in the middle of ProcessEvent.                                  *)
(***************************************************************************)
Busy(r) == r.Running /\ ~r.Restarting

Fits(r) == /\ Busy(r) => r.Pid = recorded /\ recorded = starts /\ starts > 0
           /\ ~Busy(r) => r.Pid = 0
           /\ r.Restarting => r.Running
           /\ r.Paused => Busy(r)

Known(r) == Alive /\ task.pid = recorded => Busy(r)

RecordOK ==
    /\ Fits(c) /\ (registered => Known(c))
    /\ disk # Gone => Fits(disk) /\ Known(disk)
    /\ registered /\ pc[Monitor] # "save" => (Busy(disk) <=> Busy(c))
    /\ \A t \in Threads : pc[t] \in {"created", "started"} =>
          ~Busy(c) /\ (t # Restarter => ~c.Running)

Unknown == \/ pc[Main] \in {"register", "restore"}
           \/ pc[Main] \in {"restored", "inspect", "stopped"} /\ ~found.alive

\* A container that is to be restarted has the goroutine that restarts it.
RestartOK ==
    /\ pc[Restarter] # "idle" => c.Restarting
    /\ registered /\ c.Restarting =>
          \/ pc[Restarter] # "idle" \/ pc[Monitor] = "save"
          \/ starts # recorded \/ gaveUp \/ Unknown
    /\ pc[Main] \in {"restored", "inspect", "stopped"} /\ ~found.alive => ~Alive
    /\ pc[Main] = "stopped" => ~found.alive

(***************************************************************************)
(* The events still to be applied: the one the Monitor handles counts only *)
(* until it has decided.                                                   *)
(***************************************************************************)
Past == pc[Monitor] \notin {"idle", "exit", "decide"}
Pending == IF Past THEN Tail(queue) ELSE queue
BeingStarted == \E t \in Threads : pc[t] = "started"
Cur == IF BeingStarted THEN starts ELSE c.Pid

HandledOK ==
    pc[Monitor] \in {"exit", "decide"} => queue[1].type = "exit" /\ queue[1].pid = c.Pid /\ Busy(c)

PendingOK ==
    \A i \in DOMAIN Pending :
       /\ Pending[i].type = "start" => Pending[i].pid = Cur
       /\ Pending[i].type = "paused" => Busy(c)
       /\ Pending[i].type = "exit" /\ Pending[i].pid = Cur => i = Len(Pending) /\ ~Alive

RestoringOK ==
    pc[Main] \in RestoreLabels => \A i \in DOMAIN queue : queue[i].type \in {"exit", "resumed"}

EventsOK == HandledOK /\ PendingOK /\ RestoringOK

\* The process runs, or its end is still to be handled, after its start.
ProcessOK ==
    /\ ~lost /\ BeingStarted =>
          \E i \in DOMAIN Pending : Pending[i].type = "start" /\ Pending[i].pid = starts
    /\ ~lost /\ ~gaveUp /\ registered /\ (Busy(c) \/ BeingStarted) =>
          \/ Alive \/ Unknown
          \/ \E i \in DOMAIN Pending : Pending[i].type = "exit" /\ Pending[i].pid = Cur

Flip(e) == e.type \in {"paused", "resumed"}

Early == {"register", "restore", "restored", "inspect", "status"}

LastPaused == \E i \in DOMAIN Pending :
                 /\ Pending[i].type = "paused"
                 /\ \A j \in DOMAIN Pending : Flip(Pending[j]) => j <= i

PauseOK ==
    /\ pc[Api] = "pausing" => Alive /\ task.frozen /\ Busy(c)
    /\ ~lost /\ ~gaveUp /\ registered =>
         /\ LastPaused => (Alive => task.frozen)
         /\ c.Paused /\ Alive /\ (\A i \in DOMAIN Pending : ~Flip(Pending[i])) =>
               task.frozen \/ pc[Main] \in Early

\* The manual stop, on disk and in memory.
SavedOK == scenario.Policy = "unless-stopped" =>
    /\ disk # Gone => (stopped <=> disk.HasBeenManuallyStopped)
    /\ registered /\ (\A t \in {Api, Main} : pc[t] \notin {"created", "started"}) =>
            c.HasBeenManuallyStopped = disk.HasBeenManuallyStopped
    /\ \A t \in {Api, Main} : pc[t] \in {"created", "started"} => ~c.HasBeenManuallyStopped
    /\ found.list = "start" /\ disk # Gone => ~stopped

DataOK == RecordOK /\ RestartOK /\ EventsOK /\ ProcessOK /\ PauseOK /\ SavedOK

IInv == TypeOK /\ ControlOK /\ LoadedOK /\ DeadOK /\ TaskOK /\ PidsOK /\ (~raced => DataOK)
-----------------------------------------------------------------------------
\* The goroutines are distinct, and none is the value of a free lock.
LEMMA ThreadFacts ==
    /\ Threads = {Main, Api, Monitor, Restarter}
    /\ Main # Api /\ Main # Monitor /\ Main # Restarter /\ Api # Monitor /\ Api # Restarter
    /\ Monitor # Restarter /\ Free \notin Threads
  BY DEF Threads, Main, Api, Monitor, Restarter, Free

\* Where a call leaves its goroutine.
LEMMA EndsAre ==
    /\ Ends(Main) = IF up = "stopping" THEN "off" ELSE "ready"
    /\ Ends(Monitor) = "handled"
    /\ Ends(Api) = "idle" /\ Ends(Restarter) = "idle"
<1>1. Ends(Main) = IF up = "stopping" THEN "off" ELSE "ready"
  <2>1. CASE up = "stopping"
    BY <2>1, ThreadFacts DEF Ends
  <2>2. CASE up # "stopping"
    BY <2>2, ThreadFacts DEF Ends
  <2> QED
    BY <2>1, <2>2
<1>2. Ends(Monitor) = "handled"
  BY ThreadFacts DEF Ends
<1>3. Ends(Api) = "idle"
  BY ThreadFacts DEF Ends
<1>4. Ends(Restarter) = "idle"
  BY ThreadFacts DEF Ends
<1> QED
  BY <1>1, <1>2, <1>3, <1>4

\* The scenario gives the types their bounds.
LEMMA ScenarioFacts ==
    ASSUME scenario \in Scenarios
    PROVE  /\ scenario.MaxStarts \in Nat /\ scenario.ExitCodes \subseteq Nat
           /\ 0 \in Pids /\ {0, 128, 255} \subseteq Codes /\ scenario.ExitCodes \subseteq Codes
           /\ Pids \subseteq Nat
  BY RestoreAssumption DEF ScenarioType, Pids, Codes

\* A daemon that dies, or that starts, has the same scenario.
LEMMA ScenarioKept ==
    ASSUME Next
    PROVE  UNCHANGED scenario
<1> USE DEF bounds, Down
<1>1. ASSUME NEW op \in AllOps, Request(op) PROVE UNCHANGED scenario
  BY <1>1 DEF Request
<1>2. ASSUME NEW t \in Threads, StartRefused(t) PROVE UNCHANGED scenario
  BY <1>2 DEF StartRefused
<1>3. ASSUME NEW t \in Threads, Creates(t) PROVE UNCHANGED scenario
  BY <1>3 DEF Creates
<1>4. ASSUME NEW t \in Threads, StartFails(t) PROVE UNCHANGED scenario
  BY <1>4 DEF StartFails
<1>5. ASSUME NEW t \in Threads, StartsTask(t) PROVE UNCHANGED scenario
  BY <1>5 DEF StartsTask
<1>6. ASSUME NEW t \in Threads, Started(t) PROVE UNCHANGED scenario
  BY <1>6 DEF Started
<1>7. ASSUME NEW t \in Threads, Kill(t) PROVE UNCHANGED scenario
  BY <1>7 DEF Kill
<1>8. ASSUME NEW t \in Threads, Signal(t) PROVE UNCHANGED scenario
  BY <1>8 DEF Signal
<1>9. ASSUME NEW t \in Threads, Waited(t) PROVE UNCHANGED scenario
  BY <1>9 DEF Waited
<1>10. ASSUME NEW t \in Threads, Rm(t) PROVE UNCHANGED scenario
  BY <1>10 DEF Rm
<1>11. ASSUME NEW t \in Threads, RmDead(t) PROVE UNCHANGED scenario
  BY <1>11 DEF RmDead
<1>12. ASSUME NEW t \in Threads, RmLayer(t) PROVE UNCHANGED scenario
  BY <1>12 DEF RmLayer
<1>13. ASSUME NEW t \in Threads, RmFiles(t) PROVE UNCHANGED scenario
  BY <1>13 DEF RmFiles
<1>14. ASSUME NEW t \in Threads, RmEnd(t) PROVE UNCHANGED scenario
  BY <1>14 DEF RmEnd
<1>15. ASSUME Pause PROVE UNCHANGED scenario
  BY <1>15 DEF Pause
<1>16. ASSUME Unpause PROVE UNCHANGED scenario
  BY <1>16 DEF Unpause
<1>17. ASSUME Paused PROVE UNCHANGED scenario
  BY <1>17 DEF Paused
<1>18. ASSUME EventDone PROVE UNCHANGED scenario
  BY <1>18 DEF EventDone
<1>19. ASSUME EventStart PROVE UNCHANGED scenario
  BY <1>19 DEF EventStart
<1>20. ASSUME EventPaused PROVE UNCHANGED scenario
  BY <1>20 DEF EventPaused
<1>21. ASSUME EventExit PROVE UNCHANGED scenario
  BY <1>21 DEF EventExit
<1>22. ASSUME ExitDeletes PROVE UNCHANGED scenario
  BY <1>22 DEF ExitDeletes
<1>23. ASSUME ExitDecides PROVE UNCHANGED scenario
  BY <1>23 DEF ExitDecides
<1>24. ASSUME ExitSaves PROVE UNCHANGED scenario
  BY <1>24 DEF ExitSaves
<1>25. ASSUME TimerFires PROVE UNCHANGED scenario
  BY <1>25 DEF TimerFires
<1>26. ASSUME BackoffEnds PROVE UNCHANGED scenario
  BY <1>26 DEF BackoffEnds
<1>27. ASSUME BackoffCanceled PROVE UNCHANGED scenario
  BY <1>27 DEF BackoffCanceled
<1>28. ASSUME StartupDone PROVE UNCHANGED scenario
  BY <1>28 DEF StartupDone
<1>29. ASSUME GiveUp PROVE UNCHANGED scenario
  BY <1>29 DEF GiveUp
<1>30. ASSUME NEW code \in scenario.ExitCodes, ProcessExits(code) PROVE UNCHANGED scenario
  BY <1>30 DEF ProcessExits
<1>31. ASSUME Crash PROVE UNCHANGED scenario
  BY <1>31 DEF Crash
<1>32. ASSUME Shutdown PROVE UNCHANGED scenario
  BY <1>32 DEF Shutdown
<1>33. ASSUME ShutdownEnds PROVE UNCHANGED scenario
  BY <1>33 DEF ShutdownEnds
<1>34. ASSUME Loads PROVE UNCHANGED scenario
  BY <1>34 DEF Loads
<1>35. ASSUME Registers PROVE UNCHANGED scenario
  BY <1>35 DEF Registers
<1>36. ASSUME Restores PROVE UNCHANGED scenario
  BY <1>36 DEF Restores
<1>37. ASSUME RestoreFails PROVE UNCHANGED scenario
  BY <1>37 DEF RestoreFails
<1>38. ASSUME Restored PROVE UNCHANGED scenario
  BY <1>38 DEF Restored
<1>39. ASSUME Inspects PROVE UNCHANGED scenario
  BY <1>39 DEF Inspects
<1>40. ASSUME Status PROVE UNCHANGED scenario
  BY <1>40 DEF Status
<1>41. ASSUME StatusFails PROVE UNCHANGED scenario
  BY <1>41 DEF StatusFails
<1>42. ASSUME MarksStopped PROVE UNCHANGED scenario
  BY <1>42 DEF MarksStopped
<1>43. ASSUME ResetsManager PROVE UNCHANGED scenario
  BY <1>43 DEF ResetsManager
<1>44. ASSUME Lists PROVE UNCHANGED scenario
  BY <1>44 DEF Lists
<1>45. ASSUME Unmarks PROVE UNCHANGED scenario
  BY <1>45 DEF Unmarks
<1>46. ASSUME Ready PROVE UNCHANGED scenario
  BY <1>46 DEF Ready
<1> QED
  BY <1>1, <1>2, <1>3, <1>4, <1>5, <1>6, <1>7, <1>8, <1>9, <1>10, <1>11, <1>12, <1>13, <1>14,
        <1>15, <1>16, <1>17, <1>18, <1>19, <1>20, <1>21, <1>22, <1>23, <1>24, <1>25, <1>26,
        <1>27, <1>28, <1>29, <1>30, <1>31, <1>32, <1>33, <1>34, <1>35, <1>36, <1>37, <1>38,
        <1>39, <1>40, <1>41, <1>42, <1>43, <1>44, <1>45, <1>46 DEF Next, Start, Removal, Event,
        Backoff, RestoreStep

\* What the setters return is a record of the container.
LEMMA SetterTypes ==
    ASSUME scenario \in Scenarios, NEW r \in Containers, NEW pid \in Pids, NEW code \in Codes,
           NEW b \in BOOLEAN
    PROVE  /\ NewContainer \in Containers
           /\ [SetRunning(r, pid) EXCEPT !.HasBeenStartedBefore = TRUE] \in Containers
           /\ [SetRunning(r, pid) EXCEPT !.HasBeenManuallyStopped = FALSE,
                                         !.HasBeenStartedBefore = TRUE] \in Containers
           /\ SetStopped(r, code) \in Containers /\ SetRestarting(r, code) \in Containers
           /\ StartFailure(r, FALSE) \in Containers
           /\ [r EXCEPT !.Paused = b] \in Containers
           /\ [r EXCEPT !.HasBeenManuallyStopped = b] \in Containers
           /\ [r EXCEPT !.RemovalInProgress = b] \in Containers
           /\ [r EXCEPT !.Dead = TRUE] \in Containers
           /\ [r EXCEPT !.RemovalInProgress = FALSE, !.Dead = TRUE] \in Containers
<1>0. 0 \in Pids /\ 0 \in Codes /\ 128 \in Codes
  BY ScenarioFacts
<1> USE <1>0 DEF Containers
<1>1. NewContainer \in Containers
  BY DEF NewContainer
<1>2. SetRunning(r, pid) \in Containers
  BY DEF SetRunning
<1>3. /\ [SetRunning(r, pid) EXCEPT !.HasBeenStartedBefore = TRUE] \in Containers
      /\ [SetRunning(r, pid) EXCEPT !.HasBeenManuallyStopped = FALSE,
                                    !.HasBeenStartedBefore = TRUE] \in Containers
  BY <1>2
<1>4. SetStopped(r, code) \in Containers
  BY DEF SetStopped
<1>5. SetRestarting(r, code) \in Containers
  BY DEF SetRestarting
<1>6. StartFailure(r, FALSE) \in Containers
  BY DEF StartFailure
<1>7. /\ [r EXCEPT !.Paused = b] \in Containers
      /\ [r EXCEPT !.HasBeenManuallyStopped = b] \in Containers
  OBVIOUS
<1>8. /\ [r EXCEPT !.RemovalInProgress = b] \in Containers
      /\ [r EXCEPT !.Dead = TRUE] \in Containers
      /\ [r EXCEPT !.RemovalInProgress = FALSE, !.Dead = TRUE] \in Containers
  OBVIOUS
<1> HIDE DEF Containers
<1> QED
  BY <1>1, <1>3, <1>4, <1>5, <1>6, <1>7, <1>8

\* A checkpoint keeps the types.
LEMMA SaveTypes ==
    ASSUME disk \in Containers \cup {Gone}, NEW m \in Containers, Save(m)
    PROVE  c' \in Containers /\ disk' \in Containers \cup {Gone}
  BY DEF Save, SaveFile

\* What a start records.
LEMMA StartedFields ==
    ASSUME NEW r \in Containers, NEW pid
    PROVE  LET s == [SetRunning(r, pid) EXCEPT !.HasBeenStartedBefore = TRUE] IN
           /\ s.Running /\ ~s.Paused /\ ~s.Restarting
           /\ s.RemovalInProgress = r.RemovalInProgress /\ s.Dead = r.Dead /\ s.Pid = pid
           /\ ~s.Err /\ s.HasBeenManuallyStopped = r.HasBeenManuallyStopped
           /\ s.HasBeenStartedBefore
  BY DEF Containers, SetRunning

\* What the event of a start records.
LEMMA StartEventFields ==
    ASSUME NEW r \in Containers, NEW pid
    PROVE  LET s == [SetRunning(r, pid) EXCEPT !.HasBeenManuallyStopped = FALSE,
                                               !.HasBeenStartedBefore = TRUE] IN
           /\ s.Running /\ ~s.Paused /\ ~s.Restarting
           /\ s.RemovalInProgress = r.RemovalInProgress /\ s.Dead = r.Dead /\ s.Pid = pid
           /\ ~s.Err /\ ~s.HasBeenManuallyStopped /\ s.HasBeenStartedBefore
  BY DEF Containers, SetRunning

\* What the end of a process records.
LEMMA StoppedFields ==
    ASSUME NEW r \in Containers, NEW code
    PROVE  LET s == SetStopped(r, code) IN
           /\ ~s.Running /\ ~s.Paused /\ ~s.Restarting
           /\ s.RemovalInProgress = r.RemovalInProgress /\ s.Dead = r.Dead /\ s.Pid = 0
           /\ s.Err = r.Err /\ s.HasBeenManuallyStopped = r.HasBeenManuallyStopped
           /\ s.HasBeenStartedBefore = r.HasBeenStartedBefore
  BY DEF Containers, SetStopped

\* What a restart to come records.
LEMMA RestartingFields ==
    ASSUME NEW r \in Containers, NEW code
    PROVE  LET s == SetRestarting(r, code) IN
           /\ s.Running /\ ~s.Paused /\ s.Restarting
           /\ s.RemovalInProgress = r.RemovalInProgress /\ s.Dead = r.Dead /\ s.Pid = 0
           /\ s.Err = r.Err /\ s.HasBeenManuallyStopped = r.HasBeenManuallyStopped
           /\ s.HasBeenStartedBefore = r.HasBeenStartedBefore
  BY DEF Containers, SetRestarting

\* What a failed start records.
LEMMA FailureFields ==
    ASSUME NEW r \in Containers
    PROVE  LET s == StartFailure(r, FALSE) IN
           /\ s.Running = r.Running /\ s.Paused = r.Paused /\ s.Restarting = r.Restarting
           /\ s.RemovalInProgress = r.RemovalInProgress /\ s.Dead = r.Dead /\ s.Pid = r.Pid
           /\ s.Err /\ s.HasBeenManuallyStopped = r.HasBeenManuallyStopped
           /\ s.HasBeenStartedBefore = r.HasBeenStartedBefore
  BY DEF Containers, StartFailure

\* What a pause or its end records.
LEMMA PausedFields ==
    ASSUME NEW r \in Containers, NEW b
    PROVE  LET s == [r EXCEPT !.Paused = b] IN
           /\ s.Running = r.Running /\ s.Paused = b /\ s.Restarting = r.Restarting
           /\ s.RemovalInProgress = r.RemovalInProgress /\ s.Dead = r.Dead /\ s.Pid = r.Pid
           /\ s.Err = r.Err /\ s.HasBeenManuallyStopped = r.HasBeenManuallyStopped
           /\ s.HasBeenStartedBefore = r.HasBeenStartedBefore
  BY DEF Containers

\* What the mark of a removal under way changes.
LEMMA RemovingFields ==
    ASSUME NEW r \in Containers, NEW b
    PROVE  LET s == [r EXCEPT !.RemovalInProgress = b] IN
           /\ s.Running = r.Running /\ s.Paused = r.Paused /\ s.Restarting = r.Restarting
           /\ s.RemovalInProgress = b /\ s.Dead = r.Dead /\ s.Pid = r.Pid
           /\ s.Err = r.Err /\ s.HasBeenManuallyStopped = r.HasBeenManuallyStopped
           /\ s.HasBeenStartedBefore = r.HasBeenStartedBefore
  BY DEF Containers

\* What restore records of a removal that was cut short.
LEMMA UnmarkFields ==
    ASSUME NEW r \in Containers
    PROVE  LET s == [r EXCEPT !.RemovalInProgress = FALSE, !.Dead = TRUE] IN
           /\ s.Running = r.Running /\ s.Paused = r.Paused /\ s.Restarting = r.Restarting
           /\ ~s.RemovalInProgress /\ s.Dead /\ s.Pid = r.Pid
           /\ s.Err = r.Err /\ s.HasBeenManuallyStopped = r.HasBeenManuallyStopped
           /\ s.HasBeenStartedBefore = r.HasBeenStartedBefore
  BY DEF Containers

\* What a start changes before the process is created.
LEMMA ForStartFields ==
    ASSUME c \in Containers, NEW t
    PROVE  LET s == ForStart(t) IN
           /\ s.Running = c.Running /\ s.Paused = c.Paused /\ s.Restarting = c.Restarting
           /\ s.RemovalInProgress = c.RemovalInProgress /\ s.Dead = c.Dead /\ s.Pid = c.Pid
           /\ s.Err = c.Err
           /\ s.HasBeenManuallyStopped = (IF t # Restarter THEN FALSE ELSE c.HasBeenManuallyStopped)
           /\ s.HasBeenStartedBefore = c.HasBeenStartedBefore
  BY DEF Containers, ForStart, Resets

\* What a failed start saves.
LEMMA FailureSaved ==
    ASSUME c \in Containers, NEW t \in Threads, StartFails(t)
    PROVE  /\ SaveFile(c') /\ c'.Running = c.Running /\ c'.Paused = c.Paused
           /\ c'.Restarting = c.Restarting /\ c'.RemovalInProgress = c.RemovalInProgress
           /\ c'.Dead = c.Dead /\ c'.Pid = c.Pid /\ c'.Err
           /\ c'.HasBeenStartedBefore = c.HasBeenStartedBefore
<1>1. PICK m \in {c, ForStart(t)} : c' = StartFailure(m, FALSE) /\ SaveFile(c')
  <2>1. Save(StartFailure(c, FALSE)) \/ Save(StartFailure(ForStart(t), FALSE))
    BY DEF StartFails
  <2> QED
    BY <2>1 DEF Save
<1>2. /\ m \in Containers /\ m.Running = c.Running /\ m.Paused = c.Paused
      /\ m.Restarting = c.Restarting /\ m.RemovalInProgress = c.RemovalInProgress
      /\ m.Dead = c.Dead /\ m.Pid = c.Pid /\ m.HasBeenStartedBefore = c.HasBeenStartedBefore
  BY <1>1 DEF ForStart, Containers
<1> QED
  BY <1>1, <1>2, FailureFields

\* What a kill saves.
LEMMA KillSaved ==
    ASSUME c \in Containers, NEW t \in Threads, Kill(t)
    PROVE  /\ UNCHANGED <<c, disk>> \/ (c'.HasBeenManuallyStopped /\ SaveFile(c'))
           /\ c'.Running = c.Running /\ c'.Paused = c.Paused
           /\ c'.Restarting = c.Restarting /\ c'.RemovalInProgress = c.RemovalInProgress
           /\ c'.Dead = c.Dead /\ c'.Pid = c.Pid /\ c'.Err = c.Err
           /\ c'.HasBeenStartedBefore = c.HasBeenStartedBefore
<1>1. \/ UNCHANGED <<c, disk>>
      \/ c' = [c EXCEPT !.HasBeenManuallyStopped = TRUE] /\ SaveFile(c')
  BY DEF Kill, Save
<1> QED
  BY <1>1 DEF Containers

\* What the event of a start saves.
LEMMA EventStartSaved ==
    ASSUME c \in Containers, EventStart
    PROVE  \/ c.Running /\ UNCHANGED <<c, disk, recorded>>
           \/ /\ ~c.Running /\ SaveFile(c') /\ recorded' = Head(queue).pid
              /\ c'.Running /\ ~c'.Paused /\ ~c'.Restarting
              /\ c'.RemovalInProgress = c.RemovalInProgress /\ c'.Dead = c.Dead
              /\ c'.Pid = Head(queue).pid /\ ~c'.Err
              /\ ~c'.HasBeenManuallyStopped /\ c'.HasBeenStartedBefore
<1>1. CASE c.Running
  BY <1>1 DEF EventStart
<1>2. CASE ~c.Running
  <2> DEFINE m == [SetRunning(c, Head(queue).pid) EXCEPT
                     !.HasBeenManuallyStopped = FALSE, !.HasBeenStartedBefore = TRUE]
  <2>1. c' = m /\ SaveFile(c') /\ recorded' = Head(queue).pid
    BY <1>2 DEF EventStart, Save
  <2> HIDE DEF m
  <2> QED
    BY <1>2, <2>1, StartEventFields DEF m
<1> QED
  BY <1>1, <1>2

\* The queue gets an event at its end.
LEMMA QueueFacts ==
    ASSUME NEW S, NEW q \in Seq(S), NEW e \in S
    PROVE  /\ DOMAIN q = 1 .. Len(q) /\ Len(q) \in Nat
           /\ DOMAIN Append(q, e) = 1 .. Len(q) + 1 /\ Len(Append(q, e)) = Len(q) + 1
           /\ Append(q, e)[Len(q) + 1] = e
           /\ \A i \in 1 .. Len(q) : Append(q, e)[i] = q[i]
           /\ Append(q, e) # <<>>
  OBVIOUS

\* The queue loses its head.
LEMMA TailFacts ==
    ASSUME NEW S, NEW q \in Seq(S), q # <<>>
    PROVE  /\ DOMAIN q = 1 .. Len(q) /\ Len(q) \in Nat \ {0} /\ Head(q) = q[1]
           /\ DOMAIN Tail(q) = 1 .. Len(q) - 1 /\ Len(Tail(q)) = Len(q) - 1
           /\ \A i \in 1 .. Len(q) - 1 : Tail(q)[i] = q[i + 1]
  OBVIOUS

\* The start of a removal changes its mark, in memory.
LEMMA RmSaved ==
    ASSUME c \in Containers, NEW t, Rm(t)
    PROVE  /\ c'.Running = c.Running /\ c'.Restarting = c.Restarting /\ c'.Pid = c.Pid
           /\ c'.HasBeenManuallyStopped = c.HasBeenManuallyStopped /\ c'.Err = c.Err
           /\ c'.HasBeenStartedBefore = c.HasBeenStartedBefore
           /\ c'.Dead = c.Dead /\ c'.Paused = c.Paused /\ UNCHANGED disk
<1>1. (UNCHANGED c \/ c' = [c EXCEPT !.RemovalInProgress = TRUE]) /\ UNCHANGED disk
  BY DEF Rm
<1>2. CASE UNCHANGED c
  BY <1>1, <1>2
<1>3. CASE c' = [c EXCEPT !.RemovalInProgress = TRUE]
  BY <1>1, <1>3, RemovingFields
<1> QED
  BY <1>1, <1>2, <1>3

\* The end of a removal too.
LEMMA RmEndSaved ==
    ASSUME c \in Containers, NEW t, RmEnd(t)
    PROVE  /\ c'.Running = c.Running /\ c'.Restarting = c.Restarting /\ c'.Pid = c.Pid
           /\ c'.HasBeenManuallyStopped = c.HasBeenManuallyStopped /\ c'.Err = c.Err
           /\ c'.HasBeenStartedBefore = c.HasBeenStartedBefore
           /\ c'.Dead = c.Dead /\ c'.Paused = c.Paused /\ UNCHANGED disk
  BY RemovingFields DEF RmEnd

\* A container is marked dead for its removal.
LEMMA RmDeadFields ==
    ASSUME NEW r \in Containers
    PROVE  LET s == [r EXCEPT !.Dead = TRUE] IN
           /\ s.HasBeenManuallyStopped = r.HasBeenManuallyStopped /\ s.Restarting = r.Restarting
           /\ s.Running = r.Running /\ s.Pid = r.Pid /\ s.Paused = r.Paused
  BY DEF Containers

\* A removal that was cut short is saved as dead.
LEMMA UnmarkSaved ==
    ASSUME c \in Containers, Unmarks
    PROVE  /\ c'.Running = c.Running /\ c'.Restarting = c.Restarting /\ c'.Pid = c.Pid
           /\ c'.HasBeenManuallyStopped = c.HasBeenManuallyStopped /\ c'.Err = c.Err
           /\ c'.HasBeenStartedBefore = c.HasBeenStartedBefore
           /\ c'.Paused = c.Paused /\ (UNCHANGED disk \/ SaveFile(c'))
<1>1. CASE c.RemovalInProgress
  BY <1>1, UnmarkFields DEF Unmarks, SaveOrFail
<1>2. CASE ~c.RemovalInProgress
  BY <1>2 DEF Unmarks
<1> QED
  BY <1>1, <1>2

\* A container that was resumed is saved so.
LEMMA StatusSaved ==
    ASSUME c \in Containers, Status
    PROVE  /\ c'.Running = c.Running /\ c'.Restarting = c.Restarting /\ c'.Pid = c.Pid
           /\ c'.HasBeenManuallyStopped = c.HasBeenManuallyStopped /\ c'.Err = c.Err
           /\ c'.HasBeenStartedBefore = c.HasBeenStartedBefore
           /\ (c'.Paused => c.Paused) /\ c'.Dead = c.Dead
           /\ (UNCHANGED <<c, disk>> \/ (~c'.Paused /\ SaveFile(c')))
<1>1. UNCHANGED <<c, disk>> \/ (c' = [c EXCEPT !.Paused = FALSE] /\ SaveFile(c'))
  BY DEF Status, Save
<1>2. CASE UNCHANGED <<c, disk>>
  BY <1>2
<1>3. CASE c' = [c EXCEPT !.Paused = FALSE] /\ SaveFile(c')
  BY <1>3, PausedFields
<1> QED
  BY <1>1, <1>2, <1>3

\* The event of a pause or its end is saved.
LEMMA EventPausedSaved ==
    ASSUME c \in Containers, EventPaused
    PROVE  /\ c'.Running = c.Running /\ c'.Restarting = c.Restarting /\ c'.Pid = c.Pid
           /\ c'.HasBeenManuallyStopped = c.HasBeenManuallyStopped /\ c'.Err = c.Err
           /\ c'.HasBeenStartedBefore = c.HasBeenStartedBefore
           /\ c'.Dead = c.Dead /\ c'.Paused = (Head(queue).type = "paused") /\ SaveFile(c')
<1>1. c' = [c EXCEPT !.Paused = (Head(queue).type = "paused")] /\ SaveFile(c')
  BY DEF EventPaused, Save
<1> QED
  BY <1>1, PausedFields

\* A pause or its end is saved.
LEMMA PausedSaved ==
    ASSUME c \in Containers, Paused
    PROVE  /\ c'.Running = c.Running /\ c'.Restarting = c.Restarting /\ c'.Pid = c.Pid
           /\ c'.HasBeenManuallyStopped = c.HasBeenManuallyStopped /\ c'.Err = c.Err
           /\ c'.HasBeenStartedBefore = c.HasBeenStartedBefore
           /\ c'.Dead = c.Dead /\ c'.Paused = (pc[Api] = "pausing") /\ SaveFile(c')
<1>1. c' = [c EXCEPT !.Paused = (pc[Api] = "pausing")] /\ SaveFile(c')
  BY DEF Paused, Save
<1> QED
  BY <1>1, PausedFields


\* Each goroutine stays within its code.
LEMMA LabelsKept ==
    ASSUME IInv, Next
    PROVE  LabelsOK'
<1> USE ThreadFacts DEF bounds, history, outside, manager
<1>0. /\ TypeOK /\ ControlOK
  BY DEF IInv
<1>t. /\ up \in {"down", "restoring", "up", "stopping"}
      /\ c \in Containers /\ queue \in Seq(Events) /\ removes \subseteq Threads
      /\ found \in [process : BOOLEAN, alive : BOOLEAN, ec : Codes,
                    list : {"none", "start", "rm", "ready"}]
  BY <1>0 DEF TypeOK
<1>a. scenario.AutoRemove => scenario.Policy = "no"
  BY <1>0, RestoreAssumption DEF TypeOK
<1>l. LabelsOK /\ PhaseOK /\ RolesOK
  BY <1>0 DEF ControlOK
<1> USE <1>a, <1>l, <1>t DEF LabelsOK, PhaseOK, RolesOK, Labels, BootLabels, ApiLabels,
   MonitorLabels,
           RestarterLabels, RestoreLabels, StartLabels, KillLabels, RmLabels
<1>1. ASSUME NEW op \in AllOps, Request(op) PROVE LabelsOK'
  BY <1>1, EndsAre DEF Request, AllOps, Goto
<1>2. ASSUME NEW t \in Threads, StartRefused(t) PROVE LabelsOK'
  BY <1>2, EndsAre DEF StartRefused, StartFailed, Resets, Unlocked, Goto
<1>3. ASSUME NEW t \in Threads, Creates(t) PROVE LabelsOK'
  BY <1>3, EndsAre DEF Creates, Starts, Resets, Unlocked, Goto, ForStart, DeletedTask,
        ResetRestartManager, CanceledRestart
<1>4. ASSUME NEW t \in Threads, StartFails(t) PROVE LabelsOK'
  <2>1. /\ pc' = [pc EXCEPT ![t] = IF scenario.AutoRemove THEN "rm" ELSE StartFailed(t)]
        /\ pc[t] \in {"start", "created"} /\ lock' = Free /\ c'.Restarting = c.Restarting
    BY <1>4 DEF StartFails, Starts, Goto, Save, StartFailure, ForStart, Containers
  <2> QED
    BY <2>1, <1>4, EndsAre DEF StartFails, StartFailed
<1>5. ASSUME NEW t \in Threads, StartsTask(t) PROVE LabelsOK'
  BY <1>5, EndsAre DEF StartsTask, Goto, Emit, NoTask
<1>6. ASSUME NEW t \in Threads, Started(t) PROVE LabelsOK'
  BY <1>6, EndsAre DEF Started, Goto, Save, SaveFile, SetRunning
<1>7. ASSUME NEW t \in Threads, Kill(t) PROVE LabelsOK'
  BY <1>7, EndsAre DEF Kill, Killed, Unlocked, Goto, Save, SaveFile, CancelRestart,
     CanceledRestart
<1>8. ASSUME NEW t \in Threads, Signal(t) PROVE LabelsOK'
  BY <1>8, EndsAre DEF Signal, Goto, Emit
<1>9. ASSUME NEW t \in Threads, Waited(t) PROVE LabelsOK'
  BY <1>9, EndsAre DEF Waited, Killed, Unlocked, Goto
<1>10. ASSUME NEW t \in Threads, Rm(t) PROVE LabelsOK'
  BY <1>10, EndsAre DEF Rm, Unlocked, Goto
<1>11. ASSUME NEW t \in Threads, RmDead(t) PROVE LabelsOK'
  BY <1>11, EndsAre DEF RmDead, Unlocked, Goto, SaveOrFail, SaveFile
<1>12. ASSUME NEW t \in Threads, RmLayer(t) PROVE LabelsOK'
  BY <1>12, EndsAre DEF RmLayer, Goto
<1>13. ASSUME NEW t \in Threads, RmFiles(t) PROVE LabelsOK'
  BY <1>13, EndsAre DEF RmFiles, Goto
<1>14. ASSUME NEW t \in Threads, RmEnd(t) PROVE LabelsOK'
  BY <1>14, EndsAre DEF RmEnd, Unlocked, Goto
<1>15. ASSUME Pause PROVE LabelsOK'
  BY <1>15, EndsAre DEF Pause, Unlocked, Goto, Emit
<1>16. ASSUME Unpause PROVE LabelsOK'
  BY <1>16, EndsAre DEF Unpause, Unlocked, Goto, Emit
<1>17. ASSUME Paused PROVE LabelsOK'
  BY <1>17, EndsAre DEF Paused, Goto, Save, SaveFile
<1>18. ASSUME EventDone PROVE LabelsOK'
  BY <1>18, EndsAre DEF EventDone, Goto
<1>19. ASSUME EventStart PROVE LabelsOK'
  BY <1>19, EndsAre DEF EventStart, Handles, Unlocked, Save, SaveFile, SetRunning
<1>20. ASSUME EventPaused PROVE LabelsOK'
  BY <1>20, EndsAre DEF EventPaused, Handles, Unlocked, Save, SaveFile
<1>21. ASSUME EventExit PROVE LabelsOK'
  <2>1. CASE Head(queue).pid = c.Pid
    BY <2>1, <1>21 DEF EventExit, Handles, Goto
  <2>2. CASE Head(queue).pid # c.Pid
    BY <2>2, <1>21 DEF EventExit, Handles, Goto
  <2> QED
    BY <2>1, <2>2
<1>22. ASSUME ExitDeletes PROVE LabelsOK'
  BY <1>22, EndsAre DEF ExitDeletes, Unlocked, Goto, DeletedTask
<1>23. ASSUME ExitDecides PROVE LabelsOK'
  BY <1>23, EndsAre DEF ExitDecides, Goto, ShouldRestart, SetRestarting, SetStopped, Activate,
        DeletedObject
<1>24. ASSUME ExitSaves PROVE LabelsOK'
  BY <1>24, EndsAre DEF ExitSaves, SaveFile
<1>25. ASSUME TimerFires PROVE LabelsOK'
  BY <1>25, EndsAre DEF TimerFires
<1>26. ASSUME BackoffEnds PROVE LabelsOK'
  BY <1>26, EndsAre DEF BackoffEnds, Goto
<1>27. ASSUME BackoffCanceled PROVE LabelsOK'
  BY <1>27, EndsAre DEF BackoffCanceled, Goto
<1>28. ASSUME StartupDone PROVE LabelsOK'
  BY <1>28, EndsAre DEF StartupDone, Goto
<1>29. ASSUME GiveUp PROVE LabelsOK'
  BY <1>29, EndsAre DEF GiveUp, Unlocked, Goto, Save, SaveFile, SetStopped
<1>30. ASSUME NEW code \in scenario.ExitCodes, ProcessExits(code) PROVE LabelsOK'
  BY <1>30, EndsAre DEF ProcessExits, Emit
<1>31. ASSUME Crash PROVE LabelsOK'
  BY <1>31, EndsAre DEF Crash, Down
<1>32. ASSUME Shutdown PROVE LabelsOK'
  BY <1>32, EndsAre DEF Shutdown, Goto
<1>33. ASSUME ShutdownEnds PROVE LabelsOK'
  BY <1>33, EndsAre DEF ShutdownEnds, Down
<1>34. ASSUME Loads PROVE LabelsOK'
  BY <1>34, EndsAre DEF Loads, Goto
<1>35. ASSUME Registers PROVE LabelsOK'
  BY <1>35, EndsAre DEF Registers, SaveFile, Goto
<1>36. ASSUME Restores PROVE LabelsOK'
  BY <1>36, EndsAre DEF Restores, Goto
<1>37. ASSUME RestoreFails PROVE LabelsOK'
  BY <1>37, EndsAre DEF RestoreFails, Goto
<1>38. ASSUME Restored PROVE LabelsOK'
  BY <1>38, EndsAre DEF Restored, Goto, DeletedTask
<1>39. ASSUME Inspects PROVE LabelsOK'
  BY <1>39, EndsAre DEF Inspects, Unlocked, Goto, CancelRestart, CanceledRestart
<1>40. ASSUME Status PROVE LabelsOK'
  BY <1>40, EndsAre DEF Status, Unlocked, Goto, Save, SaveFile
<1>41. ASSUME StatusFails PROVE LabelsOK'
  BY <1>41, EndsAre DEF StatusFails, Goto
<1>42. ASSUME MarksStopped PROVE LabelsOK'
  BY <1>42, EndsAre DEF MarksStopped, Unlocked, Goto, Save, SaveFile, SetStopped, DeletedObject
<1>43. ASSUME ResetsManager PROVE LabelsOK'
  BY <1>43, EndsAre DEF ResetsManager, Goto, ResetRestartManager, CanceledRestart
<1>44. ASSUME Lists PROVE LabelsOK'
  BY <1>44, EndsAre DEF Lists, Goto, ShouldRestart, Activate
<1>45. ASSUME Unmarks PROVE LabelsOK'
  <2>1. /\ pc' = [pc EXCEPT ![Main] = found.list] /\ pc[Main] = "unmark"
        /\ c'.Restarting = c.Restarting /\ UNCHANGED <<up, queue, scenario, found, removes>>
    BY <1>45, ZenonT(60) DEF Unmarks, Goto, SaveOrFail, Containers
  <2> QED
    BY <2>1
<1>46. ASSUME Ready PROVE LabelsOK'
  BY <1>46, EndsAre DEF Ready, Goto
<1> QED
  BY <1>1, <1>2, <1>3, <1>4, <1>5, <1>6, <1>7, <1>8, <1>9, <1>10, <1>11, <1>12, <1>13, <1>14,
        <1>15, <1>16, <1>17, <1>18, <1>19, <1>20, <1>21, <1>22, <1>23, <1>24, <1>25, <1>26,
        <1>27, <1>28, <1>29, <1>30, <1>31, <1>32, <1>33, <1>34, <1>35, <1>36, <1>37, <1>38,
        <1>39, <1>40, <1>41, <1>42, <1>43, <1>44, <1>45, <1>46 DEF Next, Start, Removal, Event,
        Backoff, RestoreStep

\* The phases of the daemon, through every step.
LEMMA PhaseKept ==
    ASSUME IInv, Next
    PROVE  PhaseOK'
<1> USE ThreadFacts DEF bounds, history, outside, manager
<1>0. /\ TypeOK /\ ControlOK
  BY DEF IInv
<1>t. /\ up \in {"down", "restoring", "up", "stopping"}
      /\ c \in Containers /\ queue \in Seq(Events) /\ removes \subseteq Threads
      /\ found \in [process : BOOLEAN, alive : BOOLEAN, ec : Codes,
                    list : {"none", "start", "rm", "ready"}]
  BY <1>0 DEF TypeOK
<1>a. scenario.AutoRemove => scenario.Policy = "no"
  BY <1>0, RestoreAssumption DEF TypeOK
<1>l. LabelsOK /\ PhaseOK /\ RolesOK
  BY <1>0 DEF ControlOK
<1> USE <1>a, <1>l, <1>t DEF LabelsOK, PhaseOK, RolesOK, InRm, NotFound, Labels, BootLabels,
   ApiLabels, MonitorLabels,
           RestarterLabels, RestoreLabels, StartLabels, KillLabels, RmLabels
<1>1. ASSUME NEW op \in AllOps, Request(op) PROVE PhaseOK'
  BY <1>1, EndsAre DEF Request, AllOps, Goto
<1>2. ASSUME NEW t \in Threads, StartRefused(t) PROVE PhaseOK'
  BY <1>2, EndsAre DEF StartRefused, StartFailed, Resets, Unlocked, Goto
<1>3. ASSUME NEW t \in Threads, Creates(t) PROVE PhaseOK'
  BY <1>3, EndsAre DEF Creates, Starts, Resets, Unlocked, Goto, ForStart, DeletedTask,
        ResetRestartManager, CanceledRestart
<1>4. ASSUME NEW t \in Threads, StartFails(t) PROVE PhaseOK'
  <2>1. /\ pc' = [pc EXCEPT ![t] = IF scenario.AutoRemove THEN "rm" ELSE StartFailed(t)]
        /\ pc[t] \in {"start", "created"} /\ lock' = Free /\ c'.Restarting = c.Restarting
    BY <1>4, ZenonT(60) DEF StartFails, Starts, Goto, Save, StartFailure, ForStart, Containers
  <2> QED
    BY <2>1, <1>4, EndsAre DEF StartFails, StartFailed
<1>5. ASSUME NEW t \in Threads, StartsTask(t) PROVE PhaseOK'
  BY <1>5, EndsAre DEF StartsTask, Goto, Emit, NoTask
<1>6. ASSUME NEW t \in Threads, Started(t) PROVE PhaseOK'
  BY <1>6, EndsAre DEF Started, Goto, Save, SaveFile, SetRunning
<1>7. ASSUME NEW t \in Threads, Kill(t) PROVE PhaseOK'
  BY <1>7, EndsAre DEF Kill, Killed, Unlocked, Goto, Save, SaveFile, CancelRestart,
     CanceledRestart
<1>8. ASSUME NEW t \in Threads, Signal(t) PROVE PhaseOK'
  BY <1>8, EndsAre DEF Signal, Goto, Emit
<1>9. ASSUME NEW t \in Threads, Waited(t) PROVE PhaseOK'
  BY <1>9, EndsAre DEF Waited, Killed, Unlocked, Goto
<1>10. ASSUME NEW t \in Threads, Rm(t) PROVE PhaseOK'
  BY <1>10, EndsAre DEF Rm, Unlocked, Goto
<1>11. ASSUME NEW t \in Threads, RmDead(t) PROVE PhaseOK'
  BY <1>11, EndsAre DEF RmDead, Unlocked, Goto, SaveOrFail, SaveFile
<1>12. ASSUME NEW t \in Threads, RmLayer(t) PROVE PhaseOK'
  BY <1>12, EndsAre DEF RmLayer, Goto
<1>13. ASSUME NEW t \in Threads, RmFiles(t) PROVE PhaseOK'
  BY <1>13, EndsAre DEF RmFiles, Goto
<1>14. ASSUME NEW t \in Threads, RmEnd(t) PROVE PhaseOK'
  BY <1>14, EndsAre DEF RmEnd, Unlocked, Goto
<1>15. ASSUME Pause PROVE PhaseOK'
  BY <1>15, EndsAre DEF Pause, Unlocked, Goto, Emit
<1>16. ASSUME Unpause PROVE PhaseOK'
  BY <1>16, EndsAre DEF Unpause, Unlocked, Goto, Emit
<1>17. ASSUME Paused PROVE PhaseOK'
  BY <1>17, EndsAre DEF Paused, Goto, Save, SaveFile
<1>18. ASSUME EventDone PROVE PhaseOK'
  BY <1>18, EndsAre DEF EventDone, Goto
<1>19. ASSUME EventStart PROVE PhaseOK'
  BY <1>19, EndsAre DEF EventStart, Handles, Unlocked, Save, SaveFile, SetRunning
<1>20. ASSUME EventPaused PROVE PhaseOK'
  BY <1>20, EndsAre DEF EventPaused, Handles, Unlocked, Save, SaveFile
<1>21. ASSUME EventExit PROVE PhaseOK'
  <2>1. CASE Head(queue).pid = c.Pid
    BY <2>1, <1>21 DEF EventExit, Handles, Goto
  <2>2. CASE Head(queue).pid # c.Pid
    BY <2>2, <1>21 DEF EventExit, Handles, Goto
  <2> QED
    BY <2>1, <2>2
<1>22. ASSUME ExitDeletes PROVE PhaseOK'
  BY <1>22, EndsAre DEF ExitDeletes, Unlocked, Goto, DeletedTask
<1>23. ASSUME ExitDecides PROVE PhaseOK'
  BY <1>23, EndsAre DEF ExitDecides, Goto, ShouldRestart, SetRestarting, SetStopped, Activate,
        DeletedObject
<1>24. ASSUME ExitSaves PROVE PhaseOK'
  BY <1>24, EndsAre DEF ExitSaves, SaveFile
<1>25. ASSUME TimerFires PROVE PhaseOK'
  BY <1>25, EndsAre DEF TimerFires
<1>26. ASSUME BackoffEnds PROVE PhaseOK'
  BY <1>26, EndsAre DEF BackoffEnds, Goto
<1>27. ASSUME BackoffCanceled PROVE PhaseOK'
  BY <1>27, EndsAre DEF BackoffCanceled, Goto
<1>28. ASSUME StartupDone PROVE PhaseOK'
  BY <1>28, EndsAre DEF StartupDone, Goto
<1>29. ASSUME GiveUp PROVE PhaseOK'
  BY <1>29, EndsAre DEF GiveUp, Unlocked, Goto, Save, SaveFile, SetStopped
<1>30. ASSUME NEW code \in scenario.ExitCodes, ProcessExits(code) PROVE PhaseOK'
  BY <1>30, EndsAre DEF ProcessExits, Emit
<1>31. ASSUME Crash PROVE PhaseOK'
  BY <1>31, EndsAre DEF Crash, Down
<1>32. ASSUME Shutdown PROVE PhaseOK'
  BY <1>32, EndsAre DEF Shutdown, Goto
<1>33. ASSUME ShutdownEnds PROVE PhaseOK'
  BY <1>33, EndsAre DEF ShutdownEnds, Down
<1>34. ASSUME Loads PROVE PhaseOK'
  BY <1>34, EndsAre DEF Loads, Goto
<1>35. ASSUME Registers PROVE PhaseOK'
  BY <1>35, EndsAre DEF Registers, SaveFile, Goto
<1>36. ASSUME Restores PROVE PhaseOK'
  BY <1>36, EndsAre DEF Restores, Goto
<1>37. ASSUME RestoreFails PROVE PhaseOK'
  BY <1>37, EndsAre DEF RestoreFails, Goto
<1>38. ASSUME Restored PROVE PhaseOK'
  BY <1>38, EndsAre DEF Restored, Goto, DeletedTask
<1>39. ASSUME Inspects PROVE PhaseOK'
  BY <1>39, EndsAre DEF Inspects, Unlocked, Goto, CancelRestart, CanceledRestart
<1>40. ASSUME Status PROVE PhaseOK'
  BY <1>40, EndsAre DEF Status, Unlocked, Goto, Save, SaveFile
<1>41. ASSUME StatusFails PROVE PhaseOK'
  BY <1>41, EndsAre DEF StatusFails, Goto
<1>42. ASSUME MarksStopped PROVE PhaseOK'
  BY <1>42, EndsAre DEF MarksStopped, Unlocked, Goto, Save, SaveFile, SetStopped, DeletedObject
<1>43. ASSUME ResetsManager PROVE PhaseOK'
  BY <1>43, EndsAre DEF ResetsManager, Goto, ResetRestartManager, CanceledRestart
<1>44. ASSUME Lists PROVE PhaseOK'
  BY <1>44, EndsAre DEF Lists, Goto, ShouldRestart, Activate
<1>45. ASSUME Unmarks PROVE PhaseOK'
  <2>1. /\ pc' = [pc EXCEPT ![Main] = found.list] /\ pc[Main] = "unmark"
        /\ c'.Restarting = c.Restarting /\ UNCHANGED <<up, queue, scenario, found, removes>>
    BY <1>45, ZenonT(60) DEF Unmarks, Goto, SaveOrFail, Containers
  <2> QED
    BY <2>1
<1>46. ASSUME Ready PROVE PhaseOK'
  BY <1>46, EndsAre DEF Ready, Goto
<1> QED
  BY <1>1, <1>2, <1>3, <1>4, <1>5, <1>6, <1>7, <1>8, <1>9, <1>10, <1>11, <1>12, <1>13, <1>14,
        <1>15, <1>16, <1>17, <1>18, <1>19, <1>20, <1>21, <1>22, <1>23, <1>24, <1>25, <1>26,
        <1>27, <1>28, <1>29, <1>30, <1>31, <1>32, <1>33, <1>34, <1>35, <1>36, <1>37, <1>38,
        <1>39, <1>40, <1>41, <1>42, <1>43, <1>44, <1>45, <1>46 DEF Next, Start, Removal, Event,
        Backoff, RestoreStep

\* Who removes and who restarts, through every step.
LEMMA RolesKept ==
    ASSUME IInv, Next
    PROVE  RolesOK'
<1> USE ThreadFacts DEF bounds, history, outside, manager
<1>0. /\ TypeOK /\ ControlOK
  BY DEF IInv
<1>t. /\ up \in {"down", "restoring", "up", "stopping"}
      /\ c \in Containers /\ queue \in Seq(Events) /\ removes \subseteq Threads
      /\ found \in [process : BOOLEAN, alive : BOOLEAN, ec : Codes,
                    list : {"none", "start", "rm", "ready"}]
  BY <1>0 DEF TypeOK
<1>a. scenario.AutoRemove => scenario.Policy = "no"
  BY <1>0, RestoreAssumption DEF TypeOK
<1>l. LabelsOK /\ PhaseOK /\ RolesOK
  BY <1>0 DEF ControlOK
<1> USE <1>a, <1>l, <1>t DEF LabelsOK, PhaseOK, RolesOK, InRm, NotFound, Containers, Labels,
   BootLabels, ApiLabels, MonitorLabels,
           RestarterLabels, RestoreLabels, StartLabels, KillLabels, RmLabels
<1>1. ASSUME NEW op \in AllOps, Request(op) PROVE RolesOK'
  BY <1>1, EndsAre DEF Request, AllOps, Goto
<1>2. ASSUME NEW t \in Threads, StartRefused(t) PROVE RolesOK'
  BY <1>2, EndsAre DEF StartRefused, StartFailed, Resets, Unlocked, Goto
<1>3. ASSUME NEW t \in Threads, Creates(t) PROVE RolesOK'
  BY <1>3, EndsAre DEF Creates, Starts, Resets, Unlocked, Goto, ForStart, DeletedTask,
        ResetRestartManager, CanceledRestart
<1>4. ASSUME NEW t \in Threads, StartFails(t) PROVE RolesOK'
  <2>1. /\ pc' = [pc EXCEPT ![t] = IF scenario.AutoRemove THEN "rm" ELSE StartFailed(t)]
        /\ pc[t] \in {"start", "created"} /\ lock' = Free /\ c'.Restarting = c.Restarting
    BY <1>4, ZenonT(60) DEF StartFails, Starts, Goto, Save, StartFailure, ForStart, Containers
  <2> QED
    BY <2>1, <1>4, EndsAre DEF StartFails, StartFailed
<1>5. ASSUME NEW t \in Threads, StartsTask(t) PROVE RolesOK'
  BY <1>5, EndsAre DEF StartsTask, Goto, Emit, NoTask
<1>6. ASSUME NEW t \in Threads, Started(t) PROVE RolesOK'
  BY <1>6, EndsAre DEF Started, Goto, Save, SaveFile, SetRunning
<1>7. ASSUME NEW t \in Threads, Kill(t) PROVE RolesOK'
  BY <1>7, EndsAre DEF Kill, Killed, Unlocked, Goto, Save, SaveFile, CancelRestart,
     CanceledRestart
<1>8. ASSUME NEW t \in Threads, Signal(t) PROVE RolesOK'
  BY <1>8, EndsAre DEF Signal, Goto, Emit
<1>9. ASSUME NEW t \in Threads, Waited(t) PROVE RolesOK'
  BY <1>9, EndsAre DEF Waited, Killed, Unlocked, Goto
<1>10. ASSUME NEW t \in Threads, Rm(t) PROVE RolesOK'
  BY <1>10, EndsAre DEF Rm, Unlocked, Goto
<1>11. ASSUME NEW t \in Threads, RmDead(t) PROVE RolesOK'
  BY <1>11, EndsAre DEF RmDead, Unlocked, Goto, SaveOrFail, SaveFile
<1>12. ASSUME NEW t \in Threads, RmLayer(t) PROVE RolesOK'
  BY <1>12, EndsAre DEF RmLayer, Goto
<1>13. ASSUME NEW t \in Threads, RmFiles(t) PROVE RolesOK'
  BY <1>13, EndsAre DEF RmFiles, Goto
<1>14. ASSUME NEW t \in Threads, RmEnd(t) PROVE RolesOK'
  BY <1>14, EndsAre DEF RmEnd, Unlocked, Goto
<1>15. ASSUME Pause PROVE RolesOK'
  BY <1>15, EndsAre DEF Pause, Unlocked, Goto, Emit
<1>16. ASSUME Unpause PROVE RolesOK'
  BY <1>16, EndsAre DEF Unpause, Unlocked, Goto, Emit
<1>17. ASSUME Paused PROVE RolesOK'
  BY <1>17, EndsAre DEF Paused, Goto, Save, SaveFile
<1>18. ASSUME EventDone PROVE RolesOK'
  BY <1>18, EndsAre DEF EventDone, Goto
<1>19. ASSUME EventStart PROVE RolesOK'
  BY <1>19, EndsAre DEF EventStart, Handles, Unlocked, Save, SaveFile, SetRunning
<1>20. ASSUME EventPaused PROVE RolesOK'
  BY <1>20, EndsAre DEF EventPaused, Handles, Unlocked, Save, SaveFile
<1>21. ASSUME EventExit PROVE RolesOK'
  <2>1. CASE Head(queue).pid = c.Pid
    BY <2>1, <1>21 DEF EventExit, Handles, Goto
  <2>2. CASE Head(queue).pid # c.Pid
    BY <2>2, <1>21 DEF EventExit, Handles, Goto
  <2> QED
    BY <2>1, <2>2
<1>22. ASSUME ExitDeletes PROVE RolesOK'
  BY <1>22, EndsAre DEF ExitDeletes, Unlocked, Goto, DeletedTask
<1>23. ASSUME ExitDecides PROVE RolesOK'
  BY <1>23, EndsAre, ZenonT(60) DEF ExitDecides, Goto, ShouldRestart, SetRestarting, SetStopped, Activate,
        DeletedObject
<1>24. ASSUME ExitSaves PROVE RolesOK'
  BY <1>24, EndsAre DEF ExitSaves, SaveFile
<1>25. ASSUME TimerFires PROVE RolesOK'
  BY <1>25, EndsAre DEF TimerFires
<1>26. ASSUME BackoffEnds PROVE RolesOK'
  BY <1>26, EndsAre DEF BackoffEnds, Goto
<1>27. ASSUME BackoffCanceled PROVE RolesOK'
  BY <1>27, EndsAre DEF BackoffCanceled, Goto
<1>28. ASSUME StartupDone PROVE RolesOK'
  BY <1>28, EndsAre DEF StartupDone, Goto
<1>29. ASSUME GiveUp PROVE RolesOK'
  BY <1>29, EndsAre DEF GiveUp, Unlocked, Goto, Save, SaveFile, SetStopped
<1>30. ASSUME NEW code \in scenario.ExitCodes, ProcessExits(code) PROVE RolesOK'
  BY <1>30, EndsAre DEF ProcessExits, Emit
<1>31. ASSUME Crash PROVE RolesOK'
  BY <1>31, EndsAre DEF Crash, Down
<1>32. ASSUME Shutdown PROVE RolesOK'
  BY <1>32, EndsAre DEF Shutdown, Goto
<1>33. ASSUME ShutdownEnds PROVE RolesOK'
  BY <1>33, EndsAre DEF ShutdownEnds, Down
<1>34. ASSUME Loads PROVE RolesOK'
  BY <1>34, EndsAre DEF Loads, Goto
<1>35. ASSUME Registers PROVE RolesOK'
  BY <1>35, EndsAre DEF Registers, SaveFile, Goto
<1>36. ASSUME Restores PROVE RolesOK'
  BY <1>36, EndsAre DEF Restores, Goto
<1>37. ASSUME RestoreFails PROVE RolesOK'
  BY <1>37, EndsAre DEF RestoreFails, Goto
<1>38. ASSUME Restored PROVE RolesOK'
  BY <1>38, EndsAre DEF Restored, Goto, DeletedTask
<1>39. ASSUME Inspects PROVE RolesOK'
  BY <1>39, EndsAre DEF Inspects, Unlocked, Goto, CancelRestart, CanceledRestart
<1>40. ASSUME Status PROVE RolesOK'
  BY <1>40, EndsAre DEF Status, Unlocked, Goto, Save, SaveFile
<1>41. ASSUME StatusFails PROVE RolesOK'
  BY <1>41, EndsAre DEF StatusFails, Goto
<1>42. ASSUME MarksStopped PROVE RolesOK'
  BY <1>42, EndsAre DEF MarksStopped, Unlocked, Goto, Save, SaveFile, SetStopped, DeletedObject
<1>43. ASSUME ResetsManager PROVE RolesOK'
  BY <1>43, EndsAre DEF ResetsManager, Goto, ResetRestartManager, CanceledRestart
<1>44. ASSUME Lists PROVE RolesOK'
  BY <1>44, EndsAre DEF Lists, Goto, ShouldRestart, Activate
<1>45. ASSUME Unmarks PROVE RolesOK'
  <2>1. /\ pc' = [pc EXCEPT ![Main] = found.list] /\ pc[Main] = "unmark"
        /\ c'.Restarting = c.Restarting /\ UNCHANGED <<up, queue, scenario, found, removes>>
    BY <1>45, ZenonT(60) DEF Unmarks, Goto, SaveOrFail, Containers
  <2> QED
    BY <2>1
<1>46. ASSUME Ready PROVE RolesOK'
  BY <1>46, EndsAre DEF Ready, Goto
<1> QED
  BY <1>1, <1>2, <1>3, <1>4, <1>5, <1>6, <1>7, <1>8, <1>9, <1>10, <1>11, <1>12, <1>13, <1>14,
        <1>15, <1>16, <1>17, <1>18, <1>19, <1>20, <1>21, <1>22, <1>23, <1>24, <1>25, <1>26,
        <1>27, <1>28, <1>29, <1>30, <1>31, <1>32, <1>33, <1>34, <1>35, <1>36, <1>37, <1>38,
        <1>39, <1>40, <1>41, <1>42, <1>43, <1>44, <1>45, <1>46 DEF Next, Start, Removal, Event,
        Backoff, RestoreStep


\* The record, in memory and on disk, keeps its type.
LEMMA RecordTypes ==
    ASSUME IInv, Next
    PROVE  c' \in Containers /\ disk' \in Containers \cup {Gone}
<1> USE ThreadFacts DEF bounds, history, outside, manager
<1>0. TypeOK /\ ControlOK /\ TaskOK /\ scenario \in Scenarios
  BY DEF IInv, TypeOK
<1>s. /\ scenario.MaxStarts \in Nat /\ scenario.ExitCodes \subseteq Nat
      /\ 0 \in Pids /\ {0, 128, 255} \subseteq Codes /\ scenario.ExitCodes \subseteq Codes
      /\ Pids \subseteq Nat
  BY <1>0, ScenarioFacts
<1>t. /\ c \in Containers /\ disk \in Containers \cup {Gone} /\ starts \in Pids
      /\ restart \in [canceled : BOOLEAN, code : Codes] /\ found.ec \in Codes
      /\ queue \in Seq(Events) /\ (pc[Monitor] # "idle" => queue # <<>>)
  BY <1>0 DEF TypeOK, TaskOK, ControlOK, PhaseOK
<1>h. queue # <<>> => Head(queue).pid \in Pids /\ Head(queue).code \in Codes
  <2>1. queue # <<>> => Head(queue) \in Events
    BY <1>t
  <2> QED
    BY <2>1 DEF Events
<1>n. NewContainer \in Containers /\ StartFailure(c, FALSE) \in Containers
      /\ [c EXCEPT !.Dead = TRUE] \in Containers
      /\ [c EXCEPT !.RemovalInProgress = FALSE, !.Dead = TRUE] \in Containers
      /\ \A b \in BOOLEAN : /\ [c EXCEPT !.Paused = b] \in Containers
                            /\ [c EXCEPT !.HasBeenManuallyStopped = b] \in Containers
                            /\ [c EXCEPT !.RemovalInProgress = b] \in Containers
  <2>1. 0 \in Pids /\ 0 \in Codes /\ TRUE \in BOOLEAN
    BY <1>s
  <2> QED
    BY <2>1, <1>0, <1>t, SetterTypes
<1>p. \A pid \in Pids :
         /\ [SetRunning(c, pid) EXCEPT !.HasBeenStartedBefore = TRUE] \in Containers
         /\ [SetRunning(c, pid) EXCEPT !.HasBeenManuallyStopped = FALSE,
                                       !.HasBeenStartedBefore = TRUE] \in Containers
  BY <1>0, <1>s, <1>t, SetterTypes
<1>c. \A code \in Codes : SetStopped(c, code) \in Containers /\ SetRestarting(c, code) \in Containers
  BY <1>0, <1>s, <1>t, SetterTypes
<1>z. \A m \in Containers : Save(m) => c' \in Containers /\ disk' \in Containers \cup {Gone}
  BY <1>t, SaveTypes
<1>m. \A m \in Containers :
         SaveOrFail(m) \/ Save(m) => c' \in Containers /\ disk' \in Containers \cup {Gone}
  BY <1>t, <1>z DEF SaveOrFail, Save
<1> USE <1>s, <1>t, <1>h, <1>n, <1>p, <1>c, <1>m
<1>1. ASSUME NEW op \in AllOps, Request(op)
      PROVE  c' \in Containers /\ disk' \in Containers \cup {Gone}
  BY <1>1 DEF Request, AllOps, Goto
<1>2. ASSUME NEW t \in Threads, StartRefused(t)
      PROVE  c' \in Containers /\ disk' \in Containers \cup {Gone}
  BY <1>2 DEF StartRefused, StartFailed, Resets, Unlocked, Goto
<1>3. ASSUME NEW t \in Threads, Creates(t)
      PROVE  c' \in Containers /\ disk' \in Containers \cup {Gone}
  BY <1>3 DEF Creates, Starts, Resets, Unlocked, Goto, ForStart, DeletedTask,
        ResetRestartManager, CanceledRestart
<1>4. ASSUME NEW t \in Threads, StartFails(t)
      PROVE  c' \in Containers /\ disk' \in Containers \cup {Gone}
  <2>1. ForStart(t) \in Containers
    BY DEF ForStart
  <2>2. StartFailure(ForStart(t), FALSE) \in Containers
    BY <1>0, <2>1, SetterTypes
  <2> QED
    BY <2>2, <1>4 DEF StartFails
<1>5. ASSUME NEW t \in Threads, StartsTask(t)
      PROVE  c' \in Containers /\ disk' \in Containers \cup {Gone}
  BY <1>5 DEF StartsTask, Goto, Emit, NoTask
<1>6. ASSUME NEW t \in Threads, Started(t)
      PROVE  c' \in Containers /\ disk' \in Containers \cup {Gone}
  BY <1>6 DEF Started, Goto
<1>7. ASSUME NEW t \in Threads, Kill(t)
      PROVE  c' \in Containers /\ disk' \in Containers \cup {Gone}
  BY <1>7 DEF Kill, Killed, Unlocked, Goto, CancelRestart, CanceledRestart
<1>8. ASSUME NEW t \in Threads, Signal(t)
      PROVE  c' \in Containers /\ disk' \in Containers \cup {Gone}
  BY <1>8 DEF Signal, Goto, Emit
<1>9. ASSUME NEW t \in Threads, Waited(t)
      PROVE  c' \in Containers /\ disk' \in Containers \cup {Gone}
  BY <1>9 DEF Waited, Killed, Unlocked, Goto
<1>10. ASSUME NEW t \in Threads, Rm(t)
       PROVE  c' \in Containers /\ disk' \in Containers \cup {Gone}
  BY <1>10 DEF Rm, Unlocked, Goto
<1>11. ASSUME NEW t \in Threads, RmDead(t)
       PROVE  c' \in Containers /\ disk' \in Containers \cup {Gone}
  BY <1>11 DEF RmDead, Unlocked, Goto
<1>12. ASSUME NEW t \in Threads, RmLayer(t)
       PROVE  c' \in Containers /\ disk' \in Containers \cup {Gone}
  BY <1>12 DEF RmLayer, Goto
<1>13. ASSUME NEW t \in Threads, RmFiles(t)
       PROVE  c' \in Containers /\ disk' \in Containers \cup {Gone}
  BY <1>13 DEF RmFiles, Goto
<1>14. ASSUME NEW t \in Threads, RmEnd(t)
       PROVE  c' \in Containers /\ disk' \in Containers \cup {Gone}
  BY <1>14 DEF RmEnd, Unlocked, Goto
<1>15. ASSUME Pause PROVE c' \in Containers /\ disk' \in Containers \cup {Gone}
  BY <1>15 DEF Pause, Unlocked, Goto, Emit
<1>16. ASSUME Unpause PROVE c' \in Containers /\ disk' \in Containers \cup {Gone}
  BY <1>16 DEF Unpause, Unlocked, Goto, Emit
<1>17. ASSUME Paused PROVE c' \in Containers /\ disk' \in Containers \cup {Gone}
  BY <1>17 DEF Paused, Goto
<1>18. ASSUME EventDone PROVE c' \in Containers /\ disk' \in Containers \cup {Gone}
  BY <1>18 DEF EventDone, Goto
<1>19. ASSUME EventStart PROVE c' \in Containers /\ disk' \in Containers \cup {Gone}
  BY <1>19 DEF EventStart, Handles, Unlocked
<1>20. ASSUME EventPaused PROVE c' \in Containers /\ disk' \in Containers \cup {Gone}
  BY <1>20 DEF EventPaused, Handles, Unlocked
<1>21. ASSUME EventExit PROVE c' \in Containers /\ disk' \in Containers \cup {Gone}
  BY <1>21 DEF EventExit, Handles, Goto
<1>22. ASSUME ExitDeletes PROVE c' \in Containers /\ disk' \in Containers \cup {Gone}
  BY <1>22 DEF ExitDeletes, Unlocked, Goto, DeletedTask
<1>23. ASSUME ExitDecides PROVE c' \in Containers /\ disk' \in Containers \cup {Gone}
  <2> DEFINE code == Head(queue).code
  <2>1. c' \in {SetRestarting(c, code), SetStopped(c, code)} /\ UNCHANGED disk
    BY <1>23 DEF ExitDecides
  <2>2. SetRestarting(c, code) \in Containers /\ SetStopped(c, code) \in Containers
    BY <1>23 DEF ExitDecides
  <2> QED
    BY <2>1, <2>2
<1>24. ASSUME ExitSaves PROVE c' \in Containers /\ disk' \in Containers \cup {Gone}
  BY <1>24 DEF ExitSaves, SaveFile
<1>25. ASSUME TimerFires PROVE c' \in Containers /\ disk' \in Containers \cup {Gone}
  BY <1>25 DEF TimerFires
<1>26. ASSUME BackoffEnds PROVE c' \in Containers /\ disk' \in Containers \cup {Gone}
  BY <1>26 DEF BackoffEnds, Goto
<1>27. ASSUME BackoffCanceled PROVE c' \in Containers /\ disk' \in Containers \cup {Gone}
  BY <1>27 DEF BackoffCanceled, Goto
<1>28. ASSUME StartupDone PROVE c' \in Containers /\ disk' \in Containers \cup {Gone}
  BY <1>28 DEF StartupDone, Goto
<1>29. ASSUME GiveUp PROVE c' \in Containers /\ disk' \in Containers \cup {Gone}
  BY <1>29 DEF GiveUp, Unlocked, Goto
<1>30. ASSUME NEW code \in scenario.ExitCodes, ProcessExits(code)
       PROVE  c' \in Containers /\ disk' \in Containers \cup {Gone}
  BY <1>30 DEF ProcessExits, Emit
<1>31. ASSUME Crash PROVE c' \in Containers /\ disk' \in Containers \cup {Gone}
  BY <1>31 DEF Crash, Down
<1>32. ASSUME Shutdown PROVE c' \in Containers /\ disk' \in Containers \cup {Gone}
  BY <1>32 DEF Shutdown, Goto
<1>33. ASSUME ShutdownEnds PROVE c' \in Containers /\ disk' \in Containers \cup {Gone}
  BY <1>33 DEF ShutdownEnds, Down
<1>34. ASSUME Loads PROVE c' \in Containers /\ disk' \in Containers \cup {Gone}
  BY <1>34 DEF Loads, Goto
<1>35. ASSUME Registers PROVE c' \in Containers /\ disk' \in Containers \cup {Gone}
  BY <1>35 DEF Registers, SaveFile, Goto
<1>36. ASSUME Restores PROVE c' \in Containers /\ disk' \in Containers \cup {Gone}
  BY <1>36 DEF Restores, Goto
<1>37. ASSUME RestoreFails PROVE c' \in Containers /\ disk' \in Containers \cup {Gone}
  BY <1>37 DEF RestoreFails, Goto
<1>38. ASSUME Restored PROVE c' \in Containers /\ disk' \in Containers \cup {Gone}
  BY <1>38 DEF Restored, Goto, DeletedTask
<1>39. ASSUME Inspects PROVE c' \in Containers /\ disk' \in Containers \cup {Gone}
  BY <1>39 DEF Inspects, Unlocked, Goto, CancelRestart, CanceledRestart
<1>40. ASSUME Status PROVE c' \in Containers /\ disk' \in Containers \cup {Gone}
  BY <1>40 DEF Status, Unlocked, Goto
<1>41. ASSUME StatusFails PROVE c' \in Containers /\ disk' \in Containers \cup {Gone}
  BY <1>41 DEF StatusFails, Goto
<1>42. ASSUME MarksStopped PROVE c' \in Containers /\ disk' \in Containers \cup {Gone}
  BY <1>42 DEF MarksStopped, Unlocked, Goto, DeletedObject
<1>43. ASSUME ResetsManager PROVE c' \in Containers /\ disk' \in Containers \cup {Gone}
  BY <1>43 DEF ResetsManager, Goto, ResetRestartManager, CanceledRestart
<1>44. ASSUME Lists PROVE c' \in Containers /\ disk' \in Containers \cup {Gone}
  BY <1>44 DEF Lists, Goto, ShouldRestart, Activate
<1>45. ASSUME Unmarks PROVE c' \in Containers /\ disk' \in Containers \cup {Gone}
  BY <1>45 DEF Unmarks, Unlocked, Goto
<1>46. ASSUME Ready PROVE c' \in Containers /\ disk' \in Containers \cup {Gone}
  BY <1>46 DEF Ready, Goto
<1> QED
  BY ZenonT(60), <1>1, <1>2, <1>3, <1>4, <1>5, <1>6, <1>7, <1>8, <1>9, <1>10, <1>11, <1>12, <1>13, <1>14,
        <1>15, <1>16, <1>17, <1>18, <1>19, <1>20, <1>21, <1>22, <1>23, <1>24, <1>25, <1>26,
        <1>27, <1>28, <1>29, <1>30, <1>31, <1>32, <1>33, <1>34, <1>35, <1>36, <1>37, <1>38,
        <1>39, <1>40, <1>41, <1>42, <1>43, <1>44, <1>45, <1>46 DEF Next, Start, Removal, Event,
        Backoff, RestoreStep

\* The task, the events and the count of the processes keep their types.
LEMMA TaskTypes ==
    ASSUME IInv, Next
    PROVE  task' \in Tasks /\ queue' \in Seq(Events) /\ starts' \in Pids
<1> USE ThreadFacts DEF bounds, history, outside, manager
<1>0. TypeOK /\ ControlOK /\ TaskOK /\ scenario \in Scenarios
  BY DEF IInv, TypeOK
<1>s. /\ scenario.MaxStarts \in Nat /\ scenario.ExitCodes \subseteq Nat
      /\ 0 \in Pids /\ {0, 128, 255} \subseteq Codes /\ scenario.ExitCodes \subseteq Codes
      /\ Pids \subseteq Nat
  BY <1>0, ScenarioFacts
<1>t. /\ task \in Tasks /\ queue \in Seq(Events) /\ starts \in Pids
      /\ \A t \in Threads : pc[t] = "created" => starts < scenario.MaxStarts
      /\ (pc[Monitor] # "idle" => queue # <<>>)
  BY <1>0 DEF TypeOK, TaskOK, ControlOK, PhaseOK, Tasks
<1>e. ASSUME NEW type \in {"start", "exit", "paused", "resumed"}, NEW pid \in Pids,
             NEW code \in Codes, Emit(type, pid, code)
      PROVE  queue' \in Seq(Events)
  <2>1. [type |-> type, pid |-> pid, code |-> code] \in Events
    BY DEF Events
  <2> QED
    BY <1>e, <1>t, <2>1 DEF Emit
<1>h. queue # <<>> => Tail(queue) \in Seq(Events)
  BY <1>t
<1>d. DeletedTask \in Tasks /\ NoTask \in Tasks
  BY <1>s, <1>t DEF DeletedTask, NoTask, Tasks
<1> USE <1>s, <1>t, <1>h, <1>d
<1> DEFINE Goal == task' \in Tasks /\ queue' \in Seq(Events) /\ starts' \in Pids
<1>1. ASSUME NEW op \in AllOps, Request(op) PROVE Goal
  BY <1>1 DEF Request, AllOps, Goto
<1>2. ASSUME NEW t \in Threads, StartRefused(t) PROVE Goal
  BY <1>2 DEF StartRefused, StartFailed, Resets, Unlocked, Goto
<1>3. ASSUME NEW t \in Threads, Creates(t) PROVE Goal
  BY <1>3 DEF Creates, Starts, Resets, Unlocked, Goto, ForStart, ResetRestartManager,
        CanceledRestart
<1>4. ASSUME NEW t \in Threads, StartFails(t) PROVE Goal
  BY <1>4 DEF StartFails, Starts, StartFailed, Resets, Unlocked, Goto, ForStart, Save, SaveFile,
        StartFailure, DeletedObject, ResetRestartManager, CanceledRestart
<1>5. ASSUME NEW t \in Threads, StartsTask(t) PROVE Goal
  <2>1. starts + 1 \in Pids /\ starts' = starts + 1
    BY <1>5 DEF StartsTask, Pids
  <2>2. task' \in Tasks
    BY <2>1, <1>5 DEF StartsTask, Tasks, NoTask
  <2>3. queue' \in Seq(Events)
    BY <2>1, <1>5, <1>e DEF StartsTask
  <2> QED
    BY <2>1, <2>2, <2>3
<1>6. ASSUME NEW t \in Threads, Started(t) PROVE Goal
  BY <1>6 DEF Started, Goto, Save, SaveFile, SetRunning
<1>7. ASSUME NEW t \in Threads, Kill(t) PROVE Goal
  BY <1>7 DEF Kill, Killed, Unlocked, Goto, Save, SaveFile, CancelRestart, CanceledRestart
<1>8. ASSUME NEW t \in Threads, Signal(t) PROVE Goal
  <2>1. task.pid \in Pids /\ [task EXCEPT !.frozen = TRUE] \in Tasks
        /\ [task EXCEPT !.frozen = FALSE] \in Tasks
    BY DEF Tasks
  <2>2. task' \in Tasks /\ starts' \in Pids
    BY <2>1, <1>8 DEF Signal, Goto
  <2>3. queue' \in Seq(Events)
    BY <2>1, <1>8, <1>e DEF Signal, Goto
  <2> QED
    BY <2>2, <2>3
<1>9. ASSUME NEW t \in Threads, Waited(t) PROVE Goal
  BY <1>9 DEF Waited, Killed, Unlocked, Goto
<1>10. ASSUME NEW t \in Threads, Rm(t) PROVE Goal
  BY <1>10 DEF Rm, Unlocked, Goto
<1>11. ASSUME NEW t \in Threads, RmDead(t) PROVE Goal
  BY <1>11 DEF RmDead, Unlocked, Goto, SaveOrFail, SaveFile
<1>12. ASSUME NEW t \in Threads, RmLayer(t) PROVE Goal
  BY <1>12 DEF RmLayer, Goto
<1>13. ASSUME NEW t \in Threads, RmFiles(t) PROVE Goal
  BY <1>13 DEF RmFiles, Goto
<1>14. ASSUME NEW t \in Threads, RmEnd(t) PROVE Goal
  BY <1>14 DEF RmEnd, Unlocked, Goto
<1>15. ASSUME Pause PROVE Goal
  <2>1. task.pid \in Pids /\ [task EXCEPT !.frozen = TRUE] \in Tasks
        /\ [task EXCEPT !.frozen = FALSE] \in Tasks
    BY DEF Tasks
  <2>2. task' \in Tasks /\ starts' \in Pids
    BY <2>1, <1>15 DEF Pause, Unlocked, Goto
  <2>3. queue' \in Seq(Events)
    BY <2>1, <1>15, <1>e DEF Pause, Unlocked, Goto
  <2> QED
    BY <2>2, <2>3
<1>16. ASSUME Unpause PROVE Goal
  <2>1. task.pid \in Pids /\ [task EXCEPT !.frozen = TRUE] \in Tasks
        /\ [task EXCEPT !.frozen = FALSE] \in Tasks
    BY DEF Tasks
  <2>2. task' \in Tasks /\ starts' \in Pids
    BY <2>1, <1>16 DEF Unpause, Unlocked, Goto
  <2>3. queue' \in Seq(Events)
    BY <2>1, <1>16, <1>e DEF Unpause, Unlocked, Goto
  <2> QED
    BY <2>2, <2>3
<1>17. ASSUME Paused PROVE Goal
  BY <1>17 DEF Paused, Goto, Save, SaveFile
<1>18. ASSUME EventDone PROVE Goal
  BY <1>18 DEF EventDone, Goto
<1>19. ASSUME EventStart PROVE Goal
  BY <1>19 DEF EventStart, Handles, Unlocked, Save, SaveFile, SetRunning
<1>20. ASSUME EventPaused PROVE Goal
  BY <1>20 DEF EventPaused, Handles, Unlocked, Save, SaveFile
<1>21. ASSUME EventExit PROVE Goal
  BY <1>21 DEF EventExit, Handles, Goto
<1>22. ASSUME ExitDeletes PROVE Goal
  BY <1>22 DEF ExitDeletes, Unlocked, Goto
<1>23. ASSUME ExitDecides PROVE Goal
  BY <1>23 DEF ExitDecides, Goto, ShouldRestart, SetRestarting, SetStopped, Activate,
     DeletedObject
<1>24. ASSUME ExitSaves PROVE Goal
  BY <1>24 DEF ExitSaves, SaveFile
<1>25. ASSUME TimerFires PROVE Goal
  BY <1>25 DEF TimerFires
<1>26. ASSUME BackoffEnds PROVE Goal
  BY <1>26 DEF BackoffEnds, Goto
<1>27. ASSUME BackoffCanceled PROVE Goal
  BY <1>27 DEF BackoffCanceled, Goto
<1>28. ASSUME StartupDone PROVE Goal
  BY <1>28 DEF StartupDone, Goto
<1>29. ASSUME GiveUp PROVE Goal
  BY <1>29 DEF GiveUp, Unlocked, Goto, Save, SaveFile, SetStopped
<1>30. ASSUME NEW code \in scenario.ExitCodes, ProcessExits(code) PROVE Goal
  <2>1. task' \in Tasks /\ task.pid \in Pids /\ starts' \in Pids
    BY <1>30 DEF ProcessExits, Tasks
  <2>2. queue' \in Seq(Events)
    BY <2>1, <1>30, <1>e DEF ProcessExits
  <2> QED
    BY <2>1, <2>2
<1>31. ASSUME Crash PROVE Goal
  BY <1>31 DEF Crash, Down
<1>32. ASSUME Shutdown PROVE Goal
  BY <1>32 DEF Shutdown, Goto
<1>33. ASSUME ShutdownEnds PROVE Goal
  BY <1>33 DEF ShutdownEnds, Down
<1>34. ASSUME Loads PROVE Goal
  BY <1>34 DEF Loads, Goto
<1>35. ASSUME Registers PROVE Goal
  BY <1>35 DEF Registers, SaveFile, Goto
<1>36. ASSUME Restores PROVE Goal
  BY <1>36 DEF Restores, Goto
<1>37. ASSUME RestoreFails PROVE Goal
  BY <1>37 DEF RestoreFails, Goto
<1>38. ASSUME Restored PROVE Goal
  BY <1>38 DEF Restored, Goto
<1>39. ASSUME Inspects PROVE Goal
  BY <1>39 DEF Inspects, Unlocked, Goto, CancelRestart, CanceledRestart
<1>40. ASSUME Status PROVE Goal
  BY <1>40 DEF Status, Unlocked, Goto, Save, SaveFile
<1>41. ASSUME StatusFails PROVE Goal
  BY <1>41 DEF StatusFails, Goto
<1>42. ASSUME MarksStopped PROVE Goal
  BY <1>42 DEF MarksStopped, Unlocked, Goto, Save, SaveFile, SetStopped, DeletedObject
<1>43. ASSUME ResetsManager PROVE Goal
  BY <1>43 DEF ResetsManager, Goto, ResetRestartManager, CanceledRestart
<1>44. ASSUME Lists PROVE Goal
  BY <1>44 DEF Lists, Goto, ShouldRestart, Activate
<1>45. ASSUME Unmarks PROVE Goal
  BY <1>45 DEF Unmarks, Unlocked, Goto, SaveOrFail, SaveFile
<1>46. ASSUME Ready PROVE Goal
  BY <1>46 DEF Ready, Goto
<1> HIDE DEF Goal
<1>z. Goal
  BY <1>1, <1>2, <1>3, <1>4, <1>5, <1>6, <1>7, <1>8, <1>9, <1>10, <1>11, <1>12, <1>13, <1>14,
        <1>15, <1>16, <1>17, <1>18, <1>19, <1>20, <1>21, <1>22, <1>23, <1>24, <1>25, <1>26,
        <1>27, <1>28, <1>29, <1>30, <1>31, <1>32, <1>33, <1>34, <1>35, <1>36, <1>37, <1>38,
        <1>39, <1>40, <1>41, <1>42, <1>43, <1>44, <1>45, <1>46 DEF Next, Start, Removal, Event,
        Backoff, RestoreStep
<1> QED
  BY <1>z DEF Goal

\* The rest of the state keeps its types.
LEMMA OtherTypesKept ==
    ASSUME IInv, Next
    PROVE  /\ up' \in {"down", "restoring", "up", "stopping"}
           /\ registered' \in BOOLEAN /\ layer' \in BOOLEAN /\ object' \in BOOLEAN
           /\ rm' \in Managers /\ restart' \in [canceled : BOOLEAN, code : Codes]
           /\ removes' \subseteq Threads /\ found' \in Founds
<1> USE ThreadFacts DEF bounds, history, outside, manager
<1>0. TypeOK /\ ControlOK /\ TaskOK /\ scenario \in Scenarios
  BY DEF IInv, TypeOK
<1>s. /\ scenario.MaxStarts \in Nat /\ scenario.ExitCodes \subseteq Nat
      /\ 0 \in Pids /\ {0, 128, 255} \subseteq Codes /\ scenario.ExitCodes \subseteq Codes
      /\ Pids \subseteq Nat
  BY <1>0, ScenarioFacts
<1>t. /\ up \in {"down", "restoring", "up", "stopping"}
      /\ c \in Containers /\ registered \in BOOLEAN /\ layer \in BOOLEAN /\ object \in BOOLEAN
      /\ task \in Tasks
      /\ rm \in Managers /\ found \in Founds
      /\ restart \in [canceled : BOOLEAN, code : Codes] /\ removes \subseteq Threads
      /\ queue \in Seq(Events) /\ (pc[Monitor] # "idle" => queue # <<>>)
  BY <1>0 DEF TypeOK, ControlOK, PhaseOK, Tasks, Managers, Founds
<1>h. queue # <<>> => Head(queue).code \in Codes
  <2>1. queue # <<>> => Head(queue) \in Events
    BY <1>t
  <2> QED
    BY <2>1 DEF Events
<1>r. CanceledRestart \in [canceled : BOOLEAN, code : Codes]
  <2>1. (restart.canceled \/ pc[Restarter] = "backoff") \in BOOLEAN
    OBVIOUS
  <2>2. \A b \in BOOLEAN : [restart EXCEPT !.canceled = b] \in [canceled : BOOLEAN, code : Codes]
    BY <1>t
  <2> QED
    BY <2>1, <2>2 DEF CanceledRestart
<1>m. /\ NewManager \in Managers /\ [rm EXCEPT !.canceled = TRUE] \in Managers
      /\ [rm EXCEPT !.active = TRUE, !.by = "monitor"] \in Managers
  BY <1>t DEF NewManager, Managers
<1> USE <1>s, <1>t, <1>h, <1>r, <1>m DEF Tasks, Managers, Founds, NewManager, NoRestart,
   NotFound, Alive
<1> DEFINE Goal == /\ up' \in {"down", "restoring", "up", "stopping"}
                   /\ registered' \in BOOLEAN /\ layer' \in BOOLEAN /\ object' \in BOOLEAN
                   /\ rm' \in Managers /\ restart' \in [canceled : BOOLEAN, code : Codes]
                   /\ removes' \subseteq Threads /\ found' \in Founds
<1>1. ASSUME NEW op \in AllOps, Request(op) PROVE Goal
  BY <1>1 DEF Request, AllOps, Goto
<1>2. ASSUME NEW t \in Threads, StartRefused(t) PROVE Goal
  BY <1>2 DEF StartRefused, StartFailed, Resets, Unlocked, Goto
<1>3. ASSUME NEW t \in Threads, Creates(t) PROVE Goal
  <2>1. rm' \in Managers /\ restart' \in [canceled : BOOLEAN, code : Codes]
    BY <1>3, ZenonT(60) DEF Creates, ResetRestartManager
  <2> QED
    BY <2>1, <1>3 DEF Creates
<1>4. ASSUME NEW t \in Threads, StartFails(t) PROVE Goal
  <2>1. rm' \in Managers /\ restart' \in [canceled : BOOLEAN, code : Codes]
    BY <1>4, ZenonT(60) DEF StartFails, ResetRestartManager
  <2> QED
    BY <2>1, <1>4 DEF StartFails, DeletedObject
<1>5. ASSUME NEW t \in Threads, StartsTask(t) PROVE Goal
  BY <1>5 DEF StartsTask, Goto, Emit, NoTask
<1>6. ASSUME NEW t \in Threads, Started(t) PROVE Goal
  BY <1>6 DEF Started, Goto, Save, SaveFile, SetRunning
<1>7. ASSUME NEW t \in Threads, Kill(t) PROVE Goal
  <2>1. rm' \in Managers /\ restart' \in [canceled : BOOLEAN, code : Codes]
    BY <1>7, ZenonT(60) DEF Kill, CancelRestart
  <2> QED
    BY <2>1, <1>7 DEF Kill
<1>8. ASSUME NEW t \in Threads, Signal(t) PROVE Goal
  BY <1>8 DEF Signal, Goto, Emit
<1>9. ASSUME NEW t \in Threads, Waited(t) PROVE Goal
  BY <1>9 DEF Waited, Killed, Unlocked, Goto
<1>10. ASSUME NEW t \in Threads, Rm(t) PROVE Goal
  BY <1>10 DEF Rm, Unlocked, Goto
<1>11. ASSUME NEW t \in Threads, RmDead(t) PROVE Goal
  BY <1>11 DEF RmDead, Unlocked, Goto, SaveOrFail, SaveFile
<1>12. ASSUME NEW t \in Threads, RmLayer(t) PROVE Goal
  <2>1. layer' \in BOOLEAN
    BY <1>12 DEF RmLayer
  <2> QED
    BY <2>1, <1>12 DEF RmLayer
<1>13. ASSUME NEW t \in Threads, RmFiles(t) PROVE Goal
  <2>1. registered' \in BOOLEAN
    BY <1>13 DEF RmFiles
  <2> QED
    BY <2>1, <1>13 DEF RmFiles
<1>14. ASSUME NEW t \in Threads, RmEnd(t) PROVE Goal
  BY <1>14 DEF RmEnd, Unlocked, Goto
<1>15. ASSUME Pause PROVE Goal
  BY <1>15 DEF Pause, Unlocked, Goto, Emit
<1>16. ASSUME Unpause PROVE Goal
  BY <1>16 DEF Unpause, Unlocked, Goto, Emit
<1>17. ASSUME Paused PROVE Goal
  BY <1>17 DEF Paused, Goto, Save, SaveFile
<1>18. ASSUME EventDone PROVE Goal
  BY <1>18 DEF EventDone, Goto
<1>19. ASSUME EventStart PROVE Goal
  BY <1>19 DEF EventStart, Handles, Unlocked, Save, SaveFile, SetRunning
<1>20. ASSUME EventPaused PROVE Goal
  BY <1>20 DEF EventPaused, Handles, Unlocked, Save, SaveFile
<1>21. ASSUME EventExit PROVE Goal
  BY <1>21 DEF EventExit, Handles, Goto
<1>22. ASSUME ExitDeletes PROVE Goal
  BY <1>22 DEF ExitDeletes, Unlocked, Goto, DeletedTask
<1>23. ASSUME ExitDecides PROVE Goal
  <2>0. [canceled |-> FALSE, code |-> Head(queue).code] \in [canceled : BOOLEAN, code : Codes]
    BY <1>23 DEF ExitDecides
  <2>1. rm' \in Managers /\ restart' \in [canceled : BOOLEAN, code : Codes]
    <3> HIDE DEF Managers, Founds
    <3> QED
      BY <2>0, <1>23 DEF ExitDecides, Activate
  <2>2. object' \in BOOLEAN
    BY <1>23 DEF ExitDecides, DeletedObject
  <2> QED
    BY <2>1, <2>2, <1>23 DEF ExitDecides
<1>24. ASSUME ExitSaves PROVE Goal
  BY <1>24 DEF ExitSaves, SaveFile
<1>25. ASSUME TimerFires PROVE Goal
  BY <1>25, ZenonT(60) DEF TimerFires
<1>26. ASSUME BackoffEnds PROVE Goal
  BY <1>26, ZenonT(60) DEF BackoffEnds, Goto
<1>27. ASSUME BackoffCanceled PROVE Goal
  BY <1>27 DEF BackoffCanceled, Goto
<1>28. ASSUME StartupDone PROVE Goal
  BY <1>28 DEF StartupDone, Goto
<1>29. ASSUME GiveUp PROVE Goal
  BY <1>29 DEF GiveUp, Unlocked, Goto, Save, SaveFile, SetStopped
<1>30. ASSUME NEW code \in scenario.ExitCodes, ProcessExits(code) PROVE Goal
  BY <1>30 DEF ProcessExits, Emit
<1>31. ASSUME Crash PROVE Goal
  BY <1>31 DEF Crash, Down
<1>32. ASSUME Shutdown PROVE Goal
  BY <1>32 DEF Shutdown, Goto
<1>33. ASSUME ShutdownEnds PROVE Goal
  BY <1>33 DEF ShutdownEnds, Down
<1>34. ASSUME Loads PROVE Goal
  BY <1>34 DEF Loads, Goto
<1>35. ASSUME Registers PROVE Goal
  BY <1>35 DEF Registers, SaveFile, Goto
<1>36. ASSUME Restores PROVE Goal
  <2>1. found' \in Founds
    <3>1. \A a, b \in BOOLEAN : [NotFound EXCEPT !.process = a, !.alive = b] \in Founds
      OBVIOUS
    <3>2. (object /\ Alive) \in BOOLEAN
      OBVIOUS
    <3> HIDE DEF Founds, NotFound, Alive
    <3> QED
      BY <3>1, <3>2, <1>36 DEF Restores
  <2> QED
    BY <2>1, <1>36 DEF Restores
<1>37. ASSUME RestoreFails PROVE Goal
  BY <1>37 DEF RestoreFails, Goto
<1>38. ASSUME Restored PROVE Goal
  BY <1>38 DEF Restored, Goto, DeletedTask
<1>39. ASSUME Inspects PROVE Goal
  <2>1. rm' \in Managers /\ restart' \in [canceled : BOOLEAN, code : Codes]
    BY <1>39, ZenonT(60) DEF Inspects, CancelRestart
  <2> QED
    BY <2>1, <1>39 DEF Inspects
<1>40. ASSUME Status PROVE Goal
  <2>1. [found EXCEPT !.alive = FALSE] \in Founds
    OBVIOUS
  <2> HIDE DEF Founds, Managers
  <2> QED
    BY <2>1, <1>40 DEF Status
<1>41. ASSUME StatusFails PROVE Goal
  BY <1>41 DEF StatusFails, Goto
<1>42. ASSUME MarksStopped PROVE Goal
  BY <1>42 DEF MarksStopped, Unlocked, Goto, Save, SaveFile, SetStopped, DeletedObject
<1>43. ASSUME ResetsManager PROVE Goal
  BY <1>43 DEF ResetsManager, Goto, ResetRestartManager, CanceledRestart
<1>44. ASSUME Lists PROVE Goal
  <2>1. \A l \in {"start", "rm", "ready"} : [found EXCEPT !.list = l] \in Founds
    OBVIOUS
  <2>2. [rm EXCEPT !.active = TRUE, !.by = "restore"] \in Managers
    OBVIOUS
  <2> HIDE DEF Founds, Managers
  <2> QED
    BY <2>1, <2>2, <1>44 DEF Lists, Activate
<1>45. ASSUME Unmarks PROVE Goal
  BY <1>45 DEF Unmarks, Unlocked, Goto, SaveOrFail, SaveFile
<1>46. ASSUME Ready PROVE Goal
  BY <1>46 DEF Ready, Goto
<1> HIDE DEF Goal
<1>z. Goal
  BY <1>1, <1>2, <1>3, <1>4, <1>5, <1>6, <1>7, <1>8, <1>9, <1>10, <1>11, <1>12, <1>13, <1>14,
        <1>15, <1>16, <1>17, <1>18, <1>19, <1>20, <1>21, <1>22, <1>23, <1>24, <1>25, <1>26,
        <1>27, <1>28, <1>29, <1>30, <1>31, <1>32, <1>33, <1>34, <1>35, <1>36, <1>37, <1>38,
        <1>39, <1>40, <1>41, <1>42, <1>43, <1>44, <1>45, <1>46 DEF Next, Start, Removal, Event,
        Backoff, RestoreStep
<1> QED
  BY <1>z DEF Goal

\* The container lock is held exactly where the code holds it.
LEMMA LockKept ==
    ASSUME IInv, Next
    PROVE  lock' \in Threads \cup {Free} /\ \A t \in Threads : lock' = t <=> pc'[t] \in HoldsLock
<1> USE ThreadFacts DEF bounds, history, outside, manager
<1>0. TypeOK /\ ControlOK /\ TaskOK /\ scenario \in Scenarios
  BY DEF IInv, TypeOK
<1>s. /\ scenario.MaxStarts \in Nat /\ scenario.ExitCodes \subseteq Nat
      /\ 0 \in Pids /\ {0, 128, 255} \subseteq Codes /\ scenario.ExitCodes \subseteq Codes
      /\ Pids \subseteq Nat
  BY <1>0, ScenarioFacts
<1>t. /\ lock \in Threads \cup {Free} /\ \A t \in Threads : lock = t <=> pc[t] \in HoldsLock
      /\ LabelsOK
  BY <1>0 DEF TypeOK, ControlOK
<1> USE <1>t, EndsAre DEF HoldsLock, LabelsOK
<1> DEFINE Goal == lock' \in Threads \cup {Free} /\ \A t \in Threads : lock' = t <=> pc'[t] \in HoldsLock
<1>1. ASSUME NEW op \in AllOps, Request(op) PROVE Goal
  BY <1>1 DEF Request, AllOps, Goto
<1>2. ASSUME NEW t \in Threads, StartRefused(t) PROVE Goal
  BY <1>2 DEF StartRefused, StartFailed, Resets, Unlocked, Goto
<1>3. ASSUME NEW t \in Threads, Creates(t) PROVE Goal
  BY <1>3 DEF Creates, Starts, Resets, Unlocked, Goto, ForStart, DeletedTask,
        ResetRestartManager, CanceledRestart
<1>4. ASSUME NEW t \in Threads, StartFails(t) PROVE Goal
  BY <1>4 DEF StartFails, Starts, StartFailed, Resets, Unlocked, Goto, ForStart, Save, SaveFile,
        StartFailure, DeletedObject, ResetRestartManager, CanceledRestart
<1>5. ASSUME NEW t \in Threads, StartsTask(t) PROVE Goal
  BY <1>5 DEF StartsTask, Goto, Emit, NoTask
<1>6. ASSUME NEW t \in Threads, Started(t) PROVE Goal
  BY <1>6 DEF Started, Goto, Save, SaveFile, SetRunning
<1>7. ASSUME NEW t \in Threads, Kill(t) PROVE Goal
  BY <1>7 DEF Kill, Killed, Unlocked, Goto, Save, SaveFile, CancelRestart, CanceledRestart
<1>8. ASSUME NEW t \in Threads, Signal(t) PROVE Goal
  BY <1>8 DEF Signal, Goto, Emit
<1>9. ASSUME NEW t \in Threads, Waited(t) PROVE Goal
  BY <1>9 DEF Waited, Killed, Unlocked, Goto
<1>10. ASSUME NEW t \in Threads, Rm(t) PROVE Goal
  BY <1>10 DEF Rm, Unlocked, Goto
<1>11. ASSUME NEW t \in Threads, RmDead(t) PROVE Goal
  BY <1>11 DEF RmDead, Unlocked, Goto, SaveOrFail, SaveFile
<1>12. ASSUME NEW t \in Threads, RmLayer(t) PROVE Goal
  BY <1>12 DEF RmLayer, Goto
<1>13. ASSUME NEW t \in Threads, RmFiles(t) PROVE Goal
  BY <1>13 DEF RmFiles, Goto
<1>14. ASSUME NEW t \in Threads, RmEnd(t) PROVE Goal
  BY <1>14 DEF RmEnd, Unlocked, Goto
<1>15. ASSUME Pause PROVE Goal
  BY <1>15 DEF Pause, Unlocked, Goto, Emit
<1>16. ASSUME Unpause PROVE Goal
  BY <1>16 DEF Unpause, Unlocked, Goto, Emit
<1>17. ASSUME Paused PROVE Goal
  BY <1>17 DEF Paused, Goto, Save, SaveFile
<1>18. ASSUME EventDone PROVE Goal
  BY <1>18 DEF EventDone, Goto
<1>19. ASSUME EventStart PROVE Goal
  BY <1>19 DEF EventStart, Handles, Unlocked, Save, SaveFile, SetRunning
<1>20. ASSUME EventPaused PROVE Goal
  BY <1>20 DEF EventPaused, Handles, Unlocked, Save, SaveFile
<1>21. ASSUME EventExit PROVE Goal
  BY <1>21 DEF EventExit, Handles, Goto
<1>22. ASSUME ExitDeletes PROVE Goal
  BY <1>22 DEF ExitDeletes, Unlocked, Goto, DeletedTask
<1>23. ASSUME ExitDecides PROVE Goal
  BY <1>23 DEF ExitDecides, Goto, ShouldRestart, SetRestarting, SetStopped, Activate,
     DeletedObject
<1>24. ASSUME ExitSaves PROVE Goal
  BY <1>24 DEF ExitSaves, SaveFile
<1>25. ASSUME TimerFires PROVE Goal
  BY <1>25 DEF TimerFires
<1>26. ASSUME BackoffEnds PROVE Goal
  BY <1>26 DEF BackoffEnds, Goto
<1>27. ASSUME BackoffCanceled PROVE Goal
  BY <1>27 DEF BackoffCanceled, Goto
<1>28. ASSUME StartupDone PROVE Goal
  BY <1>28 DEF StartupDone, Goto
<1>29. ASSUME GiveUp PROVE Goal
  BY <1>29 DEF GiveUp, Unlocked, Goto, Save, SaveFile, SetStopped
<1>30. ASSUME NEW code \in scenario.ExitCodes, ProcessExits(code) PROVE Goal
  BY <1>30 DEF ProcessExits, Emit
<1>31. ASSUME Crash PROVE Goal
  BY <1>31 DEF Crash, Down
<1>32. ASSUME Shutdown PROVE Goal
  BY <1>32 DEF Shutdown, Goto
<1>33. ASSUME ShutdownEnds PROVE Goal
  BY <1>33 DEF ShutdownEnds, Down
<1>34. ASSUME Loads PROVE Goal
  <2>1. pc[Main] = "idle" /\ pc' \in {[pc EXCEPT ![Main] = "register"], [pc EXCEPT ![Main] = "ready"]}
    BY <1>0, <1>34 DEF Loads, Goto, ControlOK, PhaseOK
  <2> QED
    BY <2>1, <1>34 DEF Loads
<1>35. ASSUME Registers PROVE Goal
  BY <1>35 DEF Registers, SaveFile, Goto
<1>36. ASSUME Restores PROVE Goal
  BY <1>36 DEF Restores, Goto
<1>37. ASSUME RestoreFails PROVE Goal
  BY <1>37 DEF RestoreFails, Goto
<1>38. ASSUME Restored PROVE Goal
  BY <1>38 DEF Restored, Goto, DeletedTask
<1>39. ASSUME Inspects PROVE Goal
  BY <1>39 DEF Inspects, Unlocked, Goto, CancelRestart, CanceledRestart
<1>40. ASSUME Status PROVE Goal
  BY <1>40 DEF Status, Unlocked, Goto, Save, SaveFile
<1>41. ASSUME StatusFails PROVE Goal
  BY <1>41 DEF StatusFails, Goto
<1>42. ASSUME MarksStopped PROVE Goal
  BY <1>42 DEF MarksStopped, Unlocked, Goto, Save, SaveFile, SetStopped, DeletedObject
<1>43. ASSUME ResetsManager PROVE Goal
  BY <1>43 DEF ResetsManager, Goto, ResetRestartManager, CanceledRestart
<1>44. ASSUME Lists PROVE Goal
  BY <1>44 DEF Lists, Goto, ShouldRestart, Activate
<1>45. ASSUME Unmarks PROVE Goal
  <2>1. found.list \in {"none", "start", "rm", "ready"}
    BY <1>0 DEF TypeOK
  <2> QED
    BY <2>1, <1>45 DEF Unmarks, Goto
<1>46. ASSUME Ready PROVE Goal
  BY <1>46 DEF Ready, Goto
<1> HIDE DEF Goal
<1>z. Goal
  BY <1>1, <1>2, <1>3, <1>4, <1>5, <1>6, <1>7, <1>8, <1>9, <1>10, <1>11, <1>12, <1>13, <1>14,
        <1>15, <1>16, <1>17, <1>18, <1>19, <1>20, <1>21, <1>22, <1>23, <1>24, <1>25, <1>26,
        <1>27, <1>28, <1>29, <1>30, <1>31, <1>32, <1>33, <1>34, <1>35, <1>36, <1>37, <1>38,
        <1>39, <1>40, <1>41, <1>42, <1>43, <1>44, <1>45, <1>46 DEF Next, Start, Removal, Event,
        Backoff, RestoreStep
<1> QED
  BY <1>z DEF Goal

\* What is loaded and registered, through every step.
LEMMA LoadedKept ==
    ASSUME IInv, Next
    PROVE  LoadedOK'
<1> USE ThreadFacts DEF bounds, history, outside, manager
<1>0. TypeOK /\ ControlOK /\ LoadedOK /\ DeadOK
  BY DEF IInv
<1>t. /\ c \in Containers /\ disk \in Containers \cup {Gone} /\ registered \in BOOLEAN
      /\ up \in {"down", "restoring", "up", "stopping"} /\ layer \in BOOLEAN
      /\ lock \in Threads \cup {Free} /\ \A t \in Threads : lock = t <=> pc[t] \in HoldsLock
      /\ found.list \in {"none", "start", "rm", "ready"}
  BY <1>0 DEF TypeOK
<1>l. LabelsOK /\ PhaseOK /\ RolesOK
  BY <1>0 DEF ControlOK
<1>k. LabelsOK' /\ PhaseOK' /\ RolesOK'
  BY LabelsKept, PhaseKept, RolesKept
<1>d. LoadedOK /\ DeadOK
  BY <1>0
<1>g. \A r \in Containers : r # Gone
  BY DEF Containers, Gone
<1>r. c' \in Containers /\ disk' \in Containers \cup {Gone} /\ c' # Gone
  BY <1>g, RecordTypes
<1> USE <1>l, <1>t, <1>d, <1>r DEF LabelsOK, PhaseOK, LoadedOK, Quiet, Labels, BootLabels,
   ApiLabels, MonitorLabels,
           RestarterLabels, RestoreLabels, StartLabels, KillLabels, RmLabels, HoldsLock,
              DeadOK, Containers
<1>1. ASSUME NEW op \in AllOps, Request(op) PROVE LoadedOK'
  BY <1>1, EndsAre DEF Request, AllOps, Goto
<1>2. ASSUME NEW t \in Threads, StartRefused(t) PROVE LoadedOK'
  BY <1>2, EndsAre DEF StartRefused, StartFailed, Resets, Unlocked, Goto
<1>3. ASSUME NEW t \in Threads, Creates(t) PROVE LoadedOK'
  BY <1>3, EndsAre DEF Creates, Starts, Resets, Unlocked, Goto, ForStart, DeletedTask,
        ResetRestartManager, CanceledRestart
<1>4. ASSUME NEW t \in Threads, StartFails(t) PROVE LoadedOK'
  BY <1>4, EndsAre DEF StartFails, Starts, StartFailed, Resets, Unlocked, Goto, ForStart, Save,
        SaveFile, StartFailure, DeletedObject, ResetRestartManager, CanceledRestart
<1>5. ASSUME NEW t \in Threads, StartsTask(t) PROVE LoadedOK'
  BY <1>5, EndsAre DEF StartsTask, Goto, Emit, NoTask
<1>6. ASSUME NEW t \in Threads, Started(t) PROVE LoadedOK'
  BY <1>6, EndsAre DEF Started, Goto, Save, SaveFile, SetRunning
<1>7. ASSUME NEW t \in Threads, Kill(t) PROVE LoadedOK'
  <2>1. /\ c'.Dead = c.Dead /\ c'.RemovalInProgress = c.RemovalInProgress
        /\ (disk = Gone => disk' = Gone) /\ (disk # Gone => disk' = c' \/ UNCHANGED <<c, disk>>)
    BY <1>7, <1>t, KillSaved DEF SaveFile
  <2>2. /\ pc' \in {[pc EXCEPT ![t] = Killed(t)], [pc EXCEPT ![t] = "wait"], [pc EXCEPT ![t] = "signal"]}
        /\ pc[t] = "kill" /\ UNCHANGED <<up, registered, layer, removes, gaveUp, queue>>
    BY <1>7 DEF Kill, Goto
  <2> HIDE DEF Containers
  <2> QED
    BY <2>1, <2>2, EndsAre DEF Killed
<1>8. ASSUME NEW t \in Threads, Signal(t) PROVE LoadedOK'
  BY <1>8, EndsAre DEF Signal, Goto, Emit
<1>9. ASSUME NEW t \in Threads, Waited(t) PROVE LoadedOK'
  BY <1>9, EndsAre DEF Waited, Killed, Unlocked, Goto
<1>10. ASSUME NEW t \in Threads, Rm(t) PROVE LoadedOK'
  BY <1>10, EndsAre DEF Rm, Unlocked, Goto
<1>11. ASSUME NEW t \in Threads, RmDead(t) PROVE LoadedOK'
  BY <1>11, EndsAre DEF RmDead, Unlocked, Goto, SaveOrFail, SaveFile
<1>12. ASSUME NEW t \in Threads, RmLayer(t) PROVE LoadedOK'
  BY <1>12, EndsAre DEF RmLayer, Goto
<1>13. ASSUME NEW t \in Threads, RmFiles(t) PROVE LoadedOK'
  BY <1>13, EndsAre DEF RmFiles, Goto
<1>14. ASSUME NEW t \in Threads, RmEnd(t) PROVE LoadedOK'
  BY <1>14, EndsAre DEF RmEnd, Unlocked, Goto
<1>15. ASSUME Pause PROVE LoadedOK'
  BY <1>15, EndsAre DEF Pause, Unlocked, Goto, Emit
<1>16. ASSUME Unpause PROVE LoadedOK'
  BY <1>16, EndsAre DEF Unpause, Unlocked, Goto, Emit
<1>17. ASSUME Paused PROVE LoadedOK'
  BY <1>17, EndsAre DEF Paused, Goto, Save, SaveFile
<1>18. ASSUME EventDone PROVE LoadedOK'
  BY <1>18, EndsAre DEF EventDone, Goto
<1>19. ASSUME EventStart PROVE LoadedOK'
  BY <1>19, EndsAre DEF EventStart, Handles, Unlocked, Save, SaveFile, SetRunning
<1>20. ASSUME EventPaused PROVE LoadedOK'
  BY <1>20, EndsAre DEF EventPaused, Handles, Unlocked, Save, SaveFile
<1>21. ASSUME EventExit PROVE LoadedOK'
  BY <1>21, EndsAre DEF EventExit, Handles, Goto
<1>22. ASSUME ExitDeletes PROVE LoadedOK'
  BY <1>22, EndsAre DEF ExitDeletes, Unlocked, Goto, DeletedTask
<1>23. ASSUME ExitDecides PROVE LoadedOK'
  <2>1. /\ pc' = [pc EXCEPT ![Monitor] = "save"] /\ pc[Monitor] = "decide"
        /\ UNCHANGED <<up, registered, disk, layer, lock, removes, gaveUp, queue>>
    BY <1>23 DEF ExitDecides, Goto
  <2>2. c'.Dead = c.Dead /\ c'.RemovalInProgress = c.RemovalInProgress
    BY <1>23, <1>t, RestartingFields, StoppedFields DEF ExitDecides
  <2> HIDE DEF Containers
  <2> QED
    BY <2>1, <2>2
<1>24. ASSUME ExitSaves PROVE LoadedOK'
  BY <1>24, EndsAre DEF ExitSaves, SaveFile
<1>25. ASSUME TimerFires PROVE LoadedOK'
  BY <1>25, EndsAre DEF TimerFires
<1>26. ASSUME BackoffEnds PROVE LoadedOK'
  BY <1>26, EndsAre DEF BackoffEnds, Goto
<1>27. ASSUME BackoffCanceled PROVE LoadedOK'
  BY <1>27, EndsAre DEF BackoffCanceled, Goto
<1>28. ASSUME StartupDone PROVE LoadedOK'
  BY <1>28, EndsAre DEF StartupDone, Goto
<1>29. ASSUME GiveUp PROVE LoadedOK'
  BY <1>29, EndsAre DEF GiveUp, Unlocked, Goto, Save, SaveFile, SetStopped
<1>30. ASSUME NEW code \in scenario.ExitCodes, ProcessExits(code) PROVE LoadedOK'
  BY <1>30, EndsAre DEF ProcessExits, Emit
<1>31. ASSUME Crash PROVE LoadedOK'
  BY <1>31, EndsAre DEF Crash, Down
<1>32. ASSUME Shutdown PROVE LoadedOK'
  BY <1>32, EndsAre DEF Shutdown, Goto
<1>33. ASSUME ShutdownEnds PROVE LoadedOK'
  BY <1>33, EndsAre DEF ShutdownEnds, Down
<1>34. ASSUME Loads PROVE LoadedOK'
  BY <1>34, EndsAre DEF Loads, Goto
<1>35. ASSUME Registers PROVE LoadedOK'
  BY <1>35, EndsAre DEF Registers, SaveFile, Goto
<1>36. ASSUME Restores PROVE LoadedOK'
  BY <1>36, EndsAre DEF Restores, Goto
<1>37. ASSUME RestoreFails PROVE LoadedOK'
  BY <1>37, EndsAre DEF RestoreFails, Goto
<1>38. ASSUME Restored PROVE LoadedOK'
  BY <1>38, EndsAre DEF Restored, Goto, DeletedTask
<1>39. ASSUME Inspects PROVE LoadedOK'
  BY <1>39, EndsAre DEF Inspects, Unlocked, Goto, CancelRestart, CanceledRestart
<1>40. ASSUME Status PROVE LoadedOK'
  BY <1>40, EndsAre, ZenonT(60) DEF Status, Unlocked, Goto, Save, SaveFile
<1>41. ASSUME StatusFails PROVE LoadedOK'
  BY <1>41, EndsAre DEF StatusFails, Goto
<1>42. ASSUME MarksStopped PROVE LoadedOK'
  BY <1>42, EndsAre DEF MarksStopped, Unlocked, Goto, Save, SaveFile, SetStopped, DeletedObject
<1>43. ASSUME ResetsManager PROVE LoadedOK'
  BY <1>43, EndsAre DEF ResetsManager, Goto, ResetRestartManager, CanceledRestart
<1>44. ASSUME Lists PROVE LoadedOK'
  BY <1>44, EndsAre DEF Lists, Goto, ShouldRestart, Activate
<1>45. ASSUME Unmarks PROVE LoadedOK'
  <2>1. /\ pc' = [pc EXCEPT ![Main] = found.list] /\ pc[Main] = "unmark" /\ up = "restoring"
        /\ UNCHANGED <<up, registered, layer, removes, gaveUp, queue>>
    BY <1>45 DEF Unmarks, Goto
  <2>2. CASE c.RemovalInProgress
    <3>0. SaveOrFail([c EXCEPT !.RemovalInProgress = FALSE, !.Dead = TRUE])
      BY <2>2, <1>45 DEF Unmarks
    <3>2. ~c'.RemovalInProgress /\ c'.Dead
      BY <3>0, UnmarkFields DEF SaveOrFail
    <3>3. /\ (disk = Gone => disk' = Gone)
          /\ disk' \in {disk, c'} /\ (disk # Gone => disk' = c' \/ "checkpoint" \in scenario.Faults)
      BY <3>0 DEF SaveOrFail, SaveFile
    <3>4. UNCHANGED scenario
      BY <1>45 DEF Unmarks, bounds
    <3> HIDE DEF Containers
    <3> QED
      BY <2>1, <3>2, <3>3, <3>4
  <2>3. CASE ~c.RemovalInProgress
    <3> HIDE DEF Containers
    <3> QED
      BY <2>1, <2>3, <1>45 DEF Unmarks
  <2> QED
    BY <2>2, <2>3
<1>46. ASSUME Ready PROVE LoadedOK'
  BY <1>46, EndsAre DEF Ready, Goto
<1> QED
  BY <1>1, <1>2, <1>3, <1>4, <1>5, <1>6, <1>7, <1>8, <1>9, <1>10, <1>11, <1>12, <1>13, <1>14,
        <1>15, <1>16, <1>17, <1>18, <1>19, <1>20, <1>21, <1>22, <1>23, <1>24, <1>25, <1>26,
        <1>27, <1>28, <1>29, <1>30, <1>31, <1>32, <1>33, <1>34, <1>35, <1>36, <1>37, <1>38,
        <1>39, <1>40, <1>41, <1>42, <1>43, <1>44, <1>45, <1>46 DEF Next, Start, Removal, Event,
        Backoff, RestoreStep

\* What is dead or being removed, through every step.
LEMMA DeadKept ==
    ASSUME IInv, Next
    PROVE  DeadOK'
<1> USE ThreadFacts DEF bounds, history, outside, manager
<1>0. TypeOK /\ ControlOK /\ LoadedOK /\ DeadOK
  BY DEF IInv
<1>t. /\ c \in Containers /\ disk \in Containers \cup {Gone} /\ registered \in BOOLEAN
      /\ up \in {"down", "restoring", "up", "stopping"} /\ layer \in BOOLEAN
      /\ lock \in Threads \cup {Free} /\ \A t \in Threads : lock = t <=> pc[t] \in HoldsLock
      /\ found.list \in {"none", "start", "rm", "ready"}
  BY <1>0 DEF TypeOK
<1>l. LabelsOK /\ PhaseOK /\ RolesOK
  BY <1>0 DEF ControlOK
<1>k. LabelsOK' /\ PhaseOK' /\ RolesOK'
  BY LabelsKept, PhaseKept, RolesKept
<1>d. LoadedOK /\ DeadOK
  BY <1>0
<1>g. \A r \in Containers : r # Gone
  BY DEF Containers, Gone
<1>r. c' \in Containers /\ disk' \in Containers \cup {Gone} /\ c' # Gone
  BY <1>g, RecordTypes
<1> USE <1>l, <1>t, <1>d, <1>r DEF LabelsOK, PhaseOK, LoadedOK, Quiet, Labels, BootLabels,
   ApiLabels, MonitorLabels,
           RestarterLabels, RestoreLabels, StartLabels, KillLabels, RmLabels, HoldsLock,
              DeadOK, RolesOK, HalfRemovedIsDead, Containers
<1>1. ASSUME NEW op \in AllOps, Request(op) PROVE DeadOK'
  BY <1>1, EndsAre DEF Request, AllOps, Goto
<1>2. ASSUME NEW t \in Threads, StartRefused(t) PROVE DeadOK'
  BY <1>2, EndsAre DEF StartRefused, StartFailed, Resets, Unlocked, Goto
<1>3. ASSUME NEW t \in Threads, Creates(t) PROVE DeadOK'
  BY <1>3, EndsAre DEF Creates, Starts, Resets, Unlocked, Goto, ForStart, DeletedTask,
        ResetRestartManager, CanceledRestart
<1>4. ASSUME NEW t \in Threads, StartFails(t) PROVE DeadOK'
  <2>1. /\ c'.Dead = c.Dead /\ c'.RemovalInProgress = c.RemovalInProgress
        /\ (disk = Gone => disk' = Gone) /\ (disk # Gone => disk' = c')
    BY <1>4, <1>t, FailureSaved DEF SaveFile
  <2>2. /\ pc' = [pc EXCEPT ![t] = IF scenario.AutoRemove THEN "rm" ELSE StartFailed(t)]
        /\ pc[t] \in {"start", "created"}
        /\ UNCHANGED <<up, registered, layer, removes, gaveUp, queue>>
    BY <1>4 DEF StartFails, Starts, Goto
  <2> HIDE DEF Containers
  <2> QED
    BY <2>1, <2>2, EndsAre DEF StartFailed
<1>5. ASSUME NEW t \in Threads, StartsTask(t) PROVE DeadOK'
  BY <1>5, EndsAre DEF StartsTask, Goto, Emit, NoTask
<1>6. ASSUME NEW t \in Threads, Started(t) PROVE DeadOK'
  BY <1>6, EndsAre DEF Started, Goto, Save, SaveFile, SetRunning
<1>7. ASSUME NEW t \in Threads, Kill(t) PROVE DeadOK'
  BY <1>7, EndsAre DEF Kill, Killed, Unlocked, Goto, Save, SaveFile, CancelRestart,
     CanceledRestart
<1>8. ASSUME NEW t \in Threads, Signal(t) PROVE DeadOK'
  BY <1>8, EndsAre DEF Signal, Goto, Emit
<1>9. ASSUME NEW t \in Threads, Waited(t) PROVE DeadOK'
  BY <1>9, EndsAre DEF Waited, Killed, Unlocked, Goto
<1>10. ASSUME NEW t \in Threads, Rm(t) PROVE DeadOK'
  BY <1>10, EndsAre DEF Rm, Unlocked, Goto
<1>11. ASSUME NEW t \in Threads, RmDead(t) PROVE DeadOK'
  BY <1>11, EndsAre DEF RmDead, Unlocked, Goto, SaveOrFail, SaveFile
<1>12. ASSUME NEW t \in Threads, RmLayer(t) PROVE DeadOK'
  BY <1>12, EndsAre DEF RmLayer, Goto
<1>13. ASSUME NEW t \in Threads, RmFiles(t) PROVE DeadOK'
  BY <1>13, EndsAre DEF RmFiles, Goto
<1>14. ASSUME NEW t \in Threads, RmEnd(t) PROVE DeadOK'
  BY <1>14, EndsAre DEF RmEnd, Unlocked, Goto
<1>15. ASSUME Pause PROVE DeadOK'
  BY <1>15, EndsAre DEF Pause, Unlocked, Goto, Emit
<1>16. ASSUME Unpause PROVE DeadOK'
  BY <1>16, EndsAre DEF Unpause, Unlocked, Goto, Emit
<1>17. ASSUME Paused PROVE DeadOK'
  BY <1>17, EndsAre DEF Paused, Goto, Save, SaveFile
<1>18. ASSUME EventDone PROVE DeadOK'
  BY <1>18, EndsAre DEF EventDone, Goto
<1>19. ASSUME EventStart PROVE DeadOK'
  <2>1. /\ c'.Dead = c.Dead /\ c'.RemovalInProgress = c.RemovalInProgress
        /\ (disk = Gone => disk' = Gone) /\ (disk # Gone => disk' \in {c', disk})
    BY <1>19, <1>t, EventStartSaved DEF SaveFile
  <2>2. registered /\ UNCHANGED <<pc, up, registered, layer, lock, removes, gaveUp, scenario>>
    BY <1>19 DEF EventStart, Handles
  <2> HIDE DEF Containers
  <2> QED
    BY <2>1, <2>2
<1>20. ASSUME EventPaused PROVE DeadOK'
  BY <1>20, EndsAre DEF EventPaused, Handles, Unlocked, Save, SaveFile
<1>21. ASSUME EventExit PROVE DeadOK'
  BY <1>21, EndsAre DEF EventExit, Handles, Goto
<1>22. ASSUME ExitDeletes PROVE DeadOK'
  BY <1>22, EndsAre DEF ExitDeletes, Unlocked, Goto, DeletedTask
<1>23. ASSUME ExitDecides PROVE DeadOK'
  <2>1. /\ pc' = [pc EXCEPT ![Monitor] = "save"] /\ pc[Monitor] = "decide"
        /\ UNCHANGED <<up, registered, disk, layer, lock, removes, gaveUp, queue, scenario>>
    BY <1>23 DEF ExitDecides, Goto
  <2>2. c'.Dead = c.Dead /\ c'.RemovalInProgress = c.RemovalInProgress
    BY <1>23, <1>t, RestartingFields, StoppedFields, SMTT(30) DEF ExitDecides
  <2> HIDE DEF Containers
  <2> QED
    BY <2>1, <2>2
<1>24. ASSUME ExitSaves PROVE DeadOK'
  BY <1>24, EndsAre DEF ExitSaves, SaveFile
<1>25. ASSUME TimerFires PROVE DeadOK'
  BY <1>25, EndsAre DEF TimerFires
<1>26. ASSUME BackoffEnds PROVE DeadOK'
  BY <1>26, EndsAre DEF BackoffEnds, Goto
<1>27. ASSUME BackoffCanceled PROVE DeadOK'
  BY <1>27, EndsAre DEF BackoffCanceled, Goto
<1>28. ASSUME StartupDone PROVE DeadOK'
  BY <1>28, EndsAre DEF StartupDone, Goto
<1>29. ASSUME GiveUp PROVE DeadOK'
  BY <1>29, EndsAre DEF GiveUp, Unlocked, Goto, Save, SaveFile, SetStopped
<1>30. ASSUME NEW code \in scenario.ExitCodes, ProcessExits(code) PROVE DeadOK'
  BY <1>30, EndsAre DEF ProcessExits, Emit
<1>31. ASSUME Crash PROVE DeadOK'
  BY <1>31 DEF Crash, Down, NewContainer
<1>32. ASSUME Shutdown PROVE DeadOK'
  BY <1>32, EndsAre DEF Shutdown, Goto
<1>33. ASSUME ShutdownEnds PROVE DeadOK'
  BY <1>33 DEF ShutdownEnds, Down, NewContainer
<1>34. ASSUME Loads PROVE DeadOK'
  BY <1>34, EndsAre DEF Loads, Goto
<1>35. ASSUME Registers PROVE DeadOK'
  BY <1>35, EndsAre DEF Registers, SaveFile, Goto
<1>36. ASSUME Restores PROVE DeadOK'
  BY <1>36, EndsAre DEF Restores, Goto
<1>37. ASSUME RestoreFails PROVE DeadOK'
  BY <1>37, EndsAre DEF RestoreFails, Goto
<1>38. ASSUME Restored PROVE DeadOK'
  BY <1>38, EndsAre DEF Restored, Goto, DeletedTask
<1>39. ASSUME Inspects PROVE DeadOK'
  BY <1>39, EndsAre DEF Inspects, Unlocked, Goto, CancelRestart, CanceledRestart
<1>40. ASSUME Status PROVE DeadOK'
  BY <1>40, EndsAre DEF Status, Unlocked, Goto, Save, SaveFile
<1>41. ASSUME StatusFails PROVE DeadOK'
  BY <1>41, EndsAre DEF StatusFails, Goto
<1>42. ASSUME MarksStopped PROVE DeadOK'
  BY <1>42, EndsAre DEF MarksStopped, Unlocked, Goto, Save, SaveFile, SetStopped, DeletedObject
<1>43. ASSUME ResetsManager PROVE DeadOK'
  BY <1>43, EndsAre DEF ResetsManager, Goto, ResetRestartManager, CanceledRestart
<1>44. ASSUME Lists PROVE DeadOK'
  BY <1>44, EndsAre DEF Lists, Goto, ShouldRestart, Activate
<1>45. ASSUME Unmarks PROVE DeadOK'
  <2>1. /\ pc' = [pc EXCEPT ![Main] = found.list] /\ pc[Main] = "unmark" /\ up = "restoring"
        /\ UNCHANGED <<up, registered, layer, removes, gaveUp, queue>>
    BY <1>45 DEF Unmarks, Goto
  <2>2. CASE c.RemovalInProgress
    <3>0. SaveOrFail([c EXCEPT !.RemovalInProgress = FALSE, !.Dead = TRUE])
      BY <2>2, <1>45 DEF Unmarks
    <3>2. ~c'.RemovalInProgress /\ c'.Dead
      BY <3>0, UnmarkFields DEF SaveOrFail
    <3>3. /\ (disk = Gone => disk' = Gone)
          /\ disk' \in {disk, c'} /\ (disk # Gone => disk' = c' \/ "checkpoint" \in scenario.Faults)
      BY <3>0 DEF SaveOrFail, SaveFile
    <3>4. UNCHANGED scenario
      BY <1>45 DEF Unmarks, bounds
    <3> HIDE DEF Containers
    <3> QED
      BY <2>1, <3>2, <3>3, <3>4
  <2>3. CASE ~c.RemovalInProgress
    <3> HIDE DEF Containers
    <3> QED
      BY <2>1, <2>3, <1>45 DEF Unmarks
  <2> QED
    BY <2>2, <2>3
<1>46. ASSUME Ready PROVE DeadOK'
  BY <1>46, EndsAre DEF Ready, Goto
<1> QED
  BY <1>1, <1>2, <1>3, <1>4, <1>5, <1>6, <1>7, <1>8, <1>9, <1>10, <1>11, <1>12, <1>13, <1>14,
        <1>15, <1>16, <1>17, <1>18, <1>19, <1>20, <1>21, <1>22, <1>23, <1>24, <1>25, <1>26,
        <1>27, <1>28, <1>29, <1>30, <1>31, <1>32, <1>33, <1>34, <1>35, <1>36, <1>37, <1>38,
        <1>39, <1>40, <1>41, <1>42, <1>43, <1>44, <1>45, <1>46 DEF Next, Start, Removal, Event,
        Backoff, RestoreStep

\* The task and the count of the processes, through every step.
LEMMA TaskKept ==
    ASSUME IInv, Next
    PROVE  /\ recorded' \in 0 .. starts'
           /\ task'.state # "none" => object' /\ task'.pid = starts' /\ starts' > 0
           /\ task'.frozen => Alive'
           /\ \A t \in Threads :
                 /\ pc'[t] = "created" => object' /\ task' = NoTask /\ starts' < scenario.MaxStarts
                 /\ pc'[t] = "started" => task'.state # "none" /\ recorded' < starts'
<1> USE ThreadFacts DEF bounds, history, outside, manager
<1>0. TypeOK /\ ControlOK /\ LoadedOK /\ TaskOK /\ PidsOK /\ scenario \in Scenarios
  BY DEF IInv, TypeOK
<1>s. /\ UNCHANGED scenario /\ Pids' = Pids /\ Codes' = Codes /\ Containers' = Containers
      /\ Events' = Events /\ Tasks' = Tasks /\ scenario.MaxStarts \in Nat
  BY <1>0, ScenarioKept, ScenarioFacts, ZenonT(60) DEF Pids, Codes, Containers, Events, Tasks
<1>t. /\ task \in Tasks /\ queue \in Seq(Events) /\ lock \in Threads \cup {Free}
      /\ \A t \in Threads : lock = t <=> pc[t] \in HoldsLock
      /\ found.list \in {"none", "start", "rm", "ready"}
      /\ up \in {"down", "restoring", "up", "stopping"}
  BY <1>0 DEF TypeOK, Tasks
<1>p. starts' \in Pids /\ starts \in Nat /\ starts \in Pids
  BY <1>0, <1>s, TaskTypes, ScenarioFacts DEF TaskOK, Pids
<1>l. LabelsOK /\ PhaseOK /\ RolesOK
  BY <1>0 DEF ControlOK
<1>d. TaskOK /\ PidsOK
  BY <1>0
<1>h. queue # <<>> => Head(queue).pid \in 1 .. starts
  BY <1>t, <1>d, TailFacts DEF PidsOK
<1> USE <1>s, <1>l, <1>t, <1>p, <1>d, <1>h DEF LabelsOK, PhaseOK, TaskOK, HoldsLock, Alive,
   StartLabels, Tasks, NoTask
<1> DEFINE Goal == /\ recorded' \in 0 .. starts'
                   /\ task'.state # "none" => object' /\ task'.pid = starts' /\ starts' > 0
                   /\ task'.frozen => Alive'
                   /\ \A t \in Threads :
                         /\ pc'[t] = "created" => object' /\ task' = NoTask /\ starts' < scenario.MaxStarts
                         /\ pc'[t] = "started" => task'.state # "none" /\ recorded' < starts'
<1>1. ASSUME NEW op \in AllOps, Request(op) PROVE Goal
  BY <1>1, EndsAre DEF Request, AllOps, Goto
<1>2. ASSUME NEW t \in Threads, StartRefused(t) PROVE Goal
  BY <1>2, EndsAre DEF StartRefused, StartFailed, Resets, Unlocked, Goto
<1>3. ASSUME NEW t \in Threads, Creates(t) PROVE Goal
  BY <1>3, EndsAre DEF Creates, Starts, Resets, Unlocked, Goto, ForStart, DeletedTask,
        ResetRestartManager, CanceledRestart
<1>4. ASSUME NEW t \in Threads, StartFails(t) PROVE Goal
  <2>1. /\ pc' = [pc EXCEPT ![t] = IF scenario.AutoRemove THEN "rm" ELSE StartFailed(t)]
        /\ object' = DeletedObject(task) /\ UNCHANGED <<task, starts, recorded>>
        /\ (pc[t] = "start" /\ lock = Free) \/ pc[t] = "created"
    BY <1>4 DEF StartFails, Starts, Goto, Unlocked
  <2>2. (IF scenario.AutoRemove THEN "rm" ELSE StartFailed(t)) \notin {"created", "started"}
    <3>1. Ends(t) \in {"off", "ready", "handled", "idle"}
      BY EndsAre
    <3> QED
      BY <3>1 DEF StartFailed
  <2>3. \A u \in Threads : pc'[u] \in {"created", "started"} => FALSE
    BY <2>1, <2>2
  <2> QED
    BY <2>1, <2>3 DEF DeletedObject
<1>5. ASSUME NEW t \in Threads, StartsTask(t) PROVE Goal
  BY <1>5, EndsAre DEF StartsTask, Goto, Emit, NoTask
<1>6. ASSUME NEW t \in Threads, Started(t) PROVE Goal
  BY <1>6, EndsAre DEF Started, Goto, Save, SaveFile, SetRunning
<1>7. ASSUME NEW t \in Threads, Kill(t) PROVE Goal
  BY <1>7, EndsAre DEF Kill, Killed, Unlocked, Goto, Save, SaveFile, CancelRestart,
     CanceledRestart
<1>8. ASSUME NEW t \in Threads, Signal(t) PROVE Goal
  BY <1>8, EndsAre DEF Signal, Goto, Emit
<1>9. ASSUME NEW t \in Threads, Waited(t) PROVE Goal
  BY <1>9, EndsAre DEF Waited, Killed, Unlocked, Goto
<1>10. ASSUME NEW t \in Threads, Rm(t) PROVE Goal
  BY <1>10, EndsAre DEF Rm, Unlocked, Goto
<1>11. ASSUME NEW t \in Threads, RmDead(t) PROVE Goal
  BY <1>11, EndsAre DEF RmDead, Unlocked, Goto, SaveOrFail, SaveFile
<1>12. ASSUME NEW t \in Threads, RmLayer(t) PROVE Goal
  BY <1>12, EndsAre DEF RmLayer, Goto
<1>13. ASSUME NEW t \in Threads, RmFiles(t) PROVE Goal
  BY <1>13, EndsAre DEF RmFiles, Goto
<1>14. ASSUME NEW t \in Threads, RmEnd(t) PROVE Goal
  BY <1>14, EndsAre DEF RmEnd, Unlocked, Goto
<1>15. ASSUME Pause PROVE Goal
  BY <1>15, EndsAre DEF Pause, Unlocked, Goto, Emit
<1>16. ASSUME Unpause PROVE Goal
  BY <1>16, EndsAre DEF Unpause, Unlocked, Goto, Emit
<1>17. ASSUME Paused PROVE Goal
  BY <1>17, EndsAre DEF Paused, Goto, Save, SaveFile
<1>18. ASSUME EventDone PROVE Goal
  BY <1>18, EndsAre DEF EventDone, Goto
<1>19. ASSUME EventStart PROVE Goal
  BY <1>19, EndsAre DEF EventStart, Handles, Unlocked, Save, SaveFile, SetRunning
<1>20. ASSUME EventPaused PROVE Goal
  BY <1>20, EndsAre DEF EventPaused, Handles, Unlocked, Save, SaveFile
<1>21. ASSUME EventExit PROVE Goal
  BY <1>21, EndsAre DEF EventExit, Handles, Goto
<1>22. ASSUME ExitDeletes PROVE Goal
  BY <1>22, EndsAre DEF ExitDeletes, Unlocked, Goto, DeletedTask
<1>23. ASSUME ExitDecides PROVE Goal
  BY <1>23, EndsAre, ZenonT(60) DEF ExitDecides, Goto, ShouldRestart, SetRestarting, SetStopped, Activate,
        DeletedObject
<1>24. ASSUME ExitSaves PROVE Goal
  BY <1>24, EndsAre DEF ExitSaves, SaveFile
<1>25. ASSUME TimerFires PROVE Goal
  BY <1>25, EndsAre DEF TimerFires
<1>26. ASSUME BackoffEnds PROVE Goal
  BY <1>26, EndsAre DEF BackoffEnds, Goto
<1>27. ASSUME BackoffCanceled PROVE Goal
  BY <1>27, EndsAre DEF BackoffCanceled, Goto
<1>28. ASSUME StartupDone PROVE Goal
  BY <1>28, EndsAre DEF StartupDone, Goto
<1>29. ASSUME GiveUp PROVE Goal
  BY <1>29, EndsAre DEF GiveUp, Unlocked, Goto, Save, SaveFile, SetStopped
<1>30. ASSUME NEW code \in scenario.ExitCodes, ProcessExits(code) PROVE Goal
  BY <1>30, EndsAre DEF ProcessExits, Emit
<1>31. ASSUME Crash PROVE Goal
  BY <1>31, EndsAre DEF Crash, Down
<1>32. ASSUME Shutdown PROVE Goal
  BY <1>32, EndsAre DEF Shutdown, Goto
<1>33. ASSUME ShutdownEnds PROVE Goal
  BY <1>33, EndsAre DEF ShutdownEnds, Down
<1>34. ASSUME Loads PROVE Goal
  BY <1>34, EndsAre DEF Loads, Goto
<1>35. ASSUME Registers PROVE Goal
  BY <1>35, EndsAre DEF Registers, SaveFile, Goto
<1>36. ASSUME Restores PROVE Goal
  BY <1>36, EndsAre DEF Restores, Goto
<1>37. ASSUME RestoreFails PROVE Goal
  BY <1>37, EndsAre DEF RestoreFails, Goto
<1>38. ASSUME Restored PROVE Goal
  <2>1. \A t \in Threads : pc[t] \notin {"created", "started"}
    BY <1>38 DEF Restored, MonitorLabels, KillLabels, RmLabels
  <2>2. pc' = [pc EXCEPT ![Main] = "inspect"] /\ task' \in {task, NoTask}
        /\ UNCHANGED <<object, starts, recorded>>
    BY <1>38 DEF Restored, Goto, DeletedTask
  <2> QED
    BY <2>1, <2>2
<1>39. ASSUME Inspects PROVE Goal
  BY <1>39, EndsAre DEF Inspects, Unlocked, Goto, CancelRestart, CanceledRestart
<1>40. ASSUME Status PROVE Goal
  BY <1>40, EndsAre DEF Status, Unlocked, Goto, Save, SaveFile
<1>41. ASSUME StatusFails PROVE Goal
  BY <1>41, EndsAre DEF StatusFails, Goto
<1>42. ASSUME MarksStopped PROVE Goal
  BY <1>42, EndsAre DEF MarksStopped, Unlocked, Goto, Save, SaveFile, SetStopped, DeletedObject
<1>43. ASSUME ResetsManager PROVE Goal
  BY <1>43, EndsAre DEF ResetsManager, Goto, ResetRestartManager, CanceledRestart
<1>44. ASSUME Lists PROVE Goal
  BY <1>44, EndsAre DEF Lists, Goto, ShouldRestart, Activate
<1>45. ASSUME Unmarks PROVE Goal
  BY <1>45, EndsAre DEF Unmarks, Unlocked, Goto, SaveOrFail, SaveFile
<1>46. ASSUME Ready PROVE Goal
  BY <1>46, EndsAre DEF Ready, Goto
<1> HIDE DEF Goal
<1>z. Goal
  BY <1>1, <1>2, <1>3, <1>4, <1>5, <1>6, <1>7, <1>8, <1>9, <1>10, <1>11, <1>12, <1>13, <1>14,
        <1>15, <1>16, <1>17, <1>18, <1>19, <1>20, <1>21, <1>22, <1>23, <1>24, <1>25, <1>26,
        <1>27, <1>28, <1>29, <1>30, <1>31, <1>32, <1>33, <1>34, <1>35, <1>36, <1>37, <1>38,
        <1>39, <1>40, <1>41, <1>42, <1>43, <1>44, <1>45, <1>46 DEF Next, Start, Removal, Event,
        Backoff, RestoreStep
<1> QED
  BY <1>z DEF Goal

\* An event is one of a process that was started.
LEMMA PidsKept ==
    ASSUME IInv, Next
    PROVE  PidsOK'
<1> USE ThreadFacts DEF bounds, history, outside, manager
<1>0. TypeOK /\ ControlOK /\ LoadedOK /\ TaskOK /\ PidsOK /\ scenario \in Scenarios
  BY DEF IInv, TypeOK
<1>s. /\ UNCHANGED scenario /\ Pids' = Pids /\ Codes' = Codes /\ Containers' = Containers
      /\ Events' = Events /\ Tasks' = Tasks /\ scenario.MaxStarts \in Nat
  BY <1>0, ScenarioKept, ScenarioFacts, ZenonT(60) DEF Pids, Codes, Containers, Events, Tasks
<1>t. /\ task \in Tasks /\ queue \in Seq(Events) /\ lock \in Threads \cup {Free}
      /\ \A t \in Threads : lock = t <=> pc[t] \in HoldsLock
      /\ found.list \in {"none", "start", "rm", "ready"}
      /\ up \in {"down", "restoring", "up", "stopping"}
  BY <1>0 DEF TypeOK, Tasks
<1>p. starts' \in Pids /\ starts \in Nat /\ starts \in Pids
  BY <1>0, <1>s, TaskTypes, ScenarioFacts DEF TaskOK, Pids
<1>l. LabelsOK /\ PhaseOK /\ RolesOK
  BY <1>0 DEF ControlOK
<1>d. TaskOK /\ PidsOK
  BY <1>0
<1>h. queue # <<>> => Head(queue).pid \in 1 .. starts
  BY <1>t, <1>d, TailFacts DEF PidsOK
<1>e. ASSUME NEW type \in {"start", "exit", "paused", "resumed"}, NEW pid \in 1 .. starts',
             NEW code \in Codes, Emit(type, pid, code), starts' >= starts
      PROVE  PidsOK'
  <2>1. pid \in Pids /\ [type |-> type, pid |-> pid, code |-> code] \in Events
    BY <1>s, <1>p DEF Events, Pids
  <2> QED
    BY <1>e, <1>t, <1>d, <1>p, <2>1, QueueFacts DEF Emit, PidsOK
<1>w. queue' = Tail(queue) /\ queue # <<>> /\ starts' = starts => PidsOK'
  BY <1>t, <1>d, <1>p, TailFacts DEF PidsOK
<1>u. (queue' = queue \/ queue' = <<>>) /\ starts' >= starts => PidsOK'
  BY <1>d, <1>p DEF PidsOK
<1>c. {0} \subseteq Codes /\ scenario.ExitCodes \subseteq Codes
  BY <1>0, ScenarioFacts
<1> USE <1>s, <1>t, <1>p, <1>d, <1>c
<1>1. ASSUME NEW op \in AllOps, Request(op) PROVE PidsOK'
  BY <1>1, <1>u DEF Request
<1>2. ASSUME NEW t \in Threads, StartRefused(t) PROVE PidsOK'
  BY <1>2, <1>u DEF StartRefused
<1>3. ASSUME NEW t \in Threads, Creates(t) PROVE PidsOK'
  BY <1>3, <1>u DEF Creates
<1>4. ASSUME NEW t \in Threads, StartFails(t) PROVE PidsOK'
  BY <1>4, <1>u DEF StartFails
<1>5. ASSUME NEW t \in Threads, StartsTask(t) PROVE PidsOK'
  <2>1. starts' = starts + 1 /\ starts + 1 \in 1 .. starts' /\ 0 \in Codes
    BY <1>5 DEF StartsTask
  <2>2. Emit("start", starts + 1, 0)
    BY <1>5 DEF StartsTask
  <2> QED
    BY <2>1, <2>2, <1>e
<1>6. ASSUME NEW t \in Threads, Started(t) PROVE PidsOK'
  BY <1>6, <1>u DEF Started
<1>7. ASSUME NEW t \in Threads, Kill(t) PROVE PidsOK'
  BY <1>7, <1>u DEF Kill
<1>8. ASSUME NEW t \in Threads, Signal(t) PROVE PidsOK'
  BY <1>8, <1>e, <1>u DEF Signal, TaskOK, Alive
<1>9. ASSUME NEW t \in Threads, Waited(t) PROVE PidsOK'
  BY <1>9, <1>u DEF Waited
<1>10. ASSUME NEW t \in Threads, Rm(t) PROVE PidsOK'
  BY <1>10, <1>u DEF Rm
<1>11. ASSUME NEW t \in Threads, RmDead(t) PROVE PidsOK'
  BY <1>11, <1>u DEF RmDead
<1>12. ASSUME NEW t \in Threads, RmLayer(t) PROVE PidsOK'
  BY <1>12, <1>u DEF RmLayer
<1>13. ASSUME NEW t \in Threads, RmFiles(t) PROVE PidsOK'
  BY <1>13, <1>u DEF RmFiles
<1>14. ASSUME NEW t \in Threads, RmEnd(t) PROVE PidsOK'
  BY <1>14, <1>u DEF RmEnd
<1>15. ASSUME Pause PROVE PidsOK'
  BY <1>15, <1>e, <1>u DEF Pause, TaskOK, Alive
<1>16. ASSUME Unpause PROVE PidsOK'
  BY <1>16, <1>e, <1>u DEF Unpause, TaskOK, Alive
<1>17. ASSUME Paused PROVE PidsOK'
  BY <1>17, <1>u DEF Paused
<1>18. ASSUME EventDone PROVE PidsOK'
  BY <1>18, <1>w, <1>u DEF EventDone, Handles
<1>19. ASSUME EventStart PROVE PidsOK'
  BY <1>19, <1>w, <1>u DEF EventStart, Handles
<1>20. ASSUME EventPaused PROVE PidsOK'
  BY <1>20, <1>w, <1>u DEF EventPaused, Handles
<1>21. ASSUME EventExit PROVE PidsOK'
  BY <1>21, <1>w, <1>u DEF EventExit, Handles
<1>22. ASSUME ExitDeletes PROVE PidsOK'
  BY <1>22, <1>u DEF ExitDeletes
<1>23. ASSUME ExitDecides PROVE PidsOK'
  BY <1>23, <1>u DEF ExitDecides
<1>24. ASSUME ExitSaves PROVE PidsOK'
  BY <1>24, <1>u DEF ExitSaves
<1>25. ASSUME TimerFires PROVE PidsOK'
  BY <1>25, <1>u DEF TimerFires
<1>26. ASSUME BackoffEnds PROVE PidsOK'
  BY <1>26, <1>u DEF BackoffEnds
<1>27. ASSUME BackoffCanceled PROVE PidsOK'
  BY <1>27, <1>u DEF BackoffCanceled
<1>28. ASSUME StartupDone PROVE PidsOK'
  BY <1>28, <1>u DEF StartupDone
<1>29. ASSUME GiveUp PROVE PidsOK'
  BY <1>29, <1>u DEF GiveUp
<1>30. ASSUME NEW code \in scenario.ExitCodes, ProcessExits(code) PROVE PidsOK'
  BY <1>30, <1>e, <1>u DEF ProcessExits, TaskOK, Alive
<1>31. ASSUME Crash PROVE PidsOK'
  BY <1>31, <1>u DEF Crash, Down
<1>32. ASSUME Shutdown PROVE PidsOK'
  BY <1>32, <1>u DEF Shutdown
<1>33. ASSUME ShutdownEnds PROVE PidsOK'
  BY <1>33, <1>u DEF ShutdownEnds, Down
<1>34. ASSUME Loads PROVE PidsOK'
  BY <1>34, <1>u DEF Loads
<1>35. ASSUME Registers PROVE PidsOK'
  BY <1>35, <1>u DEF Registers
<1>36. ASSUME Restores PROVE PidsOK'
  BY <1>36, <1>u DEF Restores
<1>37. ASSUME RestoreFails PROVE PidsOK'
  BY <1>37, <1>u DEF RestoreFails
<1>38. ASSUME Restored PROVE PidsOK'
  BY <1>38, <1>u DEF Restored
<1>39. ASSUME Inspects PROVE PidsOK'
  BY <1>39, <1>u DEF Inspects
<1>40. ASSUME Status PROVE PidsOK'
  BY <1>40, <1>u DEF Status
<1>41. ASSUME StatusFails PROVE PidsOK'
  BY <1>41, <1>u DEF StatusFails
<1>42. ASSUME MarksStopped PROVE PidsOK'
  BY <1>42, <1>u DEF MarksStopped
<1>43. ASSUME ResetsManager PROVE PidsOK'
  BY <1>43, <1>u DEF ResetsManager
<1>44. ASSUME Lists PROVE PidsOK'
  BY <1>44, <1>u DEF Lists
<1>45. ASSUME Unmarks PROVE PidsOK'
  BY <1>45, <1>u DEF Unmarks
<1>46. ASSUME Ready PROVE PidsOK'
  BY <1>46, <1>u DEF Ready
<1> QED
  BY <1>1, <1>2, <1>3, <1>4, <1>5, <1>6, <1>7, <1>8, <1>9, <1>10, <1>11, <1>12, <1>13, <1>14,
        <1>15, <1>16, <1>17, <1>18, <1>19, <1>20, <1>21, <1>22, <1>23, <1>24, <1>25, <1>26,
        <1>27, <1>28, <1>29, <1>30, <1>31, <1>32, <1>33, <1>34, <1>35, <1>36, <1>37, <1>38,
        <1>39, <1>40, <1>41, <1>42, <1>43, <1>44, <1>45, <1>46 DEF Next, Start, Removal, Event,
        Backoff, RestoreStep

-----------------------------------------------------------------------------
\* What the events tell of the record.
LEMMA EventFacts ==
    ASSUME IInv, ~raced
    PROVE  /\ EventStart => UNCHANGED <<c, disk, recorded>>
           /\ Handles("paused") /\ Unlocked => Busy(c)
           /\ pc[Monitor] = "decide" => ~Alive /\ Busy(c) /\ queue # <<>> /\ Tail(queue) = <<>>
<1>0. /\ queue \in Seq(Events) /\ LabelsOK /\ PhaseOK /\ PidsOK /\ EventsOK /\ RecordOK
      /\ c \in Containers /\ lock \in Threads \cup {Free}
      /\ \A t \in Threads : lock = t <=> pc[t] \in HoldsLock
  BY DEF IInv, DataOK, TypeOK, ControlOK
<1>1. pc[Monitor] \in {"idle", "exit", "decide"} => Pending = queue
  BY DEF Pending, Past
<1>2. Unlocked \/ lock = Monitor => Cur = c.Pid
  BY <1>0, ThreadFacts DEF Unlocked, Cur, BeingStarted, HoldsLock, LabelsOK, MonitorLabels,
        KillLabels, RmLabels
<1>3. queue # <<>> => /\ 1 \in DOMAIN queue /\ Head(queue) = queue[1] /\ Len(queue) \in Nat
                      /\ queue[1].pid \in 1 .. starts
                      /\ (Len(queue) = 1 => Tail(queue) = <<>>)
  <2>1. queue # <<>> => /\ 1 \in DOMAIN queue /\ Head(queue) = queue[1] /\ Len(queue) \in Nat
                        /\ (Len(queue) = 1 => Len(Tail(queue)) = 0 /\ Tail(queue) \in Seq(Events))
    BY <1>0
  <2>2. \A q \in Seq(Events) : Len(q) = 0 => q = <<>>
    BY EmptySeq
  <2> QED
    BY <1>0, <2>1, <2>2 DEF PidsOK
<1>4. ASSUME EventStart PROVE UNCHANGED <<c, disk, recorded>>
  <2>1. queue[1].type = "start" /\ Pending = queue /\ Cur = c.Pid /\ queue # <<>>
    BY <1>1, <1>2, <1>3, <1>4 DEF EventStart, Handles
  <2>2. c.Pid # 0
    BY <1>0, <1>3, <2>1 DEF EventsOK, PendingOK
  <2>3. c.Running
    BY <1>0, <2>2 DEF RecordOK, Fits, Busy
  <2> QED
    BY <1>4, <2>3 DEF EventStart
<1>5. ASSUME Handles("paused"), Unlocked PROVE Busy(c)
  <2>1. queue[1].type = "paused" /\ Pending = queue /\ queue # <<>>
    BY <1>1, <1>3, <1>5 DEF Handles
  <2> QED
    BY <1>0, <1>3, <2>1 DEF EventsOK, PendingOK
<1>6. ASSUME pc[Monitor] = "decide"
      PROVE  ~Alive /\ Busy(c) /\ queue # <<>> /\ Tail(queue) = <<>>
  <2>1. /\ queue # <<>> /\ Pending = queue /\ Cur = c.Pid /\ Busy(c)
        /\ queue[1].type = "exit" /\ queue[1].pid = c.Pid
    BY <1>0, <1>1, <1>2, <1>6, ThreadFacts DEF PhaseOK, HoldsLock, EventsOK, HandledOK
  <2>2. 1 = Len(queue) /\ ~Alive
    BY <1>0, <1>3, <2>1 DEF EventsOK, PendingOK
  <2> QED
    BY <1>3, <2>1, <2>2
<1> QED
  BY <1>4, <1>5, <1>6

\* What restore has marked in the middle of ProcessEvent stays so.
LEMMA RacedStays ==
    ASSUME Next, ~raced'
    PROVE  ~raced
<1> USE DEF history, Down
<1>1. ASSUME NEW op \in AllOps, Request(op) PROVE ~raced
  BY <1>1 DEF Request
<1>2. ASSUME NEW t \in Threads, StartRefused(t) PROVE ~raced
  BY <1>2 DEF StartRefused
<1>3. ASSUME NEW t \in Threads, Creates(t) PROVE ~raced
  BY <1>3 DEF Creates
<1>4. ASSUME NEW t \in Threads, StartFails(t) PROVE ~raced
  BY <1>4 DEF StartFails
<1>5. ASSUME NEW t \in Threads, StartsTask(t) PROVE ~raced
  BY <1>5 DEF StartsTask
<1>6. ASSUME NEW t \in Threads, Started(t) PROVE ~raced
  BY <1>6 DEF Started
<1>7. ASSUME NEW t \in Threads, Kill(t) PROVE ~raced
  BY <1>7 DEF Kill
<1>8. ASSUME NEW t \in Threads, Signal(t) PROVE ~raced
  BY <1>8 DEF Signal
<1>9. ASSUME NEW t \in Threads, Waited(t) PROVE ~raced
  BY <1>9 DEF Waited
<1>10. ASSUME NEW t \in Threads, Rm(t) PROVE ~raced
  BY <1>10 DEF Rm
<1>11. ASSUME NEW t \in Threads, RmDead(t) PROVE ~raced
  BY <1>11 DEF RmDead
<1>12. ASSUME NEW t \in Threads, RmLayer(t) PROVE ~raced
  BY <1>12 DEF RmLayer
<1>13. ASSUME NEW t \in Threads, RmFiles(t) PROVE ~raced
  BY <1>13 DEF RmFiles
<1>14. ASSUME NEW t \in Threads, RmEnd(t) PROVE ~raced
  BY <1>14 DEF RmEnd
<1>15. ASSUME Pause PROVE ~raced
  BY <1>15 DEF Pause
<1>16. ASSUME Unpause PROVE ~raced
  BY <1>16 DEF Unpause
<1>17. ASSUME Paused PROVE ~raced
  BY <1>17 DEF Paused
<1>18. ASSUME EventDone PROVE ~raced
  BY <1>18 DEF EventDone
<1>19. ASSUME EventStart PROVE ~raced
  BY <1>19 DEF EventStart
<1>20. ASSUME EventPaused PROVE ~raced
  BY <1>20 DEF EventPaused
<1>21. ASSUME EventExit PROVE ~raced
  BY <1>21 DEF EventExit
<1>22. ASSUME ExitDeletes PROVE ~raced
  BY <1>22 DEF ExitDeletes
<1>23. ASSUME ExitDecides PROVE ~raced
  BY <1>23 DEF ExitDecides
<1>24. ASSUME ExitSaves PROVE ~raced
  BY <1>24 DEF ExitSaves
<1>25. ASSUME TimerFires PROVE ~raced
  BY <1>25 DEF TimerFires
<1>26. ASSUME BackoffEnds PROVE ~raced
  BY <1>26 DEF BackoffEnds
<1>27. ASSUME BackoffCanceled PROVE ~raced
  BY <1>27 DEF BackoffCanceled
<1>28. ASSUME StartupDone PROVE ~raced
  BY <1>28 DEF StartupDone
<1>29. ASSUME GiveUp PROVE ~raced
  BY <1>29 DEF GiveUp
<1>30. ASSUME NEW code \in scenario.ExitCodes, ProcessExits(code) PROVE ~raced
  BY <1>30 DEF ProcessExits
<1>31. ASSUME Crash PROVE ~raced
  BY <1>31 DEF Crash
<1>32. ASSUME Shutdown PROVE ~raced
  BY <1>32 DEF Shutdown
<1>33. ASSUME ShutdownEnds PROVE ~raced
  BY <1>33 DEF ShutdownEnds
<1>34. ASSUME Loads PROVE ~raced
  BY <1>34 DEF Loads
<1>35. ASSUME Registers PROVE ~raced
  BY <1>35 DEF Registers
<1>36. ASSUME Restores PROVE ~raced
  BY <1>36 DEF Restores
<1>37. ASSUME RestoreFails PROVE ~raced
  BY <1>37 DEF RestoreFails
<1>38. ASSUME Restored PROVE ~raced
  BY <1>38 DEF Restored
<1>39. ASSUME Inspects PROVE ~raced
  BY <1>39 DEF Inspects
<1>40. ASSUME Status PROVE ~raced
  BY <1>40 DEF Status
<1>41. ASSUME StatusFails PROVE ~raced
  BY <1>41 DEF StatusFails
<1>42. ASSUME MarksStopped PROVE ~raced
  BY <1>42 DEF MarksStopped
<1>43. ASSUME ResetsManager PROVE ~raced
  BY <1>43 DEF ResetsManager
<1>44. ASSUME Lists PROVE ~raced
  BY <1>44 DEF Lists
<1>45. ASSUME Unmarks PROVE ~raced
  BY <1>45 DEF Unmarks
<1>46. ASSUME Ready PROVE ~raced
  BY <1>46 DEF Ready
<1> QED
  BY <1>1, <1>2, <1>3, <1>4, <1>5, <1>6, <1>7, <1>8, <1>9, <1>10, <1>11, <1>12, <1>13, <1>14,
        <1>15, <1>16, <1>17, <1>18, <1>19, <1>20, <1>21, <1>22, <1>23, <1>24, <1>25, <1>26,
        <1>27, <1>28, <1>29, <1>30, <1>31, <1>32, <1>33, <1>34, <1>35, <1>36, <1>37, <1>38,
        <1>39, <1>40, <1>41, <1>42, <1>43, <1>44, <1>45, <1>46 DEF Next, Start, Removal, Event,
        Backoff, RestoreStep

\* The record fits the process, through every step.
LEMMA RecordKept ==
    ASSUME IInv, Next, ~raced'
    PROVE  RecordOK'
<1> USE ThreadFacts DEF bounds, history, outside, manager
<1>0. /\ ~raced /\ TypeOK /\ ControlOK /\ LoadedOK /\ DeadOK /\ TaskOK /\ DataOK
      /\ scenario \in Scenarios
  BY RacedStays DEF IInv, TypeOK
<1>e. /\ EventStart => UNCHANGED <<c, disk, recorded>>
      /\ Handles("paused") /\ Unlocked => Busy(c)
      /\ pc[Monitor] = "decide" => ~Alive /\ Busy(c) /\ queue # <<>> /\ Tail(queue) = <<>>
  BY <1>0, EventFacts
<1>t. /\ c \in Containers /\ disk \in Containers \cup {Gone} /\ registered \in BOOLEAN
      /\ up \in {"down", "restoring", "up", "stopping"}
      /\ lock \in Threads \cup {Free} /\ \A t \in Threads : lock = t <=> pc[t] \in HoldsLock
      /\ found.list \in {"none", "start", "rm", "ready"} /\ task \in Tasks
  BY <1>0 DEF TypeOK, Tasks
<1>l. LabelsOK /\ PhaseOK /\ RolesOK
  BY <1>0 DEF ControlOK
<1>r. c' \in Containers /\ disk' \in Containers \cup {Gone} /\ c' # Gone
  <2>1. \A r \in Containers : r # Gone
    BY DEF Containers, Gone
  <2> QED
    BY <2>1, RecordTypes
<1>p. starts \in Nat /\ recorded \in 0 .. starts
  BY <1>0, ScenarioFacts DEF TaskOK
<1>d. RecordOK /\ RestartOK /\ LoadedOK /\ TaskOK
  BY <1>0 DEF DataOK
<1>k. ASSUME c'.Running = c.Running, c'.Restarting = c.Restarting, c'.Pid = c.Pid,
             c'.Paused => c.Paused \/ Busy(c),
             UNCHANGED <<registered, starts, recorded, task>>,
             UNCHANGED disk \/ (SaveFile(c') /\ (Quiet => registered)),
             \A t \in Threads : pc'[t] \in {"created", "started"} =>
                pc[t] \in {"created", "started"} \/ (~Busy(c) /\ (t # Restarter => ~c.Running)),
             pc'[Monitor] = "save" <=> pc[Monitor] = "save"
      PROVE  RecordOK'
  <2>1. Fits(c)' /\ (registered' => Known(c)')
    BY <1>k, <1>d DEF RecordOK, Fits, Known, Busy, Alive
  <2>2. \A t \in Threads : pc'[t] \in {"created", "started"} =>
          ~Busy(c)' /\ (t # Restarter => ~c'.Running)
    BY <1>k, <1>d DEF RecordOK, Busy
  <2>3. CASE UNCHANGED disk
    BY <1>k, <1>d, <2>1, <2>2, <2>3 DEF RecordOK, Fits, Known, Busy, Alive
  <2>4. CASE SaveFile(c') /\ (Quiet => registered)
    <3>1. (disk' # Gone => registered /\ disk' = c') /\ (registered => disk' = c')
      BY <2>4, <1>d, <1>r DEF SaveFile, LoadedOK
    <3> QED
      BY <1>k, <2>1, <2>2, <3>1, <1>r, <1>d DEF RecordOK, Fits, Known, Busy, Alive, LoadedOK
  <2> QED
    BY <1>k, <2>3, <2>4
<1> USE <1>l, <1>t, <1>d, <1>r, <1>p DEF LabelsOK, PhaseOK, RolesOK, LoadedOK, TaskOK,
   RecordOK, RestartOK, Fits, Known, Busy, Alive,
           Quiet, Labels, BootLabels, ApiLabels, MonitorLabels,
           RestarterLabels, RestoreLabels, StartLabels, KillLabels, RmLabels, HoldsLock
<1>1. ASSUME NEW op \in AllOps, Request(op) PROVE RecordOK'
  BY <1>1, EndsAre DEF Request, AllOps, Goto
<1>2. ASSUME NEW t \in Threads, StartRefused(t) PROVE RecordOK'
  BY <1>2, EndsAre DEF StartRefused, StartFailed, Resets, Unlocked, Goto
<1>3. ASSUME NEW t \in Threads, Creates(t) PROVE RecordOK'
  <2>1. /\ task' \in {task, NoTask} /\ pc' = [pc EXCEPT ![t] = "created"] /\ ~Alive
        /\ pc[t] = "start" /\ lock = Free /\ (t # Restarter => ~c.Running)
        /\ UNCHANGED <<disk, recorded, registered, starts>>
    BY <1>3 DEF Creates, Starts, DeletedTask, Goto, Unlocked, Resets
  <2>2. c'.Running = c.Running /\ c'.Restarting = c.Restarting /\ c'.Pid = c.Pid /\ c'.Paused = c.Paused
    BY <1>3, ForStartFields, ZenonT(60) DEF Creates
  <2> QED
    BY <2>1, <2>2 DEF NoTask
<1>4. ASSUME NEW t \in Threads, StartFails(t) PROVE RecordOK'
  <2>1. /\ c'.Running = c.Running /\ c'.Restarting = c.Restarting /\ c'.Pid = c.Pid /\ c'.Paused = c.Paused
        /\ SaveFile(c')
    BY <1>4, FailureSaved
  <2>8. \A u \in Threads : pc'[u] \in {"created", "started"} => pc[u] \in {"created", "started"}
    BY <1>4, EndsAre DEF StartFails, Starts, StartFailed, Goto
  <2>9. (pc'[Monitor] = "save" <=> pc[Monitor] = "save") /\ (Quiet => registered)
        /\ UNCHANGED <<registered, starts, recorded, task>>
    BY <1>4, EndsAre, ZenonT(60) DEF StartFails, Starts, StartFailed, Goto
  <2> HIDE DEF Fits, Known, Busy, RecordOK, Quiet
  <2> QED
    BY <2>1, <2>8, <2>9, <1>k
<1>5. ASSUME NEW t \in Threads, StartsTask(t) PROVE RecordOK'
  BY <1>5, EndsAre DEF StartsTask, Goto, Emit, NoTask
<1>6. ASSUME NEW t \in Threads, Started(t) PROVE RecordOK'
  BY <1>6, EndsAre DEF Started, Goto, Save, SaveFile, SetRunning
<1>7. ASSUME NEW t \in Threads, Kill(t) PROVE RecordOK'
  <2>1. /\ c'.Running = c.Running /\ c'.Restarting = c.Restarting /\ c'.Pid = c.Pid /\ c'.Paused = c.Paused
        /\ UNCHANGED disk \/ SaveFile(c')
    BY <1>7, KillSaved
  <2>8. \A u \in Threads : pc'[u] \in {"created", "started"} => pc[u] \in {"created", "started"}
    BY <1>7, EndsAre DEF Kill, Killed, Goto
  <2>9. (pc'[Monitor] = "save" <=> pc[Monitor] = "save") /\ (Quiet => registered)
        /\ UNCHANGED <<registered, starts, recorded, task>>
    BY <1>7, EndsAre DEF Kill, Killed, Goto
  <2> HIDE DEF Fits, Known, Busy, RecordOK, Quiet
  <2> QED
    BY <2>1, <2>8, <2>9, <1>k
<1>8. ASSUME NEW t \in Threads, Signal(t) PROVE RecordOK'
  BY <1>8, EndsAre DEF Signal, Goto, Emit
<1>9. ASSUME NEW t \in Threads, Waited(t) PROVE RecordOK'
  BY <1>9, EndsAre DEF Waited, Killed, Unlocked, Goto
<1>10. ASSUME NEW t \in Threads, Rm(t) PROVE RecordOK'
  <2>1. /\ c'.Running = c.Running /\ c'.Restarting = c.Restarting /\ c'.Pid = c.Pid /\ c'.Paused = c.Paused
        /\ UNCHANGED disk
    BY <1>10, RmSaved
  <2>8. \A u \in Threads : pc'[u] \in {"created", "started"} => pc[u] \in {"created", "started"}
    BY <1>10, EndsAre DEF Rm, Goto
  <2>9. (pc'[Monitor] = "save" <=> pc[Monitor] = "save") /\ (Quiet => registered)
        /\ UNCHANGED <<registered, starts, recorded, task>>
    BY <1>10, EndsAre DEF Rm, Goto
  <2> HIDE DEF Fits, Known, Busy, RecordOK, Quiet
  <2> QED
    BY <2>1, <2>8, <2>9, <1>k
<1>11. ASSUME NEW t \in Threads, RmDead(t) PROVE RecordOK'
  <2>1. /\ c'.Running = c.Running /\ c'.Restarting = c.Restarting /\ c'.Pid = c.Pid /\ c'.Paused = c.Paused
        /\ UNCHANGED disk \/ SaveFile(c')
    BY <1>11, RmDeadFields DEF RmDead, SaveOrFail
  <2>8. \A u \in Threads : pc'[u] \in {"created", "started"} => pc[u] \in {"created", "started"}
    BY <1>11, EndsAre DEF RmDead, Goto
  <2>9. (pc'[Monitor] = "save" <=> pc[Monitor] = "save") /\ (Quiet => registered)
        /\ UNCHANGED <<registered, starts, recorded, task>>
    BY <1>11, EndsAre DEF RmDead, Goto
  <2> HIDE DEF Fits, Known, Busy, RecordOK, Quiet
  <2> QED
    BY <2>1, <2>8, <2>9, <1>k
<1>12. ASSUME NEW t \in Threads, RmLayer(t) PROVE RecordOK'
  BY <1>12, EndsAre DEF RmLayer, Goto
<1>13. ASSUME NEW t \in Threads, RmFiles(t) PROVE RecordOK'
  BY <1>13, EndsAre DEF RmFiles, Goto
<1>14. ASSUME NEW t \in Threads, RmEnd(t) PROVE RecordOK'
  BY <1>14, EndsAre DEF RmEnd, Unlocked, Goto
<1>15. ASSUME Pause PROVE RecordOK'
  BY <1>15, EndsAre DEF Pause, Unlocked, Goto, Emit
<1>16. ASSUME Unpause PROVE RecordOK'
  BY <1>16, EndsAre DEF Unpause, Unlocked, Goto, Emit
<1>17. ASSUME Paused PROVE RecordOK'
  <2>1. /\ c'.Running = c.Running /\ c'.Restarting = c.Restarting /\ c'.Pid = c.Pid /\ (c'.Paused => Busy(c))
        /\ SaveFile(c')
    BY <1>17, <1>0, PausedSaved DEF DataOK, PauseOK
  <2>8. \A u \in Threads : pc'[u] \in {"created", "started"} => pc[u] \in {"created", "started"}
    BY <1>17 DEF Paused, Goto
  <2>9. (pc'[Monitor] = "save" <=> pc[Monitor] = "save") /\ (Quiet => registered)
        /\ UNCHANGED <<registered, starts, recorded, task>>
    BY <1>17 DEF Paused, Goto
  <2> HIDE DEF Fits, Known, Busy, RecordOK, Quiet
  <2> QED
    BY <2>1, <2>8, <2>9, <1>k
<1>18. ASSUME EventDone PROVE RecordOK'
  BY <1>18, EndsAre DEF EventDone, Goto
<1>19. ASSUME EventStart PROVE RecordOK'
  <2>1. UNCHANGED <<c, disk, recorded, registered, starts, task, pc>>
    BY <1>19, <1>e DEF EventStart
  <2> QED
    BY <2>1
<1>20. ASSUME EventPaused PROVE RecordOK'
  <2>1. /\ c'.Running = c.Running /\ c'.Restarting = c.Restarting /\ c'.Pid = c.Pid /\ (c'.Paused => Busy(c))
        /\ SaveFile(c')
    BY <1>20, <1>e, EventPausedSaved DEF EventPaused, Handles
  <2>8. \A u \in Threads : pc'[u] \in {"created", "started"} => pc[u] \in {"created", "started"}
    BY <1>20 DEF EventPaused, Handles
  <2>9. (pc'[Monitor] = "save" <=> pc[Monitor] = "save") /\ (Quiet => registered)
        /\ UNCHANGED <<registered, starts, recorded, task>>
    BY <1>20 DEF EventPaused, Handles
  <2> HIDE DEF Fits, Known, Busy, RecordOK, Quiet
  <2> QED
    BY <2>1, <2>8, <2>9, <1>k
<1>21. ASSUME EventExit PROVE RecordOK'
  BY <1>21, EndsAre DEF EventExit, Handles, Goto
<1>22. ASSUME ExitDeletes PROVE RecordOK'
  <2>1. task' \in {task, NoTask} /\ pc' = [pc EXCEPT ![Monitor] = "decide"] /\ pc[Monitor] = "exit"
        /\ UNCHANGED <<c, disk, recorded, registered, starts>>
    BY <1>22 DEF ExitDeletes, DeletedTask, Goto
  <2>2. CASE task' = task
    BY <2>1, <2>2
  <2>3. CASE task' = NoTask
    BY <2>1, <2>3 DEF NoTask
  <2> QED
    BY <2>1, <2>2, <2>3
<1>23. ASSUME ExitDecides PROVE RecordOK'
  <2>1. /\ ~Alive /\ pc' = [pc EXCEPT ![Monitor] = "save"] /\ pc[Monitor] = "decide"
        /\ UNCHANGED <<disk, recorded, registered, starts, task>>
    BY <1>23, <1>e DEF ExitDecides, Goto
  <2>2. /\ ~Busy(c') /\ c'.Pid = 0 /\ ~c'.Paused
        /\ (c'.Restarting => c'.Running)
    BY <1>23, RestartingFields, StoppedFields DEF ExitDecides
  <2> QED
    BY <2>1, <2>2
<1>24. ASSUME ExitSaves PROVE RecordOK'
  BY <1>24, EndsAre DEF ExitSaves, SaveFile
<1>25. ASSUME TimerFires PROVE RecordOK'
  BY <1>25, EndsAre DEF TimerFires
<1>26. ASSUME BackoffEnds PROVE RecordOK'
  BY <1>26, EndsAre DEF BackoffEnds, Goto
<1>27. ASSUME BackoffCanceled PROVE RecordOK'
  BY <1>27, EndsAre DEF BackoffCanceled, Goto
<1>28. ASSUME StartupDone PROVE RecordOK'
  BY <1>28, EndsAre DEF StartupDone, Goto
<1>29. ASSUME GiveUp PROVE RecordOK'
  BY <1>29, EndsAre DEF GiveUp, Unlocked, Goto, Save, SaveFile, SetStopped
<1>30. ASSUME NEW code \in scenario.ExitCodes, ProcessExits(code) PROVE RecordOK'
  BY <1>30, EndsAre DEF ProcessExits, Emit
<1>31. ASSUME Crash PROVE RecordOK'
  BY <1>31 DEF Crash, Down, NewContainer
<1>32. ASSUME Shutdown PROVE RecordOK'
  BY <1>32, EndsAre DEF Shutdown, Goto
<1>33. ASSUME ShutdownEnds PROVE RecordOK'
  BY <1>33 DEF ShutdownEnds, Down, NewContainer
<1>34. ASSUME Loads PROVE RecordOK'
  BY <1>34, EndsAre DEF Loads, Goto
<1>35. ASSUME Registers PROVE RecordOK'
  BY <1>35, EndsAre DEF Registers, SaveFile, Goto
<1>36. ASSUME Restores PROVE RecordOK'
  BY <1>36, EndsAre DEF Restores, Goto
<1>37. ASSUME RestoreFails PROVE RecordOK'
  BY <1>37, EndsAre, SMTT(30) DEF RestoreFails, Goto
<1>38. ASSUME Restored PROVE RecordOK'
  <2>1. task' \in {task, NoTask} /\ pc' = [pc EXCEPT ![Main] = "inspect"]
        /\ UNCHANGED <<c, disk, recorded, registered, starts>>
    BY <1>38 DEF Restored, DeletedTask, Goto
  <2> QED
    BY <2>1 DEF NoTask
<1>39. ASSUME Inspects PROVE RecordOK'
  BY <1>39, EndsAre DEF Inspects, Unlocked, Goto, CancelRestart, CanceledRestart
<1>40. ASSUME Status PROVE RecordOK'
  <2>1. /\ c'.Running = c.Running /\ c'.Restarting = c.Restarting /\ c'.Pid = c.Pid /\ (c'.Paused => c.Paused)
        /\ UNCHANGED disk \/ SaveFile(c')
    BY <1>40, StatusSaved
  <2>8. \A u \in Threads : pc'[u] \in {"created", "started"} => pc[u] \in {"created", "started"}
    BY <1>40 DEF Status, Goto
  <2>9. (pc'[Monitor] = "save" <=> pc[Monitor] = "save") /\ (Quiet => registered)
        /\ UNCHANGED <<registered, starts, recorded, task>>
    BY <1>40 DEF Status, Goto
  <2> HIDE DEF Fits, Known, Busy, RecordOK, Quiet
  <2> QED
    BY <2>1, <2>8, <2>9, <1>k
<1>41. ASSUME StatusFails PROVE RecordOK'
  BY <1>41, EndsAre DEF StatusFails, Goto
<1>42. ASSUME MarksStopped PROVE RecordOK'
  BY <1>42, EndsAre DEF MarksStopped, Unlocked, Goto, Save, SaveFile, SetStopped, DeletedObject
<1>43. ASSUME ResetsManager PROVE RecordOK'
  BY <1>43, EndsAre DEF ResetsManager, Goto, ResetRestartManager, CanceledRestart
<1>44. ASSUME Lists PROVE RecordOK'
  BY <1>44, EndsAre DEF Lists, Goto, ShouldRestart, Activate
<1>45. ASSUME Unmarks PROVE RecordOK'
  <2>1. /\ c'.Running = c.Running /\ c'.Restarting = c.Restarting /\ c'.Pid = c.Pid /\ c'.Paused = c.Paused
        /\ UNCHANGED disk \/ SaveFile(c')
    BY <1>45, UnmarkSaved
  <2>8. \A u \in Threads : pc'[u] \in {"created", "started"} => pc[u] \in {"created", "started"}
    BY <1>45 DEF Unmarks, Goto
  <2>9. (pc'[Monitor] = "save" <=> pc[Monitor] = "save") /\ (Quiet => registered)
        /\ UNCHANGED <<registered, starts, recorded, task>>
    BY <1>45 DEF Unmarks, Goto
  <2> HIDE DEF Fits, Known, Busy, RecordOK, Quiet
  <2> QED
    BY <2>1, <2>8, <2>9, <1>k
<1>46. ASSUME Ready PROVE RecordOK'
  BY <1>46, EndsAre DEF Ready, Goto
<1> QED
  BY <1>1, <1>2, <1>3, <1>4, <1>5, <1>6, <1>7, <1>8, <1>9, <1>10, <1>11, <1>12, <1>13, <1>14,
        <1>15, <1>16, <1>17, <1>18, <1>19, <1>20, <1>21, <1>22, <1>23, <1>24, <1>25, <1>26,
        <1>27, <1>28, <1>29, <1>30, <1>31, <1>32, <1>33, <1>34, <1>35, <1>36, <1>37, <1>38,
        <1>39, <1>40, <1>41, <1>42, <1>43, <1>44, <1>45, <1>46 DEF Next, Start, Removal, Event,
        Backoff, RestoreStep

\* A container to be restarted keeps its goroutine, through every step.
LEMMA RestartKept ==
    ASSUME IInv, Next, ~raced'
    PROVE  RestartOK'
<1> USE ThreadFacts DEF bounds, history, outside, manager
<1>0. /\ ~raced /\ TypeOK /\ ControlOK /\ LoadedOK /\ DeadOK /\ TaskOK /\ DataOK
      /\ scenario \in Scenarios
  BY RacedStays DEF IInv, TypeOK
<1>e. /\ EventStart => UNCHANGED <<c, disk, recorded>>
      /\ Handles("paused") /\ Unlocked => Busy(c)
      /\ pc[Monitor] = "decide" => ~Alive /\ Busy(c) /\ queue # <<>> /\ Tail(queue) = <<>>
  BY <1>0, EventFacts
<1>t. /\ c \in Containers /\ disk \in Containers \cup {Gone} /\ registered \in BOOLEAN
      /\ up \in {"down", "restoring", "up", "stopping"}
      /\ lock \in Threads \cup {Free} /\ \A t \in Threads : lock = t <=> pc[t] \in HoldsLock
      /\ found.list \in {"none", "start", "rm", "ready"} /\ task \in Tasks
  BY <1>0 DEF TypeOK, Tasks
<1>l. LabelsOK /\ PhaseOK /\ RolesOK
  BY <1>0 DEF ControlOK
<1>r. c' \in Containers /\ disk' \in Containers \cup {Gone} /\ c' # Gone
  <2>1. \A r \in Containers : r # Gone
    BY DEF Containers, Gone
  <2> QED
    BY <2>1, RecordTypes
<1>p. starts \in Nat /\ recorded \in 0 .. starts
  BY <1>0, ScenarioFacts DEF TaskOK
<1>q. scenario.AutoRemove => scenario.Policy = "no"
  BY <1>0, RestoreAssumption
<1>d. RecordOK /\ RestartOK /\ LoadedOK /\ TaskOK
  BY <1>0 DEF DataOK
<1>f. found \in Founds
  BY <1>0 DEF TypeOK, Founds
<1> USE <1>l, <1>t, <1>d, <1>r, <1>p, <1>f DEF LabelsOK, PhaseOK, LoadedOK, TaskOK, RestartOK,
   Unknown, Alive,
           Quiet, Labels, BootLabels, ApiLabels, MonitorLabels, Founds,
           RestarterLabels, RestoreLabels, StartLabels, KillLabels, RmLabels, HoldsLock
<1>1. ASSUME NEW op \in AllOps, Request(op) PROVE RestartOK'
  BY <1>1, EndsAre DEF Request, AllOps, Goto
<1>2. ASSUME NEW t \in Threads, StartRefused(t) PROVE RestartOK'
  BY <1>2, EndsAre DEF StartRefused, StartFailed, Resets, Unlocked, Goto
<1>3. ASSUME NEW t \in Threads, Creates(t) PROVE RestartOK'
  BY <1>3, EndsAre DEF Creates, Starts, Resets, Unlocked, Goto, ForStart, DeletedTask,
        ResetRestartManager, CanceledRestart
<1>4. ASSUME NEW t \in Threads, StartFails(t) PROVE RestartOK'
  <2>1. /\ pc' = [pc EXCEPT ![t] = IF scenario.AutoRemove THEN "rm" ELSE StartFailed(t)]
        /\ pc[t] \in {"start", "created"}
        /\ UNCHANGED <<found, task, starts, recorded, gaveUp, registered>>
    BY <1>4 DEF StartFails, Starts, Goto
  <2>2. c'.Restarting = c.Restarting
    BY <1>4, FailureSaved
  <2>3. /\ (pc'[Restarter] # "idle" <=> pc[Restarter] # "idle")
        /\ (pc'[Monitor] = "save" <=> pc[Monitor] = "save")
        /\ pc'[Main] \notin {"register", "restore", "restored", "inspect", "stopped"} \/ pc'[Main] = pc[Main]
    BY <2>1, EndsAre, <1>q DEF StartFailed
  <2>4. pc[Main] \in {"register", "restore", "restored", "inspect", "stopped"} => t # Main
    BY <2>1
  <2> QED
    BY <2>1, <2>2, <2>3, <2>4
<1>5. ASSUME NEW t \in Threads, StartsTask(t) PROVE RestartOK'
  BY <1>5, EndsAre DEF StartsTask, Goto, Emit, NoTask
<1>6. ASSUME NEW t \in Threads, Started(t) PROVE RestartOK'
  <2>1. /\ pc' = [pc EXCEPT ![t] = Ends(t)] /\ pc[t] = "started" /\ ~c'.Restarting
        /\ UNCHANGED <<found, task, starts, gaveUp, registered>>
    BY <1>6, StartedFields DEF Started, Goto, Save
  <2>2. pc'[Restarter] = "idle"
    BY <2>1, EndsAre DEF RecordOK, Fits
  <2>3. pc'[Main] \notin {"restored", "inspect", "stopped"}
    BY <2>1, EndsAre
  <2> QED
    BY <2>1, <2>2, <2>3
<1>7. ASSUME NEW t \in Threads, Kill(t) PROVE RestartOK'
  <2>1. c'.Restarting = c.Restarting
    BY <1>7, KillSaved
  <2> QED
    BY <1>7, <2>1, EndsAre DEF Kill, Killed, Goto
<1>8. ASSUME NEW t \in Threads, Signal(t) PROVE RestartOK'
  BY <1>8, EndsAre DEF Signal, Goto, Emit
<1>9. ASSUME NEW t \in Threads, Waited(t) PROVE RestartOK'
  BY <1>9, EndsAre DEF Waited, Killed, Unlocked, Goto
<1>10. ASSUME NEW t \in Threads, Rm(t) PROVE RestartOK'
  <2>1. c'.Restarting = c.Restarting
    BY <1>10, RmSaved
  <2> QED
    BY <1>10, <2>1, EndsAre DEF Rm, Goto
<1>11. ASSUME NEW t \in Threads, RmDead(t) PROVE RestartOK'
  BY <1>11, EndsAre DEF RmDead, Unlocked, Goto, SaveOrFail, SaveFile
<1>12. ASSUME NEW t \in Threads, RmLayer(t) PROVE RestartOK'
  BY <1>12, EndsAre DEF RmLayer, Goto
<1>13. ASSUME NEW t \in Threads, RmFiles(t) PROVE RestartOK'
  BY <1>13, EndsAre DEF RmFiles, Goto
<1>14. ASSUME NEW t \in Threads, RmEnd(t) PROVE RestartOK'
  <2>1. c'.Restarting = c.Restarting
    BY <1>14, RmEndSaved
  <2> QED
    BY <1>14, <2>1, EndsAre DEF RmEnd, Goto
<1>15. ASSUME Pause PROVE RestartOK'
  BY <1>15, EndsAre DEF Pause, Unlocked, Goto, Emit
<1>16. ASSUME Unpause PROVE RestartOK'
  BY <1>16, EndsAre DEF Unpause, Unlocked, Goto, Emit
<1>17. ASSUME Paused PROVE RestartOK'
  <2>1. c'.Restarting = c.Restarting
    BY <1>17, PausedSaved
  <2> QED
    BY <1>17, <2>1, EndsAre DEF Paused, Goto
<1>18. ASSUME EventDone PROVE RestartOK'
  BY <1>18, EndsAre DEF EventDone, Goto
<1>19. ASSUME EventStart PROVE RestartOK'
  BY <1>19, <1>e DEF EventStart
<1>20. ASSUME EventPaused PROVE RestartOK'
  <2>1. c'.Restarting = c.Restarting
    BY <1>20, EventPausedSaved
  <2> QED
    BY <1>20, <2>1, EndsAre DEF EventPaused
<1>21. ASSUME EventExit PROVE RestartOK'
  BY <1>21, EndsAre DEF EventExit, Handles, Goto
<1>22. ASSUME ExitDeletes PROVE RestartOK'
  <2>1. /\ pc' = [pc EXCEPT ![Monitor] = "decide"] /\ pc[Monitor] = "exit" /\ (Alive' => Alive)
        /\ UNCHANGED <<c, found, starts, recorded, gaveUp, registered>>
    BY <1>22 DEF ExitDeletes, Goto, DeletedTask, NoTask
  <2> QED
    BY <2>1
<1>23. ASSUME ExitDecides PROVE RestartOK'
  <2>1. /\ pc' = [pc EXCEPT ![Monitor] = "save"] /\ ~c.Restarting
        /\ UNCHANGED <<found, task, starts, recorded, gaveUp, registered>>
    BY <1>23, <1>e DEF ExitDecides, Goto, Busy
  <2> QED
    BY <2>1
<1>24. ASSUME ExitSaves PROVE RestartOK'
  BY <1>24, EndsAre DEF ExitSaves, SaveFile
<1>25. ASSUME TimerFires PROVE RestartOK'
  BY <1>25, EndsAre DEF TimerFires
<1>26. ASSUME BackoffEnds PROVE RestartOK'
  BY <1>26, EndsAre DEF BackoffEnds, Goto
<1>27. ASSUME BackoffCanceled PROVE RestartOK'
  BY <1>27, EndsAre DEF BackoffCanceled, Goto
<1>28. ASSUME StartupDone PROVE RestartOK'
  BY <1>28, EndsAre DEF StartupDone, Goto
<1>29. ASSUME GiveUp PROVE RestartOK'
  BY <1>29, EndsAre DEF GiveUp, Unlocked, Goto, Save, SaveFile, SetStopped
<1>30. ASSUME NEW code \in scenario.ExitCodes, ProcessExits(code) PROVE RestartOK'
  BY <1>30, EndsAre DEF ProcessExits, Emit
<1>31. ASSUME Crash PROVE RestartOK'
  BY <1>31 DEF Crash, Down, NewContainer
<1>32. ASSUME Shutdown PROVE RestartOK'
  BY <1>32, EndsAre DEF Shutdown, Goto
<1>33. ASSUME ShutdownEnds PROVE RestartOK'
  BY <1>33 DEF ShutdownEnds, Down, NewContainer
<1>34. ASSUME Loads PROVE RestartOK'
  BY <1>34, EndsAre DEF Loads, Goto
<1>35. ASSUME Registers PROVE RestartOK'
  BY <1>35, EndsAre DEF Registers, SaveFile, Goto
<1>36. ASSUME Restores PROVE RestartOK'
  <2>1. /\ pc' = [pc EXCEPT ![Main] = "restored"] /\ pc[Main] = "restore"
        /\ (found'.alive <=> Alive)
        /\ UNCHANGED <<c, task, starts, recorded, gaveUp, registered>>
    BY <1>36 DEF Restores, Goto, NotFound
  <2>2. registered /\ c.Restarting /\ Alive => starts # recorded
    BY DEF RecordOK, Known, Busy
  <2> QED
    BY <2>1, <2>2
<1>37. ASSUME RestoreFails PROVE RestartOK'
  BY <1>37, EndsAre DEF RestoreFails, Goto
<1>38. ASSUME Restored PROVE RestartOK'
  <2>1. /\ pc' = [pc EXCEPT ![Main] = "inspect"] /\ pc[Main] = "restored"
        /\ found'.alive = found.alive /\ (Alive' => Alive)
        /\ UNCHANGED <<c, starts, recorded, gaveUp, registered>>
    BY <1>38 DEF Restored, Goto, DeletedTask, NoTask
  <2> QED
    BY <2>1
<1>39. ASSUME Inspects PROVE RestartOK'
  <2>1. c.Restarting => c.Running
    BY DEF RecordOK, Fits
  <2>2. /\ pc' = [pc EXCEPT ![Main] = IF c.Running \/ c.Paused
                                       THEN IF ~found.alive THEN "stopped"
                                            ELSE IF c.Paused THEN "status" ELSE "reset"
                                       ELSE "list"]
        /\ pc[Main] = "inspect"
        /\ UNCHANGED <<c, found, task, starts, recorded, gaveUp, registered>>
    BY <1>39 DEF Inspects, Goto
  <2> QED
    BY <2>1, <2>2
<1>40. ASSUME Status PROVE RestartOK'
  <2>1. c'.Restarting = c.Restarting
    BY <1>40, StatusSaved
  <2> QED
    BY <1>40, <2>1, EndsAre DEF Status, Goto
<1>41. ASSUME StatusFails PROVE RestartOK'
  BY <1>41, EndsAre DEF StatusFails, Goto
<1>42. ASSUME MarksStopped PROVE RestartOK'
  <2>1. ~c'.Restarting /\ pc[Restarter] = "idle" /\ pc' = [pc EXCEPT ![Main] = "reset"]
    BY <1>42, StoppedFields DEF MarksStopped, Save, Goto
  <2> QED
    BY <2>1
<1>43. ASSUME ResetsManager PROVE RestartOK'
  BY <1>43, EndsAre DEF ResetsManager, Goto, ResetRestartManager, CanceledRestart
<1>44. ASSUME Lists PROVE RestartOK'
  BY <1>44, EndsAre DEF Lists, Goto, ShouldRestart, Activate
<1>45. ASSUME Unmarks PROVE RestartOK'
  <2>1. c'.Restarting = c.Restarting
    BY <1>45, UnmarkSaved
  <2> QED
    BY <1>45, <2>1, EndsAre DEF Unmarks, Goto
<1>46. ASSUME Ready PROVE RestartOK'
  BY <1>46, EndsAre DEF Ready, Goto
<1> QED
  BY <1>1, <1>2, <1>3, <1>4, <1>5, <1>6, <1>7, <1>8, <1>9, <1>10, <1>11, <1>12, <1>13, <1>14,
        <1>15, <1>16, <1>17, <1>18, <1>19, <1>20, <1>21, <1>22, <1>23, <1>24, <1>25, <1>26,
        <1>27, <1>28, <1>29, <1>30, <1>31, <1>32, <1>33, <1>34, <1>35, <1>36, <1>37, <1>38,
        <1>39, <1>40, <1>41, <1>42, <1>43, <1>44, <1>45, <1>46 DEF Next, Start, Removal, Event,
        Backoff, RestoreStep

-----------------------------------------------------------------------------
(***************************************************************************)
(* The steps that change what is pending, or what the record says of the   *)
(* process; and what all the others leave alone.                           *)
(***************************************************************************)
Effect ==
    \/ \E t \in Threads : StartsTask(t) \/ Started(t) \/ Signal(t)
    \/ \E code \in scenario.ExitCodes : ProcessExits(code)
    \/ Pause \/ Unpause \/ Paused
    \/ EventDone \/ EventStart \/ EventPaused \/ EventExit \/ ExitDecides
    \/ Crash \/ ShutdownEnds \/ Loads \/ Registers \/ MarksStopped

Plain ==
    /\ UNCHANGED <<queue, lost, starts, recorded>>
    /\ c'.Pid = c.Pid /\ (Busy(c') <=> Busy(c)) /\ (c'.Paused => c.Paused)
    /\ \A t \in Threads : pc'[t] = "started" <=> pc[t] = "started"
    /\ pc'[Monitor] \in {"idle", "exit", "decide"} <=> pc[Monitor] \in {"idle", "exit", "decide"}
    /\ pc'[Monitor] \in {"exit", "decide"} => pc[Monitor] \in {"exit", "decide"}
    /\ (Alive' <=> Alive) /\ (task'.frozen <=> task.frozen)
    /\ (registered' => registered) /\ (gaveUp => gaveUp')
    /\ pc'[Main] \in RestoreLabels => pc[Main] \in RestoreLabels
    /\ pc'[Api] # "pausing"  \/ pc[Api] = "pausing"

\* The other steps are plain.
LEMMA PlainSteps ==
    ASSUME IInv, Next, ~raced', ~Effect
    PROVE  Plain
<1> USE ThreadFacts DEF bounds, history, outside, manager
<1>0. /\ ~raced /\ TypeOK /\ ControlOK /\ LoadedOK /\ DeadOK /\ TaskOK /\ DataOK
      /\ scenario \in Scenarios
  BY RacedStays DEF IInv, TypeOK
<1>e. /\ EventStart => UNCHANGED <<c, disk, recorded>>
      /\ Handles("paused") /\ Unlocked => Busy(c)
      /\ pc[Monitor] = "decide" => ~Alive /\ Busy(c) /\ queue # <<>> /\ Tail(queue) = <<>>
  BY <1>0, EventFacts
<1>t. /\ c \in Containers /\ disk \in Containers \cup {Gone} /\ registered \in BOOLEAN
      /\ up \in {"down", "restoring", "up", "stopping"}
      /\ lock \in Threads \cup {Free} /\ \A t \in Threads : lock = t <=> pc[t] \in HoldsLock
      /\ found.list \in {"none", "start", "rm", "ready"} /\ task \in Tasks
  BY <1>0 DEF TypeOK, Tasks
<1>l. LabelsOK /\ PhaseOK /\ RolesOK
  BY <1>0 DEF ControlOK
<1>r. c' \in Containers /\ disk' \in Containers \cup {Gone} /\ c' # Gone
  <2>1. \A r \in Containers : r # Gone
    BY DEF Containers, Gone
  <2> QED
    BY <2>1, RecordTypes
<1>p. starts \in Nat /\ recorded \in 0 .. starts
  BY <1>0, ScenarioFacts DEF TaskOK
<1>d. RecordOK /\ RestartOK /\ TaskOK
  BY <1>0 DEF DataOK
<1> USE <1>l, <1>t, <1>d, <1>r, <1>p DEF Plain, LabelsOK, PhaseOK, RecordOK, Fits, Busy, Alive,
           RestoreLabels, StartLabels, KillLabels, RmLabels, HoldsLock
<1>1. ASSUME NEW op \in AllOps, Request(op) PROVE Plain
  BY <1>1, EndsAre DEF Request, AllOps, Goto
<1>2. ASSUME NEW t \in Threads, StartRefused(t) PROVE Plain
  BY <1>2, EndsAre DEF StartRefused, StartFailed, Resets, Unlocked, Goto
<1>3. ASSUME NEW t \in Threads, Creates(t) PROVE Plain
  <2>1. /\ c'.Running = c.Running /\ c'.Restarting = c.Restarting /\ c'.Pid = c.Pid
        /\ (c'.Paused => c.Paused)
    BY <1>3, ForStartFields DEF Creates
  <2>2. (Alive' <=> Alive) /\ (task'.frozen <=> task.frozen)
    BY <1>3 DEF Creates, DeletedTask, NoTask, TaskOK
  <2> QED
    BY <1>3, <2>1, <2>2 DEF Creates, Starts, Goto
<1>4. ASSUME NEW t \in Threads, StartFails(t) PROVE Plain
  <2>1. /\ c'.Running = c.Running /\ c'.Restarting = c.Restarting /\ c'.Pid = c.Pid
        /\ (c'.Paused => c.Paused)
    BY <1>4, FailureSaved
  <2> QED
    BY <1>4, <2>1, EndsAre, ZenonT(60) DEF StartFails, Starts, StartFailed, Goto
<1>5. ASSUME NEW t \in Threads, StartsTask(t) PROVE Plain
  BY <1>5 DEF Effect
<1>6. ASSUME NEW t \in Threads, Started(t) PROVE Plain
  BY <1>6 DEF Effect
<1>7. ASSUME NEW t \in Threads, Kill(t) PROVE Plain
  <2>1. /\ c'.Running = c.Running /\ c'.Restarting = c.Restarting /\ c'.Pid = c.Pid
        /\ (c'.Paused => c.Paused)
    BY <1>7, KillSaved
  <2> QED
    BY <1>7, <2>1, EndsAre DEF Kill, Killed, Goto
<1>8. ASSUME NEW t \in Threads, Signal(t) PROVE Plain
  BY <1>8 DEF Effect
<1>9. ASSUME NEW t \in Threads, Waited(t) PROVE Plain
  BY <1>9, EndsAre DEF Waited, Killed, Unlocked, Goto
<1>10. ASSUME NEW t \in Threads, Rm(t) PROVE Plain
  <2>1. /\ c'.Running = c.Running /\ c'.Restarting = c.Restarting /\ c'.Pid = c.Pid
        /\ (c'.Paused => c.Paused)
    BY <1>10, RmSaved
  <2> QED
    BY <1>10, <2>1, EndsAre DEF Rm, Goto
<1>11. ASSUME NEW t \in Threads, RmDead(t) PROVE Plain
  BY <1>11, EndsAre DEF RmDead, Unlocked, Goto, SaveOrFail, SaveFile
<1>12. ASSUME NEW t \in Threads, RmLayer(t) PROVE Plain
  BY <1>12, EndsAre DEF RmLayer, Goto
<1>13. ASSUME NEW t \in Threads, RmFiles(t) PROVE Plain
  BY <1>13, EndsAre DEF RmFiles, Goto
<1>14. ASSUME NEW t \in Threads, RmEnd(t) PROVE Plain
  <2>1. /\ c'.Running = c.Running /\ c'.Restarting = c.Restarting /\ c'.Pid = c.Pid
        /\ (c'.Paused => c.Paused)
    BY <1>14, RmEndSaved
  <2> QED
    BY <1>14, <2>1, EndsAre DEF RmEnd, Goto
<1>15. ASSUME Pause PROVE Plain
  BY <1>15 DEF Effect
<1>16. ASSUME Unpause PROVE Plain
  BY <1>16 DEF Effect
<1>17. ASSUME Paused PROVE Plain
  BY <1>17 DEF Effect
<1>18. ASSUME EventDone PROVE Plain
  BY <1>18 DEF Effect
<1>19. ASSUME EventStart PROVE Plain
  BY <1>19 DEF Effect
<1>20. ASSUME EventPaused PROVE Plain
  BY <1>20 DEF Effect
<1>21. ASSUME EventExit PROVE Plain
  BY <1>21 DEF Effect
<1>22. ASSUME ExitDeletes PROVE Plain
  <2>1. (Alive' <=> Alive) /\ (task'.frozen <=> task.frozen)
    BY <1>22 DEF ExitDeletes, DeletedTask, NoTask, TaskOK
  <2> QED
    BY <1>22, <2>1 DEF ExitDeletes, Goto
<1>23. ASSUME ExitDecides PROVE Plain
  BY <1>23 DEF Effect
<1>24. ASSUME ExitSaves PROVE Plain
  BY <1>24, EndsAre DEF ExitSaves, SaveFile
<1>25. ASSUME TimerFires PROVE Plain
  BY <1>25, EndsAre DEF TimerFires
<1>26. ASSUME BackoffEnds PROVE Plain
  BY <1>26, EndsAre DEF BackoffEnds, Goto
<1>27. ASSUME BackoffCanceled PROVE Plain
  BY <1>27, EndsAre DEF BackoffCanceled, Goto
<1>28. ASSUME StartupDone PROVE Plain
  BY <1>28, EndsAre DEF StartupDone, Goto
<1>29. ASSUME GiveUp PROVE Plain
  <2>1. c.Restarting /\ ~Busy(c') /\ c'.Pid = 0 /\ ~c'.Paused
    BY <1>29, StoppedFields DEF GiveUp, Save, RestartOK
  <2> QED
    BY <1>29, <2>1 DEF GiveUp, Goto
<1>30. ASSUME NEW code \in scenario.ExitCodes, ProcessExits(code) PROVE Plain
  BY <1>30 DEF Effect
<1>31. ASSUME Crash PROVE Plain
  BY <1>31 DEF Effect
<1>32. ASSUME Shutdown PROVE Plain
  BY <1>32, EndsAre DEF Shutdown, Goto
<1>33. ASSUME ShutdownEnds PROVE Plain
  BY <1>33 DEF Effect
<1>34. ASSUME Loads PROVE Plain
  BY <1>34 DEF Effect
<1>35. ASSUME Registers PROVE Plain
  BY <1>35 DEF Effect
<1>36. ASSUME Restores PROVE Plain
  BY <1>36, EndsAre DEF Restores, Goto
<1>37. ASSUME RestoreFails PROVE Plain
  BY <1>37, EndsAre DEF RestoreFails, Goto
<1>38. ASSUME Restored PROVE Plain
  <2>1. (Alive' <=> Alive) /\ (task'.frozen <=> task.frozen)
    BY <1>38 DEF Restored, DeletedTask, NoTask, TaskOK
  <2> QED
    BY <1>38, <2>1 DEF Restored, Goto
<1>39. ASSUME Inspects PROVE Plain
  BY <1>39, EndsAre DEF Inspects, Unlocked, Goto, CancelRestart, CanceledRestart
<1>40. ASSUME Status PROVE Plain
  <2>1. /\ c'.Running = c.Running /\ c'.Restarting = c.Restarting /\ c'.Pid = c.Pid
        /\ (c'.Paused => c.Paused)
    BY <1>40, StatusSaved
  <2> QED
    BY <1>40, <2>1, EndsAre DEF Status, Goto
<1>41. ASSUME StatusFails PROVE Plain
  BY <1>41, EndsAre DEF StatusFails, Goto
<1>42. ASSUME MarksStopped PROVE Plain
  BY <1>42 DEF Effect
<1>43. ASSUME ResetsManager PROVE Plain
  BY <1>43, EndsAre DEF ResetsManager, Goto, ResetRestartManager, CanceledRestart
<1>44. ASSUME Lists PROVE Plain
  BY <1>44, EndsAre DEF Lists, Goto, ShouldRestart, Activate
<1>45. ASSUME Unmarks PROVE Plain
  <2>1. /\ c'.Running = c.Running /\ c'.Restarting = c.Restarting /\ c'.Pid = c.Pid
        /\ (c'.Paused => c.Paused)
    BY <1>45, UnmarkSaved
  <2> QED
    BY <1>45, <2>1, EndsAre DEF Unmarks, Goto
<1>46. ASSUME Ready PROVE Plain
  BY <1>46, EndsAre DEF Ready, Goto
<1> QED
  BY <1>1, <1>2, <1>3, <1>4, <1>5, <1>6, <1>7, <1>8, <1>9, <1>10, <1>11, <1>12, <1>13, <1>14,
        <1>15, <1>16, <1>17, <1>18, <1>19, <1>20, <1>21, <1>22, <1>23, <1>24, <1>25, <1>26,
        <1>27, <1>28, <1>29, <1>30, <1>31, <1>32, <1>33, <1>34, <1>35, <1>36, <1>37, <1>38,
        <1>39, <1>40, <1>41, <1>42, <1>43, <1>44, <1>45, <1>46 DEF Next, Start, Removal, Event,
        Backoff, RestoreStep

-----------------------------------------------------------------------------
\* The pending events are events of processes that were started.
LEMMA PendingFacts ==
    ASSUME IInv
    PROVE  /\ Pending \in Seq(Events) /\ queue \in Seq(Events)
           /\ (Past => queue # <<>>) /\ (~Past => Pending = queue)
           /\ DOMAIN Pending = 1 .. Len(Pending) /\ Len(Pending) \in Nat
           /\ \A i \in DOMAIN Pending : Pending[i].pid \in 1 .. starts /\ Pending[i] \in Events
<1>0. queue \in Seq(Events) /\ PhaseOK /\ PidsOK
  BY DEF IInv, TypeOK, ControlOK
<1>1. Past => queue # <<>>
  BY <1>0 DEF PhaseOK, Past
<1>2. CASE Past
  <2>1. queue # <<>> /\ Pending = Tail(queue)
    BY <1>1, <1>2 DEF Pending
  <2>2. Pending \in Seq(Events)
    BY <1>0, <2>1
  <2>3. \A i \in DOMAIN Pending : i + 1 \in DOMAIN queue /\ Pending[i] = queue[i + 1]
    BY <1>0, <2>1, TailFacts
  <2> QED
    BY <1>0, <1>1, <1>2, <2>2, <2>3 DEF PidsOK
<1>3. CASE ~Past
  <2>1. Pending = queue
    BY <1>3 DEF Pending
  <2> QED
    BY <1>0, <1>1, <2>1 DEF PidsOK
<1> QED
  BY <1>2, <1>3

\* An event is pending when it has arrived, and is not when it is lost.
LEMMA EmitPending ==
    ASSUME IInv, NEW e \in Events, Emit(e.type, e.pid, e.code),
           e = [type |-> e.type, pid |-> e.pid, code |-> e.code],
           pc'[Monitor] = pc[Monitor] \/ (Past /\ Past')
    PROVE  \/ Pending' = Append(Pending, e) /\ queue' = Append(queue, e) /\ lost' = lost /\ up # "down"
           \/ Pending' = Pending /\ queue' = queue /\ lost' = (up # "down")
<1>0. queue \in Seq(Events) /\ (Past => queue # <<>>)
  BY PendingFacts
<1>1. Past' <=> Past
  BY DEF Past
<1>2. CASE queue' = Append(queue, e) /\ lost' = lost /\ up # "down"
  <2>1. CASE Past
    <3>1. Pending' = Tail(Append(queue, e)) /\ Pending = Tail(queue) /\ queue # <<>>
      BY <1>0, <1>1, <1>2, <2>1 DEF Pending
    <3>2. Tail(Append(queue, e)) = Append(Tail(queue), e)
      <4>1. /\ Tail(Append(queue, e)) \in Seq(Events) /\ Append(Tail(queue), e) \in Seq(Events)
            /\ Len(Tail(Append(queue, e))) = Len(queue)
            /\ Len(Append(Tail(queue), e)) = Len(queue)
            /\ \A i \in 1 .. Len(queue) : Tail(Append(queue, e))[i] = Append(Tail(queue), e)[i]
        BY <1>0, <3>1
      <4> QED
        BY <4>1, SeqEqual
    <3> QED
      BY <1>2, <3>1, <3>2
  <2>2. CASE ~Past
    BY <1>1, <1>2, <2>2 DEF Pending
  <2> QED
    BY <2>1, <2>2
<1>3. CASE queue' = queue /\ lost' = (up # "down")
  BY <1>1, <1>3 DEF Pending
<1> QED
  BY <1>2, <1>3 DEF Emit

\* The Monitor takes an event off the queue.
LEMMA TailPending ==
    ASSUME IInv, pc[Monitor] = "idle", pc'[Monitor] = "idle", queue # <<>>, queue' = Tail(queue)
    PROVE  /\ Pending = queue /\ Pending' = Tail(Pending) /\ Len(Pending') = Len(Pending) - 1
           /\ 1 \in DOMAIN Pending /\ Head(queue) = Pending[1]
           /\ \A i \in DOMAIN Pending' : i \in Nat /\ i + 1 \in DOMAIN Pending /\ Pending'[i] = Pending[i + 1]
           /\ \A i \in DOMAIN Pending : i # 1 =>
                 i - 1 \in DOMAIN Pending' /\ Pending'[i - 1] = Pending[i]
<1>1. queue \in Seq(Events)
  BY DEF IInv, TypeOK
<1>2. Pending = queue /\ Pending' = Tail(Pending)
  BY DEF Pending, Past
<1> QED
  BY <1>1, <1>2, TailFacts


\* What a plain step leaves alone: the pending events, and the process they are about.
LEMMA PlainPending ==
    ASSUME Plain
    PROVE  Pending' = Pending /\ Cur' = Cur /\ (BeingStarted' <=> BeingStarted)
<1>1. Past' <=> Past
  BY DEF Plain, Past
<1>2. Pending' = Pending
  BY <1>1 DEF Plain, Pending
<1>3. BeingStarted' <=> BeingStarted
  BY DEF Plain, BeingStarted
<1> QED
  BY <1>2, <1>3 DEF Plain, Cur

\* Nobody is between the start of the process and its record while the lock is free.
LEMMA CurIs ==
    ASSUME IInv
    PROVE  /\ (\E t \in Threads : pc[t] = "started") => Cur = starts /\ BeingStarted
           /\ (\A t \in Threads : pc[t] # "started") => Cur = c.Pid /\ ~BeingStarted
           /\ lock \in {Free, Monitor} => \A t \in Threads : pc[t] \notin {"created", "started"}
           /\ \A t, u \in Threads : pc[t] \in HoldsLock /\ pc[u] \in HoldsLock => t = u
<1>0. /\ LabelsOK /\ lock \in Threads \cup {Free}
      /\ \A t \in Threads : lock = t <=> pc[t] \in HoldsLock
  BY DEF IInv, TypeOK, ControlOK
<1>1. lock \in {Free, Monitor} => \A t \in Threads : pc[t] \notin {"created", "started"}
  BY <1>0, ThreadFacts DEF HoldsLock, LabelsOK, MonitorLabels, KillLabels, RmLabels
<1> QED
  BY <1>0, <1>1 DEF Cur, BeingStarted

\* How the pending events stay in line with the record.
LEMMA PendingKept ==
    ASSUME IInv, ~raced, Busy(c) => Busy(c'), Cur' = Cur, Alive' => Alive,
           \/ Pending' = Pending
           \/ /\ Len(Pending') = Len(Pending) - 1
              /\ \A i \in DOMAIN Pending' : i + 1 \in DOMAIN Pending /\ Pending'[i] = Pending[i + 1]
    PROVE  PendingOK'
<1>0. PendingOK /\ DOMAIN Pending = 1 .. Len(Pending) /\ Len(Pending) \in Nat
  BY PendingFacts DEF IInv, DataOK, EventsOK
<1>1. CASE Pending' = Pending
  BY <1>0, <1>1 DEF PendingOK, Busy
<1>2. CASE /\ Len(Pending') = Len(Pending) - 1
           /\ \A i \in DOMAIN Pending' : i + 1 \in DOMAIN Pending /\ Pending'[i] = Pending[i + 1]
  <2> SUFFICES ASSUME NEW i \in DOMAIN Pending'
               PROVE  /\ Pending'[i].type = "start" => Pending'[i].pid = Cur'
                      /\ Pending'[i].type = "paused" => Busy(c')
                      /\ Pending'[i].type = "exit" /\ Pending'[i].pid = Cur' =>
                            i = Len(Pending') /\ ~Alive'
    BY DEF PendingOK, Busy
  <2>1. i + 1 \in DOMAIN Pending /\ Pending'[i] = Pending[i + 1]
    BY <1>2
  <2>2. i + 1 \in 1 .. Len(Pending) => (i + 1 = Len(Pending) => i = Len(Pending'))
    BY <1>0, <1>2
  <2> QED
    BY <1>0, <1>2, <2>1, <2>2 DEF PendingOK
<1> QED
  BY <1>1, <1>2

\* The events that are pending, through every step.
LEMMA EventsKept ==
    ASSUME IInv, Next, ~raced'
    PROVE  EventsOK'
<1> USE ThreadFacts DEF bounds, history, outside, manager
<1>0. /\ ~raced /\ TypeOK /\ ControlOK /\ LoadedOK /\ DeadOK /\ TaskOK /\ DataOK
      /\ scenario \in Scenarios
  BY RacedStays DEF IInv, TypeOK
<1>e. /\ EventStart => UNCHANGED <<c, disk, recorded>>
      /\ Handles("paused") /\ Unlocked => Busy(c)
      /\ pc[Monitor] = "decide" => ~Alive /\ Busy(c) /\ queue # <<>> /\ Tail(queue) = <<>>
  BY <1>0, EventFacts
<1>t. /\ c \in Containers /\ disk \in Containers \cup {Gone} /\ registered \in BOOLEAN
      /\ up \in {"down", "restoring", "up", "stopping"}
      /\ lock \in Threads \cup {Free} /\ \A t \in Threads : lock = t <=> pc[t] \in HoldsLock
      /\ found.list \in {"none", "start", "rm", "ready"} /\ task \in Tasks
  BY <1>0 DEF TypeOK, Tasks
<1>l. LabelsOK /\ PhaseOK /\ RolesOK
  BY <1>0 DEF ControlOK
<1>r. c' \in Containers /\ disk' \in Containers \cup {Gone} /\ c' # Gone
  <2>1. \A r \in Containers : r # Gone
    BY DEF Containers, Gone
  <2> QED
    BY <2>1, RecordTypes
<1>p. starts \in Nat /\ recorded \in 0 .. starts
  BY <1>0, ScenarioFacts DEF TaskOK
<1>d. /\ RecordOK /\ RestartOK /\ TaskOK /\ PidsOK /\ EventsOK /\ HandledOK /\ PendingOK /\ RestoringOK
      /\ queue \in Seq(Events)
  BY <1>0 DEF DataOK, IInv, EventsOK, TypeOK
<1>c. 0 \in Codes /\ scenario.ExitCodes \subseteq Codes /\ task.pid \in Pids /\ starts \in Pids
  BY <1>0, <1>t, ScenarioFacts DEF Tasks, TaskOK
<1>f. /\ Pending \in Seq(Events) /\ (Past => queue # <<>>) /\ (~Past => Pending = queue)
      /\ DOMAIN Pending = 1 .. Len(Pending) /\ Len(Pending) \in Nat
      /\ \A i \in DOMAIN Pending : Pending[i].pid \in 1 .. starts /\ Pending[i] \in Events
  BY PendingFacts
<1>u. /\ (\E t \in Threads : pc[t] = "started") => Cur = starts /\ BeingStarted
      /\ (\A t \in Threads : pc[t] # "started") => Cur = c.Pid /\ ~BeingStarted
      /\ lock \in {Free, Monitor} => \A t \in Threads : pc[t] \notin {"created", "started"}
      /\ \A t, u \in Threads : pc[t] \in HoldsLock /\ pc[u] \in HoldsLock => t = u
  BY CurIs
<1>z. ASSUME c'.Pid = c.Pid, starts' = starts, \A t \in Threads : pc'[t] = "started" <=> pc[t] = "started"
      PROVE  Cur' = Cur
  BY <1>z DEF Cur, BeingStarted
<1>w. Past => pc[Monitor] \notin {"exit", "decide"}
  BY DEF Past
<1>1. ASSUME ~Effect PROVE EventsOK'
  <2>1. Plain
    BY <1>1, PlainSteps
  <2>2. PendingOK'
    BY <1>0, <2>1, PlainPending, PendingKept DEF Plain
  <2>3. HandledOK' /\ RestoringOK'
    BY <1>d, <2>1 DEF Plain, HandledOK, RestoringOK, Busy
  <2> QED
    BY <2>2, <2>3 DEF EventsOK
<1>2. ASSUME NEW t \in Threads, StartsTask(t) PROVE EventsOK'
  <2> DEFINE e == [type |-> "start", pid |-> starts + 1, code |-> 0]
  <2>0. /\ pc[t] = "created" /\ starts' = starts + 1 /\ pc' = [pc EXCEPT ![t] = "started"]
        /\ Emit("start", starts + 1, 0) /\ UNCHANGED <<c, up>> /\ t # Monitor
        /\ starts < scenario.MaxStarts
    BY <1>2, <1>l, <1>0 DEF StartsTask, Goto, LabelsOK, MonitorLabels, KillLabels, RmLabels,
       TaskOK
  <2>1. e \in Events
    BY <1>0, <1>c, <1>p, <2>0, ScenarioFacts DEF Events, Pids
  <2>2. \/ Pending' = Append(Pending, e) /\ queue' = Append(queue, e)
        \/ Pending' = Pending /\ queue' = queue
    BY <2>0, <2>1, <1>l, EmitPending DEF LabelsOK
  <2>3. Cur' = starts + 1 /\ ~Busy(c) /\ c.Pid = 0 /\ Cur = 0 /\ ~Alive
    <3>1. ~Busy(c) /\ c.Pid = 0 /\ ~Alive
      BY <1>d, <2>0 DEF RecordOK, Fits, TaskOK, Alive, NoTask
    <3>2. \A u \in Threads : pc[u] # "started"
      BY <1>u, <2>0 DEF HoldsLock
    <3>3. Cur' = starts'
      BY <2>0, <1>l DEF Cur, BeingStarted, LabelsOK
    <3> QED
      BY <1>u, <2>0, <3>1, <3>2, <3>3
  <2>4. \A i \in DOMAIN Pending : Pending[i].type \notin {"start", "paused"} /\ Pending[i].pid # starts + 1
    BY <1>d, <1>f, <1>p, <2>3 DEF PendingOK
  <2>5. PendingOK'
    <3>1. CASE Pending' = Pending
      BY <2>3, <2>4, <3>1 DEF PendingOK
    <3>2. CASE Pending' = Append(Pending, e)
      BY <2>3, <2>4, <3>2, <1>f, <2>1, QueueFacts DEF PendingOK
    <3> QED
      BY <2>2, <3>1, <3>2
  <2>6. pc[Monitor] \notin {"exit", "decide"}
    BY <1>d, <2>3 DEF HandledOK
  <2>7. pc'[Main] \notin RestoreLabels
    BY <1>l, <1>t, <2>0 DEF LabelsOK, PhaseOK, RestoreLabels, BootLabels, StartLabels,
          ApiLabels, KillLabels
  <2> QED
    BY <1>l, <2>0, <2>5, <2>6, <2>7 DEF EventsOK, HandledOK, RestoringOK, LabelsOK
<1>3. ASSUME NEW t \in Threads, Started(t) PROVE EventsOK'
  <2>0. /\ pc[t] = "started" /\ pc' = [pc EXCEPT ![t] = Ends(t)] /\ t # Monitor
        /\ UNCHANGED <<queue, task, up, starts>>
    BY <1>3, <1>l DEF Started, Goto, outside, bounds, LabelsOK, MonitorLabels, KillLabels,
       RmLabels
  <2>1. c'.Running /\ ~c'.Restarting /\ c'.Pid = starts
    BY <1>3, <1>t, StartedFields DEF Started, Save
  <2>2. Pending' = Pending
    BY <2>0, <1>l DEF Pending, Past, LabelsOK
  <2>3. Cur' = Cur
    <3>1. \A u \in Threads : pc'[u] # "started"
      BY <1>l, <1>u, <2>0, EndsAre DEF HoldsLock, LabelsOK
    <3> QED
      BY <2>0, <2>1, <3>1, <1>u DEF Cur, BeingStarted
  <2>4. PendingOK'
    BY <1>0, <2>0, <2>1, <2>2, <2>3, PendingKept DEF Busy, Alive
  <2>5. pc[Monitor] \notin {"exit", "decide"}
    BY <1>d, <2>0 DEF HandledOK, RecordOK
  <2>6. pc'[Main] \in RestoreLabels => pc[Main] \in RestoreLabels
    BY <1>l, <2>0, EndsAre DEF RestoreLabels, LabelsOK
  <2> QED
    BY <1>l, <1>d, <2>0, <2>4, <2>5, <2>6 DEF EventsOK, HandledOK, RestoringOK, LabelsOK
<1>4. ASSUME NEW code \in scenario.ExitCodes, ProcessExits(code) PROVE EventsOK'
  <2> DEFINE e == [type |-> "exit", pid |-> task.pid, code |-> code]
  <2>0. /\ UNCHANGED <<c, up, starts>> /\ (\A u \in Threads : pc'[u] = "started" <=> pc[u] = "started")
        /\ (pc'[Monitor] = pc[Monitor] \/ (Past /\ Past')) /\ (Alive' => Alive)
        /\ (pc'[Main] \in RestoreLabels => pc[Main] \in RestoreLabels)
    BY <1>4, <1>l DEF ProcessExits, Goto, bounds, Past, Alive, LabelsOK, RestoreLabels
  <2>1. Cur' = Cur
    BY <1>z, <2>0
  <2>2. UNCHANGED queue \/ (Alive /\ Emit("exit", task.pid, code))
    BY <1>4, <1>t DEF ProcessExits, Busy, Alive
  <2>3. e \in Events
    BY <1>c, <1>4 DEF Events
  <2>4. CASE UNCHANGED queue
    <3>1. Pending' = Pending
      BY <2>0, <2>4 DEF Pending, Past
    <3>2. PendingOK'
      BY <1>0, <2>0, <2>1, <3>1, PendingKept
    <3> QED
      BY <1>d, <1>w, <2>0, <2>4, <3>2 DEF EventsOK, HandledOK, RestoringOK, Past
  <2>5. CASE Alive /\ Emit("exit", task.pid, code)
    <3>1. \/ Pending' = Append(Pending, e) /\ queue' = Append(queue, e)
          \/ Pending' = Pending /\ queue' = queue
      BY <2>0, <2>3, <2>5, EmitPending
    <3>2. \A i \in DOMAIN Pending : ~(Pending[i].type = "exit" /\ Pending[i].pid = Cur)
      BY <1>d, <2>5 DEF PendingOK
    <3>3. PendingOK'
      <4>1. CASE Pending' = Pending
        BY <1>0, <2>0, <2>1, <4>1, PendingKept
      <4>2. CASE Pending' = Append(Pending, e)
        BY <1>d, <1>f, <2>0, <2>1, <2>3, <2>5, <3>2, <4>2, <1>4, QueueFacts DEF PendingOK,
              ProcessExits, Alive
      <4> QED
        BY <3>1, <4>1, <4>2
    <3>4. queue # <<>> => queue'[1] = queue[1]
      <4>1. queue # <<>> => 1 \in 1 .. Len(queue)
        BY <1>d, TailFacts
      <4> QED
        BY <1>d, <2>3, <3>1, <4>1, QueueFacts
    <3>5. RestoringOK'
      <4>1. \A i \in DOMAIN queue' : queue'[i] = e \/ (i \in DOMAIN queue /\ queue'[i] = queue[i])
        BY <1>d, <2>3, <3>1, QueueFacts
      <4> QED
        BY <1>d, <1>l, <1>t, <2>0, <4>1, <1>4 DEF RestoringOK
    <3> QED
      BY <1>d, <1>l, <1>w, <2>0, <3>3, <3>4, <3>5 DEF EventsOK, HandledOK, Past, PhaseOK
  <2> QED
    BY <2>2, <2>4, <2>5
<1>5. ASSUME NEW t \in Threads, Signal(t) PROVE EventsOK'
  <2> DEFINE e == [type |-> "resumed", pid |-> task.pid, code |-> 0]
  <2>0. /\ UNCHANGED <<c, up, starts>> /\ (\A u \in Threads : pc'[u] = "started" <=> pc[u] = "started")
        /\ (pc'[Monitor] = pc[Monitor] \/ (Past /\ Past')) /\ (Alive' => Alive)
        /\ (pc'[Main] \in RestoreLabels => pc[Main] \in RestoreLabels)
    BY <1>5, <1>l DEF Signal, Goto, bounds, Past, Alive, LabelsOK, RestoreLabels
  <2>1. Cur' = Cur
    BY <1>z, <2>0
  <2>2. UNCHANGED queue \/ (Alive /\ Emit("resumed", task.pid, 0))
    BY <1>5, <1>t DEF Signal, Busy, Alive
  <2>3. e \in Events
    BY <1>c DEF Events
  <2>4. CASE UNCHANGED queue
    <3>1. Pending' = Pending
      BY <2>0, <2>4 DEF Pending, Past
    <3>2. PendingOK'
      BY <1>0, <2>0, <2>1, <3>1, PendingKept
    <3> QED
      BY <1>d, <1>w, <2>0, <2>4, <3>2 DEF EventsOK, HandledOK, RestoringOK, Past
  <2>5. CASE Alive /\ Emit("resumed", task.pid, 0)
    <3>1. \/ Pending' = Append(Pending, e) /\ queue' = Append(queue, e)
          \/ Pending' = Pending /\ queue' = queue
      BY <2>0, <2>3, <2>5, EmitPending
    <3>2. \A i \in DOMAIN Pending : ~(Pending[i].type = "exit" /\ Pending[i].pid = Cur)
      BY <1>d, <2>5 DEF PendingOK
    <3>3. PendingOK'
      <4>1. CASE Pending' = Pending
        BY <1>0, <2>0, <2>1, <4>1, PendingKept
      <4>2. CASE Pending' = Append(Pending, e)
        BY <1>d, <1>f, <2>0, <2>1, <2>3, <2>5, <3>2, <4>2, <1>5, QueueFacts DEF PendingOK, Busy
      <4> QED
        BY <3>1, <4>1, <4>2
    <3>4. queue # <<>> => queue'[1] = queue[1]
      <4>1. queue # <<>> => 1 \in 1 .. Len(queue)
        BY <1>d, TailFacts
      <4> QED
        BY <1>d, <2>3, <3>1, <4>1, QueueFacts
    <3>5. RestoringOK'
      <4>1. \A i \in DOMAIN queue' : queue'[i] = e \/ (i \in DOMAIN queue /\ queue'[i] = queue[i])
        BY <1>d, <2>3, <3>1, QueueFacts
      <4> QED
        BY <1>d, <1>l, <1>t, <2>0, <4>1, <1>5 DEF RestoringOK
    <3> QED
      BY <1>d, <1>l, <1>w, <2>0, <3>3, <3>4, <3>5 DEF EventsOK, HandledOK, Past, PhaseOK
  <2> QED
    BY <2>2, <2>4, <2>5
<1>6. ASSUME Pause PROVE EventsOK'
  <2> DEFINE e == [type |-> "paused", pid |-> task.pid, code |-> 0]
  <2>0. /\ UNCHANGED <<c, up, starts>> /\ (\A u \in Threads : pc'[u] = "started" <=> pc[u] = "started")
        /\ (pc'[Monitor] = pc[Monitor] \/ (Past /\ Past')) /\ (Alive' => Alive)
        /\ (pc'[Main] \in RestoreLabels => pc[Main] \in RestoreLabels)
    BY <1>6, <1>l DEF Pause, Goto, bounds, Past, Alive, LabelsOK, RestoreLabels
  <2>1. Cur' = Cur
    BY <1>z, <2>0
  <2>2. UNCHANGED queue \/ (Alive /\ Emit("paused", task.pid, 0) /\ Busy(c))
    BY <1>6, <1>t DEF Pause, Busy, Alive
  <2>3. e \in Events
    BY <1>c DEF Events
  <2>4. CASE UNCHANGED queue
    <3>1. Pending' = Pending
      BY <2>0, <2>4 DEF Pending, Past
    <3>2. PendingOK'
      BY <1>0, <2>0, <2>1, <3>1, PendingKept
    <3> QED
      BY <1>d, <1>w, <2>0, <2>4, <3>2 DEF EventsOK, HandledOK, RestoringOK, Past
  <2>5. CASE Alive /\ Emit("paused", task.pid, 0) /\ Busy(c)
    <3>1. \/ Pending' = Append(Pending, e) /\ queue' = Append(queue, e)
          \/ Pending' = Pending /\ queue' = queue
      BY <2>0, <2>3, <2>5, EmitPending
    <3>2. \A i \in DOMAIN Pending : ~(Pending[i].type = "exit" /\ Pending[i].pid = Cur)
      BY <1>d, <2>5 DEF PendingOK
    <3>3. PendingOK'
      <4>1. CASE Pending' = Pending
        BY <1>0, <2>0, <2>1, <4>1, PendingKept
      <4>2. CASE Pending' = Append(Pending, e)
        BY <1>d, <1>f, <2>0, <2>1, <2>3, <2>5, <3>2, <4>2, <1>6, QueueFacts DEF PendingOK, Busy
      <4> QED
        BY <3>1, <4>1, <4>2
    <3>4. queue # <<>> => queue'[1] = queue[1]
      <4>1. queue # <<>> => 1 \in 1 .. Len(queue)
        BY <1>d, TailFacts
      <4> QED
        BY <1>d, <2>3, <3>1, <4>1, QueueFacts
    <3>5. RestoringOK'
      <4>1. \A i \in DOMAIN queue' : queue'[i] = e \/ (i \in DOMAIN queue /\ queue'[i] = queue[i])
        BY <1>d, <2>3, <3>1, QueueFacts
      <4> QED
        BY <1>d, <1>l, <1>t, <2>0, <4>1, <1>6 DEF RestoringOK, Pause, PhaseOK, RestoreLabels,
              KillLabels, Goto, LabelsOK
    <3> QED
      BY <1>d, <1>l, <1>w, <2>0, <3>3, <3>4, <3>5 DEF EventsOK, HandledOK, Past, PhaseOK
  <2> QED
    BY <2>2, <2>4, <2>5
<1>7. ASSUME Unpause PROVE EventsOK'
  <2> DEFINE e == [type |-> "resumed", pid |-> task.pid, code |-> 0]
  <2>0. /\ UNCHANGED <<c, up, starts>> /\ (\A u \in Threads : pc'[u] = "started" <=> pc[u] = "started")
        /\ (pc'[Monitor] = pc[Monitor] \/ (Past /\ Past')) /\ (Alive' => Alive)
        /\ (pc'[Main] \in RestoreLabels => pc[Main] \in RestoreLabels)
    BY <1>7, <1>l DEF Unpause, Goto, bounds, Past, Alive, LabelsOK, RestoreLabels
  <2>1. Cur' = Cur
    BY <1>z, <2>0
  <2>2. UNCHANGED queue \/ (Alive /\ Emit("resumed", task.pid, 0))
    BY <1>7, <1>t DEF Unpause, Busy, Alive
  <2>3. e \in Events
    BY <1>c DEF Events
  <2>4. CASE UNCHANGED queue
    <3>1. Pending' = Pending
      BY <2>0, <2>4 DEF Pending, Past
    <3>2. PendingOK'
      BY <1>0, <2>0, <2>1, <3>1, PendingKept
    <3> QED
      BY <1>d, <1>w, <2>0, <2>4, <3>2 DEF EventsOK, HandledOK, RestoringOK, Past
  <2>5. CASE Alive /\ Emit("resumed", task.pid, 0)
    <3>1. \/ Pending' = Append(Pending, e) /\ queue' = Append(queue, e)
          \/ Pending' = Pending /\ queue' = queue
      BY <2>0, <2>3, <2>5, EmitPending
    <3>2. \A i \in DOMAIN Pending : ~(Pending[i].type = "exit" /\ Pending[i].pid = Cur)
      BY <1>d, <2>5 DEF PendingOK
    <3>3. PendingOK'
      <4>1. CASE Pending' = Pending
        BY <1>0, <2>0, <2>1, <4>1, PendingKept
      <4>2. CASE Pending' = Append(Pending, e)
        BY <1>d, <1>f, <2>0, <2>1, <2>3, <2>5, <3>2, <4>2, <1>7, QueueFacts DEF PendingOK, Busy
      <4> QED
        BY <3>1, <4>1, <4>2
    <3>4. queue # <<>> => queue'[1] = queue[1]
      <4>1. queue # <<>> => 1 \in 1 .. Len(queue)
        BY <1>d, TailFacts
      <4> QED
        BY <1>d, <2>3, <3>1, <4>1, QueueFacts
    <3>5. RestoringOK'
      <4>1. \A i \in DOMAIN queue' : queue'[i] = e \/ (i \in DOMAIN queue /\ queue'[i] = queue[i])
        BY <1>d, <2>3, <3>1, QueueFacts
      <4> QED
        BY <1>d, <1>l, <1>t, <2>0, <4>1, <1>7 DEF RestoringOK
    <3> QED
      BY <1>d, <1>l, <1>w, <2>0, <3>3, <3>4, <3>5 DEF EventsOK, HandledOK, Past, PhaseOK
  <2> QED
    BY <2>2, <2>4, <2>5
<1>8. ASSUME Paused PROVE EventsOK'
  <2>0. /\ pc[Api] \in {"pausing", "unpausing"} /\ pc' = [pc EXCEPT ![Api] = "idle"]
        /\ UNCHANGED <<queue, task, up, starts>>
    BY <1>8 DEF Paused, Goto, outside, bounds
  <2>1. c'.Pid = c.Pid /\ (Busy(c') <=> Busy(c))
    BY <1>8, <1>t, PausedSaved DEF Busy
  <2>2. Pending' = Pending /\ Cur' = Cur
    BY <1>z, <2>0, <2>1, <1>l, ThreadFacts DEF Pending, Past, LabelsOK
  <2>3. PendingOK'
    BY <1>0, <2>0, <2>1, <2>2, PendingKept DEF Alive
  <2> QED
    BY <1>d, <1>l, <2>0, <2>1, <2>3, ThreadFacts DEF EventsOK, HandledOK, RestoringOK, LabelsOK,
          Busy
<1>9. ASSUME EventStart PROVE EventsOK'
  <2>0. /\ pc[Monitor] = "idle" /\ pc'[Monitor] = "idle" /\ queue # <<>> /\ queue' = Tail(queue)
        /\ pc'[Main] = pc[Main] /\ (Alive' => Alive) /\ starts' = starts
        /\ (\A u \in Threads : pc'[u] = "started" <=> pc[u] = "started")
    BY <1>9, <1>l DEF EventStart, Handles, Alive, Goto, LabelsOK
  <2>1. (Busy(c) => Busy(c')) /\ Cur' = Cur
    BY <1>9, <1>e, <1>z, <2>0 DEF Busy
  <2>2. PendingOK'
    BY <1>0, <2>0, <2>1, TailPending, PendingKept
  <2>3. RestoringOK'
    BY <1>d, <2>0, TailFacts DEF RestoringOK
  <2> QED
    BY <2>0, <2>2, <2>3 DEF EventsOK, HandledOK
<1>10. ASSUME EventPaused PROVE EventsOK'
  <2>0. /\ pc[Monitor] = "idle" /\ pc'[Monitor] = "idle" /\ queue # <<>> /\ queue' = Tail(queue)
        /\ pc'[Main] = pc[Main] /\ (Alive' => Alive) /\ starts' = starts
        /\ (\A u \in Threads : pc'[u] = "started" <=> pc[u] = "started")
    BY <1>10, <1>l DEF EventPaused, Handles, Alive, Goto, LabelsOK
  <2>1. (Busy(c) => Busy(c')) /\ Cur' = Cur
    BY <1>10, <1>t, <1>z, <2>0, EventPausedSaved DEF Busy
  <2>2. PendingOK'
    BY <1>0, <2>0, <2>1, TailPending, PendingKept
  <2>3. RestoringOK'
    BY <1>d, <2>0, TailFacts DEF RestoringOK
  <2> QED
    BY <2>0, <2>2, <2>3 DEF EventsOK, HandledOK
<1>11. ASSUME EventExit PROVE EventsOK'
  <2>0. /\ UNCHANGED <<c, task, starts>> /\ pc'[Main] = pc[Main]
        /\ (\A u \in Threads : pc'[u] = "started" <=> pc[u] = "started")
    <3>1. pc' = pc \/ (pc[Monitor] = "idle" /\ pc' = [pc EXCEPT ![Monitor] = "exit"])
      BY <1>11 DEF EventExit, Handles, Goto
    <3> QED
      BY <1>11, <1>l, <3>1 DEF EventExit, LabelsOK
  <2>1. Cur' = Cur
    BY <1>z, <2>0
  <2>2. CASE Head(queue).pid = c.Pid
    <3>1. /\ pc[Monitor] = "idle" /\ queue # <<>> /\ Head(queue).type = "exit" /\ UNCHANGED queue
          /\ pc' = [pc EXCEPT ![Monitor] = "exit"]
      BY <1>11, <2>2 DEF EventExit, Handles, Goto
    <3>2. Head(queue) = queue[1] /\ c.Pid # 0
      BY <1>d, <1>f, <2>2, <3>1, TailFacts DEF PidsOK
    <3>3. Busy(c)
      BY <1>d, <3>2 DEF RecordOK, Fits
    <3>4. Pending' = Pending
      BY <1>l, <3>1 DEF Pending, Past, LabelsOK
    <3>5. PendingOK'
      BY <1>0, <2>0, <2>1, <3>4, PendingKept DEF Busy, Alive
    <3> QED
      BY <1>d, <2>0, <2>2, <3>1, <3>2, <3>3, <3>5 DEF EventsOK, HandledOK, RestoringOK, Busy
  <2>3. CASE Head(queue).pid # c.Pid
    <3>1. /\ pc[Monitor] = "idle" /\ queue # <<>> /\ queue' = Tail(queue) /\ UNCHANGED pc
      BY <1>11, <2>3 DEF EventExit, Handles
    <3>2. PendingOK'
      BY <1>0, <2>0, <2>1, <3>1, TailPending, PendingKept DEF Busy, Alive
    <3>3. RestoringOK'
      BY <1>d, <3>1, TailFacts DEF RestoringOK
    <3> QED
      BY <3>1, <3>2, <3>3 DEF EventsOK, HandledOK
  <2> QED
    BY <2>2, <2>3
<1>12. ASSUME EventDone PROVE EventsOK'
  <2>0. /\ UNCHANGED <<c, task, starts>> /\ queue # <<>> /\ queue' = Tail(queue)
        /\ pc' = [pc EXCEPT ![Monitor] = "idle"] /\ pc[Monitor] \in {"idle", "handled"}
        /\ (\A u \in Threads : pc'[u] = "started" <=> pc[u] = "started")
    BY <1>12, <1>l DEF EventDone, Goto, LabelsOK
  <2>1. Cur' = Cur
    BY <1>z, <2>0
  <2>2. PendingOK'
    <3>1. CASE pc[Monitor] = "handled"
      <4>1. Pending' = Pending
        BY <1>l, <2>0, <3>1 DEF Pending, Past, LabelsOK
      <4> QED
        BY <1>0, <2>0, <2>1, <4>1, PendingKept DEF Busy, Alive
    <3>2. CASE pc[Monitor] = "idle"
      <4>1. pc'[Monitor] = "idle"
        BY <1>l, <2>0 DEF LabelsOK
      <4> QED
        BY <1>0, <2>0, <2>1, <3>2, <4>1, TailPending, PendingKept DEF Busy, Alive
    <3> QED
      BY <2>0, <3>1, <3>2
  <2>3. RestoringOK'
    BY <1>d, <1>l, <2>0, TailFacts, ThreadFacts DEF RestoringOK, LabelsOK
  <2> QED
    BY <1>l, <2>0, <2>2, <2>3 DEF EventsOK, HandledOK, LabelsOK
<1>13. ASSUME ExitDecides PROVE EventsOK'
  <2>0. /\ UNCHANGED <<queue, task, starts>> /\ pc' = [pc EXCEPT ![Monitor] = "save"]
    BY <1>13 DEF ExitDecides, Goto, bounds
  <2>1. Pending' = <<>>
    BY <1>e, <1>13, <1>l, <2>0 DEF Pending, Past, LabelsOK, ExitDecides
  <2> QED
    BY <1>d, <1>l, <2>0, <2>1, ThreadFacts DEF EventsOK, HandledOK, PendingOK, RestoringOK,
       LabelsOK
<1>14. ASSUME MarksStopped PROVE EventsOK'
  <2>0. /\ UNCHANGED <<queue, task, starts>> /\ pc' = [pc EXCEPT ![Main] = "reset"]
        /\ pc[Main] = "stopped" /\ pc[Monitor] # "exit" /\ lock = Free
    BY <1>14 DEF MarksStopped, Goto, bounds, Unlocked
  <2>1. c'.Pid = 0
    BY <1>14, <1>t, StoppedFields DEF MarksStopped, Save
  <2>2. pc[Monitor] # "decide" /\ \A u \in Threads : pc[u] # "started"
    BY <1>t, <1>u, <2>0, ThreadFacts DEF HoldsLock
  <2>3. Pending' = Pending /\ Cur' = 0
    BY <1>l, <2>0, <2>1, <2>2, ThreadFacts DEF Pending, Past, Cur, BeingStarted, LabelsOK
  <2>4. \A i \in DOMAIN Pending : Pending[i].type \in {"exit", "resumed"}
    <3>1. \A i \in DOMAIN queue : queue[i].type \in {"exit", "resumed"}
      BY <1>d, <2>0 DEF RestoringOK, RestoreLabels
    <3> QED
      BY <1>d, <1>f, <3>1, TailFacts DEF Pending
  <2>5. PendingOK'
    BY <1>f, <2>3, <2>4 DEF PendingOK
  <2> QED
    BY <1>d, <1>l, <2>0, <2>2, <2>5, ThreadFacts DEF EventsOK, HandledOK, RestoringOK, LabelsOK,
          RestoreLabels
<1>15. ASSUME Registers PROVE EventsOK'
  <2>0. /\ UNCHANGED <<queue, task, starts, c>> /\ pc' = [pc EXCEPT ![Main] = "restore"]
        /\ pc[Main] = "register"
    BY <1>15 DEF Registers, Goto, bounds, outside
  <2>1. Pending' = Pending /\ Cur' = Cur
    BY <1>l, <1>z, <2>0, ThreadFacts DEF Pending, Past, LabelsOK
  <2>2. PendingOK'
    BY <1>0, <2>0, <2>1, PendingKept DEF Busy, Alive
  <2> QED
    BY <1>d, <1>l, <2>0, <2>2, ThreadFacts DEF EventsOK, HandledOK, RestoringOK, LabelsOK,
          RestoreLabels, Busy
<1>16. ASSUME Loads \/ Crash \/ ShutdownEnds PROVE EventsOK'
  <2>1. queue' = <<>> /\ pc'[Monitor] = "idle"
    BY <1>16, <1>0, <1>l, ThreadFacts DEF Loads, Crash, ShutdownEnds, Down, Goto, LoadedOK,
          PhaseOK, LabelsOK
  <2>2. Pending' = <<>>
    BY <2>1 DEF Pending, Past
  <2> QED
    BY <2>1, <2>2 DEF EventsOK, HandledOK, PendingOK, RestoringOK
<1> QED
  BY <1>1, <1>2, <1>3, <1>4, <1>5, <1>6, <1>7, <1>8, <1>9, <1>10, <1>11, <1>12, <1>13, <1>14,
        <1>15, <1>16 DEF Effect

\* Restore goes on to find out, or gives up.
LEMMA UnknownKept ==
    ASSUME IInv, Next, ~raced', ~Effect, Unknown
    PROVE  Unknown' \/ Alive' \/ gaveUp' \/ (~Busy(c) /\ ~BeingStarted)
<1> USE ThreadFacts DEF bounds, history, outside, manager
<1>0. /\ ~raced /\ TypeOK /\ ControlOK /\ LoadedOK /\ DeadOK /\ TaskOK /\ DataOK
      /\ scenario \in Scenarios
  BY RacedStays DEF IInv, TypeOK
<1>e. /\ EventStart => UNCHANGED <<c, disk, recorded>>
      /\ Handles("paused") /\ Unlocked => Busy(c)
      /\ pc[Monitor] = "decide" => ~Alive /\ Busy(c) /\ queue # <<>> /\ Tail(queue) = <<>>
  BY <1>0, EventFacts
<1>t. /\ c \in Containers /\ disk \in Containers \cup {Gone} /\ registered \in BOOLEAN
      /\ up \in {"down", "restoring", "up", "stopping"}
      /\ lock \in Threads \cup {Free} /\ \A t \in Threads : lock = t <=> pc[t] \in HoldsLock
      /\ found.list \in {"none", "start", "rm", "ready"} /\ task \in Tasks
  BY <1>0 DEF TypeOK, Tasks
<1>l. LabelsOK /\ PhaseOK /\ RolesOK
  BY <1>0 DEF ControlOK
<1>r. c' \in Containers /\ disk' \in Containers \cup {Gone} /\ c' # Gone
  <2>1. \A r \in Containers : r # Gone
    BY DEF Containers, Gone
  <2> QED
    BY <2>1, RecordTypes
<1>p. starts \in Nat /\ recorded \in 0 .. starts
  BY <1>0, ScenarioFacts DEF TaskOK
<1>d. RecordOK /\ RestartOK /\ TaskOK
  BY <1>0 DEF DataOK
<1>f. found \in Founds
  BY <1>0 DEF TypeOK, Founds
<1> USE <1>l, <1>t, <1>d, <1>r, <1>p, <1>f DEF LabelsOK, PhaseOK, Unknown,
           BootLabels, StartLabels, KillLabels, RmLabels
<1>1. ASSUME NEW op \in AllOps, Request(op)
      PROVE  Unknown' \/ Alive' \/ gaveUp' \/ (~Busy(c) /\ ~BeingStarted)
  BY <1>1 DEF Request, Goto
<1>2. ASSUME NEW t \in Threads, StartRefused(t)
      PROVE  Unknown' \/ Alive' \/ gaveUp' \/ (~Busy(c) /\ ~BeingStarted)
  BY <1>2 DEF StartRefused, Goto
<1>3. ASSUME NEW t \in Threads, Creates(t)
      PROVE  Unknown' \/ Alive' \/ gaveUp' \/ (~Busy(c) /\ ~BeingStarted)
  BY <1>3 DEF Creates, Starts, Goto
<1>4. ASSUME NEW t \in Threads, StartFails(t)
      PROVE  Unknown' \/ Alive' \/ gaveUp' \/ (~Busy(c) /\ ~BeingStarted)
  BY <1>4 DEF StartFails, Starts, Goto
<1>5. ASSUME NEW t \in Threads, StartsTask(t)
      PROVE  Unknown' \/ Alive' \/ gaveUp' \/ (~Busy(c) /\ ~BeingStarted)
  BY <1>5 DEF Effect
<1>6. ASSUME NEW t \in Threads, Started(t)
      PROVE  Unknown' \/ Alive' \/ gaveUp' \/ (~Busy(c) /\ ~BeingStarted)
  BY <1>6 DEF Effect
<1>7. ASSUME NEW t \in Threads, Kill(t)
      PROVE  Unknown' \/ Alive' \/ gaveUp' \/ (~Busy(c) /\ ~BeingStarted)
  BY <1>7 DEF Kill, Goto
<1>8. ASSUME NEW t \in Threads, Signal(t)
      PROVE  Unknown' \/ Alive' \/ gaveUp' \/ (~Busy(c) /\ ~BeingStarted)
  BY <1>8 DEF Effect
<1>9. ASSUME NEW t \in Threads, Waited(t)
      PROVE  Unknown' \/ Alive' \/ gaveUp' \/ (~Busy(c) /\ ~BeingStarted)
  BY <1>9 DEF Waited, Goto
<1>10. ASSUME NEW t \in Threads, Rm(t)
       PROVE  Unknown' \/ Alive' \/ gaveUp' \/ (~Busy(c) /\ ~BeingStarted)
  BY <1>10 DEF Rm, Goto
<1>11. ASSUME NEW t \in Threads, RmDead(t)
       PROVE  Unknown' \/ Alive' \/ gaveUp' \/ (~Busy(c) /\ ~BeingStarted)
  BY <1>11 DEF RmDead, Goto
<1>12. ASSUME NEW t \in Threads, RmLayer(t)
       PROVE  Unknown' \/ Alive' \/ gaveUp' \/ (~Busy(c) /\ ~BeingStarted)
  BY <1>12 DEF RmLayer, Goto
<1>13. ASSUME NEW t \in Threads, RmFiles(t)
       PROVE  Unknown' \/ Alive' \/ gaveUp' \/ (~Busy(c) /\ ~BeingStarted)
  BY <1>13 DEF RmFiles, Goto
<1>14. ASSUME NEW t \in Threads, RmEnd(t)
       PROVE  Unknown' \/ Alive' \/ gaveUp' \/ (~Busy(c) /\ ~BeingStarted)
  BY <1>14 DEF RmEnd, Goto
<1>15. ASSUME Pause PROVE Unknown' \/ Alive' \/ gaveUp' \/ (~Busy(c) /\ ~BeingStarted)
  BY <1>15 DEF Effect
<1>16. ASSUME Unpause PROVE Unknown' \/ Alive' \/ gaveUp' \/ (~Busy(c) /\ ~BeingStarted)
  BY <1>16 DEF Effect
<1>17. ASSUME Paused PROVE Unknown' \/ Alive' \/ gaveUp' \/ (~Busy(c) /\ ~BeingStarted)
  BY <1>17 DEF Effect
<1>18. ASSUME EventDone PROVE Unknown' \/ Alive' \/ gaveUp' \/ (~Busy(c) /\ ~BeingStarted)
  BY <1>18 DEF Effect
<1>19. ASSUME EventStart PROVE Unknown' \/ Alive' \/ gaveUp' \/ (~Busy(c) /\ ~BeingStarted)
  BY <1>19 DEF Effect
<1>20. ASSUME EventPaused PROVE Unknown' \/ Alive' \/ gaveUp' \/ (~Busy(c) /\ ~BeingStarted)
  BY <1>20 DEF Effect
<1>21. ASSUME EventExit PROVE Unknown' \/ Alive' \/ gaveUp' \/ (~Busy(c) /\ ~BeingStarted)
  BY <1>21 DEF Effect
<1>22. ASSUME ExitDeletes PROVE Unknown' \/ Alive' \/ gaveUp' \/ (~Busy(c) /\ ~BeingStarted)
  BY <1>22 DEF ExitDeletes, Goto
<1>23. ASSUME ExitDecides PROVE Unknown' \/ Alive' \/ gaveUp' \/ (~Busy(c) /\ ~BeingStarted)
  BY <1>23 DEF Effect
<1>24. ASSUME ExitSaves PROVE Unknown' \/ Alive' \/ gaveUp' \/ (~Busy(c) /\ ~BeingStarted)
  BY <1>24 DEF ExitSaves
<1>25. ASSUME TimerFires PROVE Unknown' \/ Alive' \/ gaveUp' \/ (~Busy(c) /\ ~BeingStarted)
  BY <1>25 DEF TimerFires
<1>26. ASSUME BackoffEnds PROVE Unknown' \/ Alive' \/ gaveUp' \/ (~Busy(c) /\ ~BeingStarted)
  BY <1>26 DEF BackoffEnds, Goto
<1>27. ASSUME BackoffCanceled PROVE Unknown' \/ Alive' \/ gaveUp' \/ (~Busy(c) /\ ~BeingStarted)
  BY <1>27 DEF BackoffCanceled, Goto
<1>28. ASSUME StartupDone PROVE Unknown' \/ Alive' \/ gaveUp' \/ (~Busy(c) /\ ~BeingStarted)
  BY <1>28 DEF StartupDone, Goto
<1>29. ASSUME GiveUp PROVE Unknown' \/ Alive' \/ gaveUp' \/ (~Busy(c) /\ ~BeingStarted)
  BY <1>29 DEF GiveUp, Goto
<1>30. ASSUME NEW code \in scenario.ExitCodes, ProcessExits(code)
       PROVE  Unknown' \/ Alive' \/ gaveUp' \/ (~Busy(c) /\ ~BeingStarted)
  BY <1>30 DEF Effect
<1>31. ASSUME Crash PROVE Unknown' \/ Alive' \/ gaveUp' \/ (~Busy(c) /\ ~BeingStarted)
  BY <1>31 DEF Effect
<1>32. ASSUME Shutdown PROVE Unknown' \/ Alive' \/ gaveUp' \/ (~Busy(c) /\ ~BeingStarted)
  BY <1>32 DEF Shutdown, Goto
<1>33. ASSUME ShutdownEnds PROVE Unknown' \/ Alive' \/ gaveUp' \/ (~Busy(c) /\ ~BeingStarted)
  BY <1>33 DEF Effect
<1>34. ASSUME Loads PROVE Unknown' \/ Alive' \/ gaveUp' \/ (~Busy(c) /\ ~BeingStarted)
  BY <1>34 DEF Effect
<1>35. ASSUME Registers PROVE Unknown' \/ Alive' \/ gaveUp' \/ (~Busy(c) /\ ~BeingStarted)
  BY <1>35 DEF Effect
<1>36. ASSUME Restores PROVE Unknown' \/ Alive' \/ gaveUp' \/ (~Busy(c) /\ ~BeingStarted)
  BY <1>36 DEF Restores, Goto, NotFound, Founds, Alive, TaskOK
<1>37. ASSUME RestoreFails PROVE Unknown' \/ Alive' \/ gaveUp' \/ (~Busy(c) /\ ~BeingStarted)
  BY <1>37 DEF RestoreFails, Goto
<1>38. ASSUME Restored PROVE Unknown' \/ Alive' \/ gaveUp' \/ (~Busy(c) /\ ~BeingStarted)
  BY <1>38 DEF Restored, Goto, Founds
<1>39. ASSUME Inspects PROVE Unknown' \/ Alive' \/ gaveUp' \/ (~Busy(c) /\ ~BeingStarted)
  <2>1. CASE c.Running \/ c.Paused
    BY <2>1, <1>39 DEF Inspects, Goto
  <2>2. CASE ~c.Running
    <3>1. ~Busy(c)
      BY <2>2 DEF Busy
    <3>2. ~BeingStarted
      BY <1>39 DEF Inspects, BeingStarted, MonitorLabels
    <3> QED
      BY <3>1, <3>2
  <2> QED
    BY <2>1, <2>2
<1>40. ASSUME Status PROVE Unknown' \/ Alive' \/ gaveUp' \/ (~Busy(c) /\ ~BeingStarted)
  BY <1>40 DEF Status, Goto
<1>41. ASSUME StatusFails PROVE Unknown' \/ Alive' \/ gaveUp' \/ (~Busy(c) /\ ~BeingStarted)
  BY <1>41 DEF StatusFails, Goto
<1>42. ASSUME MarksStopped PROVE Unknown' \/ Alive' \/ gaveUp' \/ (~Busy(c) /\ ~BeingStarted)
  BY <1>42 DEF Effect
<1>43. ASSUME ResetsManager PROVE Unknown' \/ Alive' \/ gaveUp' \/ (~Busy(c) /\ ~BeingStarted)
  BY <1>43 DEF ResetsManager, Goto
<1>44. ASSUME Lists PROVE Unknown' \/ Alive' \/ gaveUp' \/ (~Busy(c) /\ ~BeingStarted)
  BY <1>44 DEF Lists, Goto
<1>45. ASSUME Unmarks PROVE Unknown' \/ Alive' \/ gaveUp' \/ (~Busy(c) /\ ~BeingStarted)
  BY <1>45 DEF Unmarks, Goto
<1>46. ASSUME Ready PROVE Unknown' \/ Alive' \/ gaveUp' \/ (~Busy(c) /\ ~BeingStarted)
  BY <1>46 DEF Ready, Goto
<1> QED
  BY <1>1, <1>2, <1>3, <1>4, <1>5, <1>6, <1>7, <1>8, <1>9, <1>10, <1>11, <1>12, <1>13, <1>14,
        <1>15, <1>16, <1>17, <1>18, <1>19, <1>20, <1>21, <1>22, <1>23, <1>24, <1>25, <1>26,
        <1>27, <1>28, <1>29, <1>30, <1>31, <1>32, <1>33, <1>34, <1>35, <1>36, <1>37, <1>38,
        <1>39, <1>40, <1>41, <1>42, <1>43, <1>44, <1>45, <1>46 DEF Next, Start, Removal, Event,
        Backoff, RestoreStep

\* The process runs or its end is pending, through every step.
LEMMA ProcessKept ==
    ASSUME IInv, Next, ~raced'
    PROVE  ProcessOK'
<1> USE ThreadFacts DEF bounds, history, outside, manager
<1>0. /\ ~raced /\ TypeOK /\ ControlOK /\ LoadedOK /\ DeadOK /\ TaskOK /\ DataOK
      /\ scenario \in Scenarios
  BY RacedStays DEF IInv, TypeOK
<1>e. /\ EventStart => UNCHANGED <<c, disk, recorded>>
      /\ Handles("paused") /\ Unlocked => Busy(c)
      /\ pc[Monitor] = "decide" => ~Alive /\ Busy(c) /\ queue # <<>> /\ Tail(queue) = <<>>
  BY <1>0, EventFacts
<1>t. /\ c \in Containers /\ disk \in Containers \cup {Gone} /\ registered \in BOOLEAN
      /\ up \in {"down", "restoring", "up", "stopping"}
      /\ lock \in Threads \cup {Free} /\ \A t \in Threads : lock = t <=> pc[t] \in HoldsLock
      /\ found.list \in {"none", "start", "rm", "ready"} /\ task \in Tasks
  BY <1>0 DEF TypeOK, Tasks
<1>l. LabelsOK /\ PhaseOK /\ RolesOK
  BY <1>0 DEF ControlOK
<1>r. c' \in Containers /\ disk' \in Containers \cup {Gone} /\ c' # Gone
  <2>1. \A r \in Containers : r # Gone
    BY DEF Containers, Gone
  <2> QED
    BY <2>1, RecordTypes
<1>p. starts \in Nat /\ recorded \in 0 .. starts
  BY <1>0, ScenarioFacts DEF TaskOK
<1>d. /\ RecordOK /\ RestartOK /\ TaskOK /\ PidsOK /\ EventsOK /\ HandledOK /\ PendingOK /\ RestoringOK
      /\ queue \in Seq(Events)
  BY <1>0 DEF DataOK, IInv, EventsOK, TypeOK
<1>c. 0 \in Codes /\ scenario.ExitCodes \subseteq Codes /\ task.pid \in Pids /\ starts \in Pids
  BY <1>0, <1>t, ScenarioFacts DEF Tasks, TaskOK
<1>f. /\ Pending \in Seq(Events) /\ (Past => queue # <<>>) /\ (~Past => Pending = queue)
      /\ DOMAIN Pending = 1 .. Len(Pending) /\ Len(Pending) \in Nat
      /\ \A i \in DOMAIN Pending : Pending[i].pid \in 1 .. starts /\ Pending[i] \in Events
  BY PendingFacts
<1>u. /\ (\E t \in Threads : pc[t] = "started") => Cur = starts /\ BeingStarted
      /\ (\A t \in Threads : pc[t] # "started") => Cur = c.Pid /\ ~BeingStarted
      /\ lock \in {Free, Monitor} => \A t \in Threads : pc[t] \notin {"created", "started"}
      /\ \A t, u \in Threads : pc[t] \in HoldsLock /\ pc[u] \in HoldsLock => t = u
  BY CurIs
<1>z. ASSUME c'.Pid = c.Pid, starts' = starts, \A t \in Threads : pc'[t] = "started" <=> pc[t] = "started"
      PROVE  Cur' = Cur
  BY <1>z DEF Cur, BeingStarted
<1>w. Past => pc[Monitor] \notin {"exit", "decide"}
  BY DEF Past
<1>o. ProcessOK
  BY <1>0 DEF DataOK
<1>b. BeingStarted => registered /\ up # "down" /\ pc[Main] \notin {"register", "restore", "restored", "inspect", "stopped"}
  <2>1. BeingStarted => registered /\ up # "down"
    BY <1>0, <1>l, <1>t DEF BeingStarted, LoadedOK, DeadOK, Quiet, PhaseOK
  <2>2. BeingStarted => pc[Main] = "started" \/ up # "restoring"
    BY <1>l, ThreadFacts DEF BeingStarted, PhaseOK, StartLabels, LabelsOK, MonitorLabels,
          KillLabels, RmLabels
  <2> QED
    BY <1>l, <1>t, <2>1, <2>2 DEF PhaseOK, KillLabels
<1>1. ASSUME ~Effect PROVE ProcessOK'
  <2>1. Plain /\ Pending' = Pending /\ Cur' = Cur /\ (BeingStarted' <=> BeingStarted)
    BY <1>1, PlainSteps, PlainPending
  <2>2. Unknown => Unknown' \/ Alive' \/ gaveUp' \/ (~Busy(c) /\ ~BeingStarted)
    BY <1>1, UnknownKept
  <2>3. (Busy(c)' <=> Busy(c)) /\ (Alive => Alive') /\ (registered' => registered) /\ (gaveUp => gaveUp')
        /\ UNCHANGED <<lost, starts>>
    BY <2>1 DEF Plain, Busy
  <2> QED
    BY <1>o, <2>1, <2>2, <2>3 DEF ProcessOK
<1>2. ASSUME NEW t \in Threads, StartsTask(t) PROVE ProcessOK'
  <2> DEFINE e == [type |-> "start", pid |-> starts + 1, code |-> 0]
  <2>0. /\ pc[t] = "created" /\ starts' = starts + 1 /\ pc' = [pc EXCEPT ![t] = "started"]
        /\ Emit("start", starts + 1, 0) /\ t # Monitor /\ starts < scenario.MaxStarts
        /\ Alive' /\ up # "down"
    BY <1>2, <1>l, <1>0 DEF StartsTask, Goto, LabelsOK, MonitorLabels, KillLabels, RmLabels,
          TaskOK, Alive, NoTask, PhaseOK
  <2>1. e \in Events
    BY <1>0, <1>c, <1>p, <2>0, ScenarioFacts DEF Events, Pids
  <2>2. (Pending' = Append(Pending, e)) \/ lost'
    BY <2>0, <2>1, <1>l, EmitPending DEF LabelsOK
  <2>3. lost' \/ \E i \in DOMAIN Pending' : Pending'[i].type = "start" /\ Pending'[i].pid = starts'
    <3>1. CASE Pending' = Append(Pending, e)
      <4>1. Len(Pending) + 1 \in DOMAIN Pending' /\ Pending'[Len(Pending) + 1] = e
        BY <1>f, <2>1, <3>1, QueueFacts
      <4> QED
        BY <2>0, <4>1
    <3> QED
      BY <2>2, <3>1
  <2> QED
    BY <2>0, <2>3 DEF ProcessOK
<1>3. ASSUME NEW t \in Threads, Started(t) PROVE ProcessOK'
  <2>0. /\ pc[t] = "started" /\ pc' = [pc EXCEPT ![t] = Ends(t)] /\ t # Monitor
        /\ UNCHANGED <<queue, task, up, starts, lost, gaveUp, registered>>
    BY <1>3, <1>l DEF Started, Goto, outside, bounds, LabelsOK, MonitorLabels, KillLabels,
       RmLabels
  <2>1. c'.Pid = starts
    BY <1>3, <1>t, StartedFields DEF Started, Save
  <2>2. Pending' = Pending
    BY <2>0, <1>l DEF Pending, Past, LabelsOK
  <2>3. Cur' = Cur /\ ~BeingStarted' /\ BeingStarted
    <3>1. \A u \in Threads : pc'[u] # "started"
      BY <1>l, <1>u, <2>0, EndsAre DEF HoldsLock, LabelsOK
    <3> QED
      BY <2>0, <2>1, <3>1, <1>u DEF Cur, BeingStarted
  <2>4. ~Unknown
    BY <1>b, <2>3 DEF Unknown
  <2> QED
    BY <1>o, <2>0, <2>2, <2>3, <2>4 DEF ProcessOK, Alive
<1>4. ASSUME NEW code \in scenario.ExitCodes, ProcessExits(code) PROVE ProcessOK'
  <2> DEFINE e == [type |-> "exit", pid |-> task.pid, code |-> code]
  <2>0. /\ UNCHANGED <<c, up, starts, gaveUp, registered>> /\ (\A u \in Threads : pc'[u] = "started" <=> pc[u] = "started")
        /\ (pc'[Monitor] = pc[Monitor] \/ (Past /\ Past')) /\ (Unknown => Unknown')
    BY <1>4, <1>l DEF ProcessExits, Goto, bounds, Past, LabelsOK, Unknown
  <2>1. Cur' = Cur /\ (BeingStarted' <=> BeingStarted)
    BY <1>z, <2>0 DEF BeingStarted
  <2>2. (UNCHANGED <<queue, task, lost>>) \/ (Alive /\ Emit("exit", task.pid, code))
    BY <1>4, <1>t DEF ProcessExits, Alive, Tasks
  <2>3. e \in Events
    BY <1>c, <1>4 DEF Events
  <2>4. CASE UNCHANGED <<queue, task, lost>>
    <3>1. Pending' = Pending
      BY <2>0, <2>4 DEF Pending, Past
    <3> QED
      BY <1>o, <2>0, <2>1, <2>4, <3>1 DEF ProcessOK, Alive, Busy
  <2>5. CASE Alive /\ Emit("exit", task.pid, code)
    <3>1. (Pending' = Append(Pending, e) /\ lost' = lost) \/ lost' = (up # "down")
      BY <2>0, <2>3, <2>5, EmitPending
    <3>2. CASE Pending' = Append(Pending, e) /\ lost' = lost
      <4>1. \A i \in DOMAIN Pending : i \in DOMAIN Pending' /\ Pending'[i] = Pending[i]
        BY <1>f, <2>3, <3>2, QueueFacts
      <4>2. Alive => task.pid = starts /\ (Busy(c) => c.Pid = starts)
        BY <1>d DEF TaskOK, RecordOK, Fits, Alive
      <4>3. Busy(c) \/ BeingStarted => Cur = task.pid
        BY <2>5, <4>2, <1>u DEF BeingStarted
      <4>4. Len(Pending) + 1 \in DOMAIN Pending' /\ Pending'[Len(Pending) + 1] = e
        BY <1>f, <2>3, <3>2, QueueFacts
      <4>5. ~lost' /\ BeingStarted' =>
               \E i \in DOMAIN Pending' : Pending'[i].type = "start" /\ Pending'[i].pid = starts'
        BY <1>o, <2>0, <2>1, <3>2, <4>1 DEF ProcessOK
      <4>6. Busy(c)' \/ BeingStarted' =>
               \E i \in DOMAIN Pending' : Pending'[i].type = "exit" /\ Pending'[i].pid = Cur'
        BY <2>0, <2>1, <4>3, <4>4 DEF Busy
      <4> QED
        BY <4>5, <4>6 DEF ProcessOK
    <3>3. CASE lost' = (up # "down")
      <4>1. up = "down" => ~registered' /\ ~BeingStarted'
        BY <1>0, <1>b, <2>0, <2>1 DEF LoadedOK
      <4> QED
        BY <3>3, <4>1 DEF ProcessOK
    <3> QED
      BY <3>1, <3>2, <3>3
  <2> QED
    BY <2>2, <2>4, <2>5
<1>5. ASSUME NEW t \in Threads, Signal(t) PROVE ProcessOK'
  <2> DEFINE e == [type |-> "resumed", pid |-> task.pid, code |-> 0]
  <2>0. /\ UNCHANGED <<c, up, starts, gaveUp, registered>> /\ (\A u \in Threads : pc'[u] = "started" <=> pc[u] = "started")
        /\ (pc'[Monitor] = pc[Monitor] \/ (Past /\ Past')) /\ (Unknown => Unknown')
    BY <1>5, <1>l DEF Signal, Goto, bounds, Past, LabelsOK, Unknown
  <2>1. Cur' = Cur /\ (BeingStarted' <=> BeingStarted)
    BY <1>z, <2>0 DEF BeingStarted
  <2>2. (UNCHANGED <<queue, task, lost>>) \/ (Alive /\ Emit("resumed", task.pid, 0) /\ Alive')
    BY <1>5, <1>t DEF Signal, Alive, Tasks
  <2>3. e \in Events
    BY <1>c, <1>5 DEF Events
  <2>4. CASE UNCHANGED <<queue, task, lost>>
    <3>1. Pending' = Pending
      BY <2>0, <2>4 DEF Pending, Past
    <3> QED
      BY <1>o, <2>0, <2>1, <2>4, <3>1 DEF ProcessOK, Alive, Busy
  <2>5. CASE Alive /\ Emit("resumed", task.pid, 0) /\ Alive'
    <3>1. (Pending' = Append(Pending, e) /\ lost' = lost) \/ lost' = (up # "down")
      BY <2>0, <2>3, <2>5, EmitPending
    <3>2. CASE Pending' = Append(Pending, e) /\ lost' = lost
      <4>1. \A i \in DOMAIN Pending : i \in DOMAIN Pending' /\ Pending'[i] = Pending[i]
        BY <1>f, <2>3, <3>2, QueueFacts
      <4>5. ~lost' /\ BeingStarted' =>
               \E i \in DOMAIN Pending' : Pending'[i].type = "start" /\ Pending'[i].pid = starts'
        BY <1>o, <2>0, <2>1, <3>2, <4>1 DEF ProcessOK
      <4> QED
        BY <2>5, <4>5 DEF ProcessOK
    <3>3. CASE lost' = (up # "down")
      <4>1. up = "down" => ~registered' /\ ~BeingStarted'
        BY <1>0, <1>b, <2>0, <2>1 DEF LoadedOK
      <4> QED
        BY <3>3, <4>1 DEF ProcessOK
    <3> QED
      BY <3>1, <3>2, <3>3
  <2> QED
    BY <2>2, <2>4, <2>5
<1>6. ASSUME Pause PROVE ProcessOK'
  <2> DEFINE e == [type |-> "paused", pid |-> task.pid, code |-> 0]
  <2>0. /\ UNCHANGED <<c, up, starts, gaveUp, registered>> /\ (\A u \in Threads : pc'[u] = "started" <=> pc[u] = "started")
        /\ (pc'[Monitor] = pc[Monitor] \/ (Past /\ Past')) /\ (Unknown => Unknown')
    BY <1>6, <1>l DEF Pause, Goto, bounds, Past, LabelsOK, Unknown
  <2>1. Cur' = Cur /\ (BeingStarted' <=> BeingStarted)
    BY <1>z, <2>0 DEF BeingStarted
  <2>2. (UNCHANGED <<queue, task, lost>>) \/ (Alive /\ Emit("paused", task.pid, 0) /\ Alive')
    BY <1>6, <1>t DEF Pause, Alive, Tasks
  <2>3. e \in Events
    BY <1>c, <1>6 DEF Events
  <2>4. CASE UNCHANGED <<queue, task, lost>>
    <3>1. Pending' = Pending
      BY <2>0, <2>4 DEF Pending, Past
    <3> QED
      BY <1>o, <2>0, <2>1, <2>4, <3>1 DEF ProcessOK, Alive, Busy
  <2>5. CASE Alive /\ Emit("paused", task.pid, 0) /\ Alive'
    <3>1. (Pending' = Append(Pending, e) /\ lost' = lost) \/ lost' = (up # "down")
      BY <2>0, <2>3, <2>5, EmitPending
    <3>2. CASE Pending' = Append(Pending, e) /\ lost' = lost
      <4>1. \A i \in DOMAIN Pending : i \in DOMAIN Pending' /\ Pending'[i] = Pending[i]
        BY <1>f, <2>3, <3>2, QueueFacts
      <4>5. ~lost' /\ BeingStarted' =>
               \E i \in DOMAIN Pending' : Pending'[i].type = "start" /\ Pending'[i].pid = starts'
        BY <1>o, <2>0, <2>1, <3>2, <4>1 DEF ProcessOK
      <4> QED
        BY <2>5, <4>5 DEF ProcessOK
    <3>3. CASE lost' = (up # "down")
      <4>1. up = "down" => ~registered' /\ ~BeingStarted'
        BY <1>0, <1>b, <2>0, <2>1 DEF LoadedOK
      <4> QED
        BY <3>3, <4>1 DEF ProcessOK
    <3> QED
      BY <3>1, <3>2, <3>3
  <2> QED
    BY <2>2, <2>4, <2>5
<1>7. ASSUME Unpause PROVE ProcessOK'
  <2> DEFINE e == [type |-> "resumed", pid |-> task.pid, code |-> 0]
  <2>0. /\ UNCHANGED <<c, up, starts, gaveUp, registered>> /\ (\A u \in Threads : pc'[u] = "started" <=> pc[u] = "started")
        /\ (pc'[Monitor] = pc[Monitor] \/ (Past /\ Past')) /\ (Unknown => Unknown')
    BY <1>7, <1>l DEF Unpause, Goto, bounds, Past, LabelsOK, Unknown
  <2>1. Cur' = Cur /\ (BeingStarted' <=> BeingStarted)
    BY <1>z, <2>0 DEF BeingStarted
  <2>2. (UNCHANGED <<queue, task, lost>>) \/ (Alive /\ Emit("resumed", task.pid, 0) /\ Alive')
    BY <1>7, <1>t DEF Unpause, Alive, Tasks
  <2>3. e \in Events
    BY <1>c, <1>7 DEF Events
  <2>4. CASE UNCHANGED <<queue, task, lost>>
    <3>1. Pending' = Pending
      BY <2>0, <2>4 DEF Pending, Past
    <3> QED
      BY <1>o, <2>0, <2>1, <2>4, <3>1 DEF ProcessOK, Alive, Busy
  <2>5. CASE Alive /\ Emit("resumed", task.pid, 0) /\ Alive'
    <3>1. (Pending' = Append(Pending, e) /\ lost' = lost) \/ lost' = (up # "down")
      BY <2>0, <2>3, <2>5, EmitPending
    <3>2. CASE Pending' = Append(Pending, e) /\ lost' = lost
      <4>1. \A i \in DOMAIN Pending : i \in DOMAIN Pending' /\ Pending'[i] = Pending[i]
        BY <1>f, <2>3, <3>2, QueueFacts
      <4>5. ~lost' /\ BeingStarted' =>
               \E i \in DOMAIN Pending' : Pending'[i].type = "start" /\ Pending'[i].pid = starts'
        BY <1>o, <2>0, <2>1, <3>2, <4>1 DEF ProcessOK
      <4> QED
        BY <2>5, <4>5 DEF ProcessOK
    <3>3. CASE lost' = (up # "down")
      <4>1. up = "down" => ~registered' /\ ~BeingStarted'
        BY <1>0, <1>b, <2>0, <2>1 DEF LoadedOK
      <4> QED
        BY <3>3, <4>1 DEF ProcessOK
    <3> QED
      BY <3>1, <3>2, <3>3
  <2> QED
    BY <2>2, <2>4, <2>5
<1>8. ASSUME Paused PROVE ProcessOK'
  <2>0. /\ pc[Api] \in {"pausing", "unpausing"} /\ pc' = [pc EXCEPT ![Api] = "idle"]
        /\ UNCHANGED <<queue, task, up, starts, lost, gaveUp, registered, found>>
    BY <1>8 DEF Paused, Goto, outside, bounds, history
  <2>1. c'.Pid = c.Pid /\ (Busy(c)' <=> Busy(c))
    BY <1>8, <1>t, PausedSaved DEF Busy
  <2>2. Pending' = Pending /\ Cur' = Cur /\ (BeingStarted' <=> BeingStarted) /\ (Unknown' <=> Unknown)
    BY <1>z, <2>0, <2>1, <1>l, ThreadFacts DEF Pending, Past, LabelsOK, BeingStarted, Unknown
  <2> QED
    BY <1>o, <2>0, <2>1, <2>2 DEF ProcessOK, Alive
<1>9. ASSUME EventStart PROVE ProcessOK'
  <2>0. /\ pc[Monitor] = "idle" /\ pc'[Monitor] = "idle" /\ queue # <<>> /\ queue' = Tail(queue)
        /\ Head(queue).type # "exit" /\ lock = Free
        /\ UNCHANGED <<pc, task, starts, lost, gaveUp, registered, found>>
    BY <1>9 DEF EventStart, Handles, Unlocked, outside, bounds, history
  <2>1. (Busy(c)' <=> Busy(c)) /\ Cur' = Cur /\ ~BeingStarted' /\ (Unknown => Unknown')
    BY <1>9, <1>e, <1>u, <1>z, <2>0 DEF Busy, BeingStarted, Unknown
  <2>2. \A i \in DOMAIN Pending : Pending[i].type = "exit" =>
            i - 1 \in DOMAIN Pending' /\ Pending'[i - 1] = Pending[i]
    BY <2>0, TailPending
  <2> QED
    BY <1>o, <2>0, <2>1, <2>2 DEF ProcessOK, Alive
<1>10. ASSUME EventPaused PROVE ProcessOK'
  <2>0. /\ pc[Monitor] = "idle" /\ pc'[Monitor] = "idle" /\ queue # <<>> /\ queue' = Tail(queue)
        /\ Head(queue).type # "exit" /\ lock = Free
        /\ UNCHANGED <<pc, task, starts, lost, gaveUp, registered, found>>
    BY <1>10 DEF EventPaused, Handles, Unlocked, outside, bounds, history
  <2>1. (Busy(c)' <=> Busy(c)) /\ Cur' = Cur /\ ~BeingStarted' /\ (Unknown => Unknown')
    BY <1>10, <1>t, EventPausedSaved, <1>u, <1>z, <2>0 DEF Busy, BeingStarted, Unknown
  <2>2. \A i \in DOMAIN Pending : Pending[i].type = "exit" =>
            i - 1 \in DOMAIN Pending' /\ Pending'[i - 1] = Pending[i]
    BY <2>0, TailPending
  <2> QED
    BY <1>o, <2>0, <2>1, <2>2 DEF ProcessOK, Alive
<1>11. ASSUME EventExit PROVE ProcessOK'
  <2>0. /\ UNCHANGED <<c, task, starts, lost, gaveUp, registered, found>> /\ pc'[Main] = pc[Main]
        /\ (\A u \in Threads : pc'[u] = "started" <=> pc[u] = "started") /\ queue # <<>>
        /\ pc[Monitor] = "idle" /\ Head(queue).type = "exit"
    <3>1. pc' = pc \/ (pc[Monitor] = "idle" /\ pc' = [pc EXCEPT ![Monitor] = "exit"])
      BY <1>11 DEF EventExit, Handles, Goto
    <3> QED
      BY <1>11, <1>l, <3>1 DEF EventExit, LabelsOK, Handles
  <2>1. Cur' = Cur /\ (BeingStarted' <=> BeingStarted) /\ (Unknown => Unknown')
    BY <1>z, <2>0 DEF BeingStarted, Unknown
  <2>2. CASE Head(queue).pid = c.Pid
    <3>1. Pending' = Pending
      BY <1>11, <1>l, <2>2 DEF EventExit, Handles, Goto, Pending, Past, LabelsOK
    <3> QED
      BY <1>o, <2>0, <2>1, <3>1 DEF ProcessOK, Alive, Busy
  <2>3. CASE Head(queue).pid # c.Pid
    <3>1. pc'[Monitor] = "idle" /\ queue' = Tail(queue)
      BY <1>11, <2>0, <2>3 DEF EventExit
    <3>2. /\ 1 \in DOMAIN Pending /\ Head(queue) = Pending[1]
          /\ \A i \in DOMAIN Pending : i # 1 =>
                i - 1 \in DOMAIN Pending' /\ Pending'[i - 1] = Pending[i]
      BY <2>0, <3>1, TailPending
    <3>3. ~lost' /\ BeingStarted' =>
            \E i \in DOMAIN Pending' : Pending'[i].type = "start" /\ Pending'[i].pid = starts'
      BY <1>o, <2>0, <2>1, <3>2 DEF ProcessOK
    <3>4. ASSUME ~lost, Busy(c) \/ BeingStarted, NEW i \in DOMAIN Pending,
                 Pending[i].type = "exit", Pending[i].pid = Cur
          PROVE  i # 1
      <4>1. CASE ~BeingStarted
        BY <1>u, <2>3, <3>2, <3>4, <4>1 DEF BeingStarted
      <4>2. CASE BeingStarted
        <5>1. PICK k \in DOMAIN Pending : Pending[k].type = "start"
          BY <1>o, <3>4, <4>2 DEF ProcessOK
        <5>2. i = Len(Pending) /\ k # i
          BY <1>d, <3>4, <5>1 DEF PendingOK
        <5> QED
          BY <1>f, <5>1, <5>2
      <4> QED
        BY <4>1, <4>2
    <3>5. ASSUME ~lost', Busy(c)' \/ BeingStarted',
                 \E i \in DOMAIN Pending : Pending[i].type = "exit" /\ Pending[i].pid = Cur
          PROVE  \E i \in DOMAIN Pending' : Pending'[i].type = "exit" /\ Pending'[i].pid = Cur'
      <4>1. PICK i \in DOMAIN Pending : Pending[i].type = "exit" /\ Pending[i].pid = Cur
        BY <3>5
      <4>2. i # 1
        BY <2>0, <2>1, <3>4, <3>5, <4>1 DEF Busy
      <4> QED
        BY <2>1, <3>2, <4>1, <4>2
    <3> QED
      BY <1>o, <2>0, <2>1, <3>3, <3>5 DEF ProcessOK, Alive, Busy
  <2> QED
    BY <2>2, <2>3
<1>12. ASSUME EventDone PROVE ProcessOK'
  <2>0. /\ UNCHANGED <<c, task, starts, lost, gaveUp, registered, found>> /\ queue # <<>> /\ queue' = Tail(queue)
        /\ pc' = [pc EXCEPT ![Monitor] = "idle"]
        /\ pc[Monitor] = "handled" \/ (pc[Monitor] = "idle" /\ ~registered)
        /\ (\A u \in Threads : pc'[u] = "started" <=> pc[u] = "started")
    BY <1>12, <1>l DEF EventDone, Goto, LabelsOK, outside, bounds, history
  <2>1. Cur' = Cur /\ (BeingStarted' <=> BeingStarted) /\ (Unknown => Unknown')
    BY <1>l, <1>z, <2>0, ThreadFacts DEF BeingStarted, Unknown, LabelsOK
  <2>2. CASE pc[Monitor] = "handled"
    <3>1. Pending' = Pending
      BY <1>l, <2>0, <2>2 DEF Pending, Past, LabelsOK
    <3> QED
      BY <1>o, <2>0, <2>1, <3>1 DEF ProcessOK, Alive, Busy
  <2>3. CASE ~registered
    BY <1>b, <2>0, <2>1, <2>3 DEF ProcessOK
  <2> QED
    BY <2>0, <2>2, <2>3
<1>13. ASSUME ExitDecides PROVE ProcessOK'
  <2>0. pc' = [pc EXCEPT ![Monitor] = "save"] /\ pc[Monitor] = "decide"
    BY <1>13 DEF ExitDecides, Goto
  <2>1. ~Busy(c)'
    BY <1>13, <1>t, StoppedFields, RestartingFields DEF ExitDecides, Busy
  <2>2. ~BeingStarted'
    BY <1>l, <1>t, <1>u, <2>0 DEF BeingStarted, HoldsLock, LabelsOK
  <2> QED
    BY <2>1, <2>2 DEF ProcessOK
<1>14. ASSUME MarksStopped PROVE ProcessOK'
  <2>0. pc' = [pc EXCEPT ![Main] = "reset"] /\ lock = Free
    BY <1>14 DEF MarksStopped, Goto, Unlocked
  <2>1. ~Busy(c)'
    BY <1>14, <1>t, StoppedFields DEF MarksStopped, Busy, Save
  <2>2. ~BeingStarted'
    BY <1>l, <1>u, <2>0 DEF BeingStarted, LabelsOK
  <2> QED
    BY <2>1, <2>2 DEF ProcessOK
<1>15. ASSUME Registers PROVE ProcessOK'
  <2>0. pc' = [pc EXCEPT ![Main] = "restore"] /\ pc[Main] = "register"
    BY <1>15 DEF Registers, Goto
  <2>1. Unknown' /\ ~BeingStarted'
    BY <1>b, <1>l, <2>0 DEF Unknown, BeingStarted, LabelsOK
  <2> QED
    BY <2>1 DEF ProcessOK
<1>16. ASSUME Loads \/ Crash \/ ShutdownEnds PROVE ProcessOK'
  <2>1. ~registered' /\ \A u \in Threads : pc'[u] # "started"
    BY <1>16, <1>0, <1>l, ThreadFacts DEF Loads, Crash, ShutdownEnds, Down, Goto, LoadedOK,
          PhaseOK, LabelsOK
  <2> QED
    BY <2>1 DEF ProcessOK, BeingStarted
<1> QED
  BY <1>1, <1>2, <1>3, <1>4, <1>5, <1>6, <1>7, <1>8, <1>9, <1>10, <1>11, <1>12, <1>13, <1>14,
        <1>15, <1>16 DEF Effect

\* Restore goes on to ask containerd for the status of a container recorded as paused.
LEMMA EarlyKept ==
    ASSUME IInv, Next, ~raced', ~Effect, pc[Main] \in Early
    PROVE  pc'[Main] \in Early \/ gaveUp' \/ ~c'.Paused \/ ~Alive' \/ task'.frozen
<1> USE ThreadFacts DEF bounds, history, outside, manager
<1>0. /\ ~raced /\ TypeOK /\ ControlOK /\ LoadedOK /\ DeadOK /\ TaskOK /\ DataOK
      /\ scenario \in Scenarios
  BY RacedStays DEF IInv, TypeOK
<1>e. /\ EventStart => UNCHANGED <<c, disk, recorded>>
      /\ Handles("paused") /\ Unlocked => Busy(c)
      /\ pc[Monitor] = "decide" => ~Alive /\ Busy(c) /\ queue # <<>> /\ Tail(queue) = <<>>
  BY <1>0, EventFacts
<1>t. /\ c \in Containers /\ disk \in Containers \cup {Gone} /\ registered \in BOOLEAN
      /\ up \in {"down", "restoring", "up", "stopping"}
      /\ lock \in Threads \cup {Free} /\ \A t \in Threads : lock = t <=> pc[t] \in HoldsLock
      /\ found.list \in {"none", "start", "rm", "ready"} /\ task \in Tasks
  BY <1>0 DEF TypeOK, Tasks
<1>l. LabelsOK /\ PhaseOK /\ RolesOK
  BY <1>0 DEF ControlOK
<1>r. c' \in Containers /\ disk' \in Containers \cup {Gone} /\ c' # Gone
  <2>1. \A r \in Containers : r # Gone
    BY DEF Containers, Gone
  <2> QED
    BY <2>1, RecordTypes
<1>p. starts \in Nat /\ recorded \in 0 .. starts
  BY <1>0, ScenarioFacts DEF TaskOK
<1>d. RecordOK /\ RestartOK /\ TaskOK
  BY <1>0 DEF DataOK
<1> USE <1>l, <1>t, <1>d, <1>r, <1>p DEF LabelsOK, PhaseOK, Early, StartLabels, KillLabels,
   RmLabels
<1> DEFINE Goal == pc'[Main] \in Early \/ gaveUp' \/ ~c'.Paused \/ ~Alive' \/ task'.frozen
<1>1. ASSUME NEW op \in AllOps, Request(op) PROVE Goal
  BY <1>1 DEF Request, Goto
<1>2. ASSUME NEW t \in Threads, StartRefused(t) PROVE Goal
  BY <1>2 DEF StartRefused, Goto
<1>3. ASSUME NEW t \in Threads, Creates(t) PROVE Goal
  BY <1>3 DEF Creates, Starts, Goto
<1>4. ASSUME NEW t \in Threads, StartFails(t) PROVE Goal
  BY <1>4 DEF StartFails, Starts, Goto
<1>5. ASSUME NEW t \in Threads, StartsTask(t) PROVE Goal
  BY <1>5 DEF Effect
<1>6. ASSUME NEW t \in Threads, Started(t) PROVE Goal
  BY <1>6 DEF Effect
<1>7. ASSUME NEW t \in Threads, Kill(t) PROVE Goal
  BY <1>7 DEF Kill, Goto
<1>8. ASSUME NEW t \in Threads, Signal(t) PROVE Goal
  BY <1>8 DEF Effect
<1>9. ASSUME NEW t \in Threads, Waited(t) PROVE Goal
  BY <1>9 DEF Waited, Goto
<1>10. ASSUME NEW t \in Threads, Rm(t) PROVE Goal
  BY <1>10 DEF Rm, Goto
<1>11. ASSUME NEW t \in Threads, RmDead(t) PROVE Goal
  BY <1>11 DEF RmDead, Goto
<1>12. ASSUME NEW t \in Threads, RmLayer(t) PROVE Goal
  BY <1>12 DEF RmLayer, Goto
<1>13. ASSUME NEW t \in Threads, RmFiles(t) PROVE Goal
  BY <1>13 DEF RmFiles, Goto
<1>14. ASSUME NEW t \in Threads, RmEnd(t) PROVE Goal
  BY <1>14 DEF RmEnd, Goto
<1>15. ASSUME Pause PROVE Goal
  BY <1>15 DEF Effect
<1>16. ASSUME Unpause PROVE Goal
  BY <1>16 DEF Effect
<1>17. ASSUME Paused PROVE Goal
  BY <1>17 DEF Effect
<1>18. ASSUME EventDone PROVE Goal
  BY <1>18 DEF Effect
<1>19. ASSUME EventStart PROVE Goal
  BY <1>19 DEF Effect
<1>20. ASSUME EventPaused PROVE Goal
  BY <1>20 DEF Effect
<1>21. ASSUME EventExit PROVE Goal
  BY <1>21 DEF Effect
<1>22. ASSUME ExitDeletes PROVE Goal
  BY <1>22 DEF ExitDeletes, Goto
<1>23. ASSUME ExitDecides PROVE Goal
  BY <1>23 DEF Effect
<1>24. ASSUME ExitSaves PROVE Goal
  BY <1>24 DEF ExitSaves
<1>25. ASSUME TimerFires PROVE Goal
  BY <1>25 DEF TimerFires
<1>26. ASSUME BackoffEnds PROVE Goal
  BY <1>26 DEF BackoffEnds, Goto
<1>27. ASSUME BackoffCanceled PROVE Goal
  BY <1>27 DEF BackoffCanceled, Goto
<1>28. ASSUME StartupDone PROVE Goal
  BY <1>28 DEF StartupDone, Goto
<1>29. ASSUME GiveUp PROVE Goal
  BY <1>29 DEF GiveUp, Goto
<1>30. ASSUME NEW code \in scenario.ExitCodes, ProcessExits(code) PROVE Goal
  BY <1>30 DEF Effect
<1>31. ASSUME Crash PROVE Goal
  BY <1>31 DEF Effect
<1>32. ASSUME Shutdown PROVE Goal
  BY <1>32 DEF Shutdown, Goto
<1>33. ASSUME ShutdownEnds PROVE Goal
  BY <1>33 DEF Effect
<1>34. ASSUME Loads PROVE Goal
  BY <1>34 DEF Effect
<1>35. ASSUME Registers PROVE Goal
  BY <1>35 DEF Effect
<1>36. ASSUME Restores PROVE Goal
  BY <1>36 DEF Restores, Goto
<1>37. ASSUME RestoreFails PROVE Goal
  BY <1>37 DEF RestoreFails, Goto
<1>38. ASSUME Restored PROVE Goal
  BY <1>38 DEF Restored, Goto
<1>39. ASSUME Inspects PROVE Goal
  <2>1. ~found.alive => ~Alive
    BY <1>39 DEF Inspects, RestartOK
  <2> QED
    BY <2>1, <1>39 DEF Inspects, Goto, Alive
<1>40. ASSUME Status PROVE Goal
  <2>1. CASE task.frozen \/ task.state # "running"
    BY <2>1, <1>40 DEF Status, Alive
  <2>2. CASE ~task.frozen /\ task.state = "running"
    <3>1. c' = [c EXCEPT !.Paused = FALSE]
      BY <2>2, <1>40 DEF Status, Alive, Save
    <3> QED
      BY <3>1, PausedFields
  <2> QED
    BY <2>1, <2>2 DEF Tasks
<1>41. ASSUME StatusFails PROVE Goal
  BY <1>41 DEF StatusFails, Goto
<1>42. ASSUME MarksStopped PROVE Goal
  BY <1>42 DEF Effect
<1>43. ASSUME ResetsManager PROVE Goal
  BY <1>43 DEF ResetsManager, Goto
<1>44. ASSUME Lists PROVE Goal
  BY <1>44 DEF Lists, Goto
<1>45. ASSUME Unmarks PROVE Goal
  BY <1>45 DEF Unmarks, Goto
<1>46. ASSUME Ready PROVE Goal
  BY <1>46 DEF Ready, Goto
<1> HIDE DEF Goal
<1>z. Goal
  BY <1>1, <1>2, <1>3, <1>4, <1>5, <1>6, <1>7, <1>8, <1>9, <1>10, <1>11, <1>12, <1>13, <1>14,
        <1>15, <1>16, <1>17, <1>18, <1>19, <1>20, <1>21, <1>22, <1>23, <1>24, <1>25, <1>26,
        <1>27, <1>28, <1>29, <1>30, <1>31, <1>32, <1>33, <1>34, <1>35, <1>36, <1>37, <1>38,
        <1>39, <1>40, <1>41, <1>42, <1>43, <1>44, <1>45, <1>46 DEF Next, Start, Removal, Event,
        Backoff, RestoreStep
<1> QED
  BY <1>z DEF Goal

\* The last pause or resume that is pending, when the Monitor takes an event off the queue.
LEMMA TailFlips ==
    ASSUME IInv, pc[Monitor] = "idle", pc'[Monitor] = "idle", queue # <<>>, queue' = Tail(queue)
    PROVE  /\ LastPaused' => LastPaused
           /\ (\A i \in DOMAIN Pending' : ~Flip(Pending'[i])) =>
                 /\ Head(queue).type = "paused" => LastPaused
                 /\ ~Flip(Head(queue)) => \A i \in DOMAIN Pending : ~Flip(Pending[i])
<1>0. /\ 1 \in DOMAIN Pending /\ Head(queue) = Pending[1]
      /\ \A i \in DOMAIN Pending' : i \in Nat /\ i + 1 \in DOMAIN Pending /\ Pending'[i] = Pending[i + 1]
      /\ \A i \in DOMAIN Pending : i # 1 => i - 1 \in DOMAIN Pending' /\ Pending'[i - 1] = Pending[i]
  BY TailPending
<1>1. DOMAIN Pending = 1 .. Len(Pending) /\ Len(Pending) \in Nat
  BY PendingFacts
<1>2. ASSUME LastPaused' PROVE LastPaused
  <2>1. PICK i \in DOMAIN Pending' : /\ Pending'[i].type = "paused"
                                     /\ \A j \in DOMAIN Pending' : Flip(Pending'[j]) => j <= i
    BY <1>2 DEF LastPaused
  <2>2. i + 1 \in DOMAIN Pending /\ Pending[i + 1].type = "paused"
    BY <1>0, <2>1
  <2>3. ASSUME NEW j \in DOMAIN Pending, Flip(Pending[j]) PROVE j <= i + 1
    <3>1. CASE j = 1
      BY <1>1, <2>2, <3>1
    <3>2. CASE j # 1
      <4>1. j - 1 <= i
        BY <1>0, <2>1, <2>3, <3>2
      <4>2. i \in Int /\ j \in Int
        BY <1>0, <1>1, <2>1
      <4> QED
        BY <4>1, <4>2
    <3> QED
      BY <3>1, <3>2
  <2> QED
    BY <2>2, <2>3 DEF LastPaused
<1>3. ASSUME \A i \in DOMAIN Pending' : ~Flip(Pending'[i])
      PROVE  /\ Head(queue).type = "paused" => LastPaused
             /\ ~Flip(Head(queue)) => \A i \in DOMAIN Pending : ~Flip(Pending[i])
  <2>1. \A j \in DOMAIN Pending : Flip(Pending[j]) => j <= 1
    BY <1>0, <1>1, <1>3
  <2> QED
    BY <1>0, <1>1, <1>3, <2>1 DEF LastPaused
<1> QED
  BY <1>2, <1>3

\* What is paused, through every step.
LEMMA PauseKept ==
    ASSUME IInv, Next, ~raced'
    PROVE  PauseOK'
<1> USE ThreadFacts DEF bounds, history, outside, manager
<1>0. /\ ~raced /\ TypeOK /\ ControlOK /\ LoadedOK /\ DeadOK /\ TaskOK /\ DataOK
      /\ scenario \in Scenarios
  BY RacedStays DEF IInv, TypeOK
<1>e. /\ EventStart => UNCHANGED <<c, disk, recorded>>
      /\ Handles("paused") /\ Unlocked => Busy(c)
      /\ pc[Monitor] = "decide" => ~Alive /\ Busy(c) /\ queue # <<>> /\ Tail(queue) = <<>>
  BY <1>0, EventFacts
<1>t. /\ c \in Containers /\ disk \in Containers \cup {Gone} /\ registered \in BOOLEAN
      /\ up \in {"down", "restoring", "up", "stopping"}
      /\ lock \in Threads \cup {Free} /\ \A t \in Threads : lock = t <=> pc[t] \in HoldsLock
      /\ found.list \in {"none", "start", "rm", "ready"} /\ task \in Tasks
  BY <1>0 DEF TypeOK, Tasks
<1>l. LabelsOK /\ PhaseOK /\ RolesOK
  BY <1>0 DEF ControlOK
<1>r. c' \in Containers /\ disk' \in Containers \cup {Gone} /\ c' # Gone
  <2>1. \A r \in Containers : r # Gone
    BY DEF Containers, Gone
  <2> QED
    BY <2>1, RecordTypes
<1>p. starts \in Nat /\ recorded \in 0 .. starts
  BY <1>0, ScenarioFacts DEF TaskOK
<1>d. /\ RecordOK /\ RestartOK /\ TaskOK /\ PidsOK /\ EventsOK /\ HandledOK /\ PendingOK /\ RestoringOK
      /\ queue \in Seq(Events)
  BY <1>0 DEF DataOK, IInv, EventsOK, TypeOK
<1>c. 0 \in Codes /\ scenario.ExitCodes \subseteq Codes /\ task.pid \in Pids /\ starts \in Pids
  BY <1>0, <1>t, ScenarioFacts DEF Tasks, TaskOK
<1>f. /\ Pending \in Seq(Events) /\ (Past => queue # <<>>) /\ (~Past => Pending = queue)
      /\ DOMAIN Pending = 1 .. Len(Pending) /\ Len(Pending) \in Nat
      /\ \A i \in DOMAIN Pending : Pending[i].pid \in 1 .. starts /\ Pending[i] \in Events
  BY PendingFacts
<1>u. /\ (\E t \in Threads : pc[t] = "started") => Cur = starts /\ BeingStarted
      /\ (\A t \in Threads : pc[t] # "started") => Cur = c.Pid /\ ~BeingStarted
      /\ lock \in {Free, Monitor} => \A t \in Threads : pc[t] \notin {"created", "started"}
      /\ \A t, u \in Threads : pc[t] \in HoldsLock /\ pc[u] \in HoldsLock => t = u
  BY CurIs
<1>z. ASSUME c'.Pid = c.Pid, starts' = starts, \A t \in Threads : pc'[t] = "started" <=> pc[t] = "started"
      PROVE  Cur' = Cur
  BY <1>z DEF Cur, BeingStarted
<1>w. Past => pc[Monitor] \notin {"exit", "decide"}
  BY DEF Past
<1>o. PauseOK
  BY <1>0 DEF DataOK
<1>a. up \in {"down", "restoring"} => pc[Api] # "pausing"
  BY <1>l DEF PhaseOK
<1>1. ASSUME ~Effect PROVE PauseOK'
  <2>1. Plain /\ Pending' = Pending
    BY <1>1, PlainSteps, PlainPending
  <2>2. /\ UNCHANGED lost /\ (Busy(c)' <=> Busy(c)) /\ (c'.Paused => c.Paused)
        /\ (Alive' <=> Alive) /\ (task'.frozen <=> task.frozen)
        /\ (registered' => registered) /\ (gaveUp => gaveUp')
        /\ (pc'[Api] = "pausing" => pc[Api] = "pausing")
    BY <2>1 DEF Plain, Busy
  <2>3. pc[Main] \in Early =>
           pc'[Main] \in Early \/ gaveUp' \/ ~c'.Paused \/ ~Alive' \/ task'.frozen
    BY <1>1, EarlyKept
  <2>4. LastPaused' <=> LastPaused
    BY <2>1 DEF LastPaused
  <2> QED
    BY <1>o, <2>1, <2>2, <2>3, <2>4 DEF PauseOK, Early
<1>2. ASSUME NEW t \in Threads, StartsTask(t) PROVE PauseOK'
  <2> DEFINE e == [type |-> "start", pid |-> starts + 1, code |-> 0]
  <2>0. /\ pc[t] = "created" /\ pc' = [pc EXCEPT ![t] = "started"] /\ UNCHANGED c
        /\ Emit("start", starts + 1, 0) /\ t # Monitor /\ starts < scenario.MaxStarts
    BY <1>2, <1>l, <1>0 DEF StartsTask, Goto, LabelsOK, MonitorLabels, KillLabels, RmLabels,
       TaskOK
  <2>1. e \in Events
    BY <1>0, <1>c, <1>p, <2>0, ScenarioFacts DEF Events, Pids
  <2>2. Pending' = Append(Pending, e) \/ Pending' = Pending
    BY <2>0, <2>1, <1>l, EmitPending DEF LabelsOK
  <2>3. ~Busy(c) /\ ~c.Paused /\ \A i \in DOMAIN Pending : Pending[i].type # "paused"
    BY <1>d, <2>0 DEF RecordOK, Fits, PendingOK
  <2>4. \A i \in DOMAIN Pending' : Pending'[i].type # "paused"
    BY SMTT(30), <1>f, <2>1, <2>2, <2>3, QueueFacts
  <2>5. pc'[Api] # "pausing"
    BY <1>l, <1>u, <2>0 DEF HoldsLock, LabelsOK
  <2> QED
    BY <2>0, <2>3, <2>4, <2>5 DEF PauseOK, LastPaused
<1>3. ASSUME NEW t \in Threads, Started(t) PROVE PauseOK'
  <2>0. /\ pc[t] = "started" /\ pc' = [pc EXCEPT ![t] = Ends(t)] /\ t # Monitor
        /\ UNCHANGED <<queue, task, lost, gaveUp, registered>>
    BY <1>3, <1>l DEF Started, Goto, outside, LabelsOK, MonitorLabels, KillLabels, RmLabels
  <2>1. ~c'.Paused
    BY <1>3, <1>t, StartedFields DEF Started, Save
  <2>2. Pending' = Pending
    BY <2>0, <1>l DEF Pending, Past, LabelsOK
  <2>3. pc'[Api] # "pausing"
    BY <1>l, <1>u, <2>0, EndsAre DEF HoldsLock, LabelsOK
  <2>4. LastPaused' <=> LastPaused
    BY <2>2 DEF LastPaused
  <2> QED
    BY <1>o, <2>0, <2>1, <2>3, <2>4 DEF PauseOK, Alive
<1>4. ASSUME NEW code \in scenario.ExitCodes, ProcessExits(code) PROVE PauseOK'
  <2>1. ~Alive' /\ ~task.frozen /\ UNCHANGED pc
    BY <1>4, <1>t DEF ProcessExits, Alive, Tasks
  <2> QED
    BY <1>o, <2>1 DEF PauseOK
<1>5. ASSUME NEW t \in Threads, Signal(t) PROVE PauseOK'
  <2> DEFINE e == [type |-> "resumed", pid |-> task.pid, code |-> 0]
  <2>0. /\ UNCHANGED <<c, up, gaveUp, registered>>
        /\ (pc'[Monitor] = pc[Monitor] \/ (Past /\ Past')) /\ (pc'[Main] = pc[Main] \/ pc[Main] \notin Early)
    BY <1>5, <1>l DEF Signal, Goto, bounds, Past, LabelsOK, Early
  <2>1. pc'[Api] # "pausing"
    BY <1>5, <1>l, <1>u DEF Signal, Goto, LabelsOK, HoldsLock
  <2>2. (UNCHANGED <<queue, task, lost>>) \/ Emit("resumed", task.pid, 0)
    BY <1>5 DEF Signal
  <2>3. e \in Events
    BY <1>c DEF Events
  <2>4. CASE UNCHANGED <<queue, task, lost>>
    <3>1. Pending' = Pending
      BY <2>0, <2>4 DEF Pending, Past
    <3>2. LastPaused' <=> LastPaused
      BY <3>1 DEF LastPaused
    <3> QED
      BY <1>o, <2>0, <2>1, <2>4, <3>1, <3>2 DEF PauseOK, Alive, Early
  <2>5. CASE Emit("resumed", task.pid, 0)
    <3>1. Pending' = Append(Pending, e) \/ lost' = (up # "down")
      BY <2>0, <2>3, <2>5, EmitPending
    <3>2. CASE Pending' = Append(Pending, e)
      <4>1. /\ Len(Pending) + 1 \in DOMAIN Pending' /\ Pending'[Len(Pending) + 1] = e
            /\ DOMAIN Pending' = 1 .. Len(Pending) + 1
        BY <1>f, <2>3, <3>2, QueueFacts
      <4>2. Flip(Pending'[Len(Pending) + 1])
        BY <4>1 DEF Flip
      <4>3. ~LastPaused'
        BY <1>f, <4>1, <4>2 DEF LastPaused
      <4> QED
        BY <2>1, <4>1, <4>2, <4>3 DEF PauseOK
    <3>3. CASE lost' = (up # "down")
      <4>1. up = "down" => ~registered'
        BY <1>0, <2>0 DEF LoadedOK
      <4> QED
        BY <2>1, <3>3, <4>1 DEF PauseOK
    <3> QED
      BY <3>1, <3>2, <3>3
  <2> QED
    BY <2>2, <2>4, <2>5
<1>6. ASSUME Unpause PROVE PauseOK'
  <2> DEFINE e == [type |-> "resumed", pid |-> task.pid, code |-> 0]
  <2>0. /\ UNCHANGED <<c, up, gaveUp, registered>>
        /\ (pc'[Monitor] = pc[Monitor] \/ (Past /\ Past')) /\ (pc'[Main] = pc[Main] \/ pc[Main] \notin Early)
    BY <1>6, <1>l DEF Unpause, Goto, bounds, Past, LabelsOK, Early
  <2>1. pc'[Api] # "pausing"
    BY <1>6, <1>l, <1>u DEF Unpause, Goto, LabelsOK, HoldsLock
  <2>2. (UNCHANGED <<queue, task, lost>>) \/ Emit("resumed", task.pid, 0)
    BY <1>6 DEF Unpause
  <2>3. e \in Events
    BY <1>c DEF Events
  <2>4. CASE UNCHANGED <<queue, task, lost>>
    <3>1. Pending' = Pending
      BY <2>0, <2>4 DEF Pending, Past
    <3>2. LastPaused' <=> LastPaused
      BY <3>1 DEF LastPaused
    <3> QED
      BY <1>o, <2>0, <2>1, <2>4, <3>1, <3>2 DEF PauseOK, Alive, Early
  <2>5. CASE Emit("resumed", task.pid, 0)
    <3>1. Pending' = Append(Pending, e) \/ lost' = (up # "down")
      BY <2>0, <2>3, <2>5, EmitPending
    <3>2. CASE Pending' = Append(Pending, e)
      <4>1. /\ Len(Pending) + 1 \in DOMAIN Pending' /\ Pending'[Len(Pending) + 1] = e
            /\ DOMAIN Pending' = 1 .. Len(Pending) + 1
        BY <1>f, <2>3, <3>2, QueueFacts
      <4>2. Flip(Pending'[Len(Pending) + 1])
        BY <4>1 DEF Flip
      <4>3. ~LastPaused'
        BY <1>f, <4>1, <4>2 DEF LastPaused
      <4> QED
        BY <2>1, <4>1, <4>2, <4>3 DEF PauseOK
    <3>3. CASE lost' = (up # "down")
      <4>1. up = "down" => ~registered'
        BY <1>0, <2>0 DEF LoadedOK
      <4> QED
        BY <2>1, <3>3, <4>1 DEF PauseOK
    <3> QED
      BY <3>1, <3>2, <3>3
  <2> QED
    BY <2>2, <2>4, <2>5
<1>7. ASSUME Pause PROVE PauseOK'
  <2>1. CASE c.Running /\ ~c.Paused /\ ~c.Restarting /\ Alive /\ ~task.frozen
    <3>1. Alive' /\ task'.frozen /\ Busy(c)'
      BY <1>7, <1>t, <2>1 DEF Pause, Alive, Busy, Tasks
    <3> QED
      BY <3>1 DEF PauseOK
  <2>2. CASE ~(c.Running /\ ~c.Paused /\ ~c.Restarting /\ Alive /\ ~task.frozen)
    <3>1. UNCHANGED <<task, queue, lost, c, gaveUp, registered>> /\ pc' = [pc EXCEPT ![Api] = "idle"]
      BY <1>7, <2>2 DEF Pause, Goto
    <3>2. pc'[Main] = pc[Main] /\ pc'[Api] # "pausing" /\ pc'[Monitor] = pc[Monitor]
      BY <1>l, <3>1, ThreadFacts DEF LabelsOK
    <3>3. Pending' = Pending
      BY <3>1, <3>2 DEF Pending, Past
    <3>4. LastPaused' <=> LastPaused
      BY <3>3 DEF LastPaused
    <3> QED
      BY <1>o, <3>1, <3>2, <3>3, <3>4 DEF PauseOK, Alive
  <2> QED
    BY <2>1, <2>2
<1>8. ASSUME Paused PROVE PauseOK'
  <2>0. /\ pc' = [pc EXCEPT ![Api] = "idle"] /\ UNCHANGED <<queue, task, lost, gaveUp, registered>>
    BY <1>8 DEF Paused, Goto, outside, history
  <2>1. c'.Paused => Alive /\ task.frozen
    BY <1>8, <1>t, <1>o, PausedSaved DEF PauseOK
  <2>2. pc'[Main] = pc[Main] /\ pc'[Api] # "pausing" /\ pc'[Monitor] = pc[Monitor]
    BY <1>l, <2>0, ThreadFacts DEF LabelsOK
  <2>3. Pending' = Pending
    BY <2>0, <2>2 DEF Pending, Past
  <2>4. LastPaused' <=> LastPaused
    BY <2>3 DEF LastPaused
  <2> QED
    BY <1>o, <2>0, <2>1, <2>2, <2>4 DEF PauseOK, Alive
<1>9. ASSUME EventStart PROVE PauseOK'
  <2>0. /\ pc[Monitor] = "idle" /\ pc'[Monitor] = "idle" /\ queue # <<>> /\ queue' = Tail(queue)
        /\ ~Flip(Head(queue)) /\ UNCHANGED <<c, pc, task, lost, gaveUp, registered>>
    BY <1>9, <1>e DEF EventStart, Handles, Flip, outside
  <2>1. /\ LastPaused' => LastPaused
        /\ (\A i \in DOMAIN Pending' : ~Flip(Pending'[i])) => \A i \in DOMAIN Pending : ~Flip(Pending[i])
    BY <2>0, TailFlips
  <2> QED
    BY <1>o, <2>0, <2>1 DEF PauseOK, Alive, Busy
<1>10. ASSUME EventPaused PROVE PauseOK'
  <2>0. /\ pc[Monitor] = "idle" /\ pc'[Monitor] = "idle" /\ queue # <<>> /\ queue' = Tail(queue)
        /\ Head(queue).type \in {"paused", "resumed"} /\ lock = Free
        /\ UNCHANGED <<pc, task, lost, gaveUp, registered>>
    BY <1>10 DEF EventPaused, Handles, outside, history, Unlocked
  <2>1. c'.Paused = (Head(queue).type = "paused")
    BY <1>10, <1>t, EventPausedSaved
  <2>2. /\ LastPaused' => LastPaused
        /\ (\A i \in DOMAIN Pending' : ~Flip(Pending'[i])) /\ Head(queue).type = "paused" => LastPaused
    BY <2>0, TailFlips
  <2>3. pc[Api] # "pausing"
    BY <1>t, <2>0, ThreadFacts DEF HoldsLock
  <2> QED
    BY <1>o, <2>0, <2>1, <2>2, <2>3 DEF PauseOK, Alive
<1>11. ASSUME EventExit PROVE PauseOK'
  <2>0. /\ UNCHANGED <<c, task, lost, gaveUp, registered>> /\ queue # <<>>
        /\ pc[Monitor] = "idle" /\ ~Flip(Head(queue))
    BY <1>11 DEF EventExit, Handles, Flip, outside, history
  <2>1. pc'[Main] = pc[Main] /\ pc'[Api] = pc[Api]
    BY <1>11, <1>l, ThreadFacts DEF EventExit, Goto, LabelsOK
  <2>2. CASE Head(queue).pid = c.Pid
    <3>1. Pending' = Pending
      BY <1>11, <1>l, <2>2 DEF EventExit, Handles, Goto, Pending, Past, LabelsOK
    <3>2. LastPaused' <=> LastPaused
      BY <3>1 DEF LastPaused
    <3> QED
      BY <1>o, <2>0, <2>1, <3>1, <3>2 DEF PauseOK, Alive, Busy
  <2>3. CASE Head(queue).pid # c.Pid
    <3>1. pc'[Monitor] = "idle" /\ queue' = Tail(queue)
      BY <1>11, <2>0, <2>3 DEF EventExit
    <3>2. /\ LastPaused' => LastPaused
          /\ (\A i \in DOMAIN Pending' : ~Flip(Pending'[i])) => \A i \in DOMAIN Pending : ~Flip(Pending[i])
      BY <2>0, <3>1, TailFlips
    <3> QED
      BY <1>o, <2>0, <2>1, <3>2 DEF PauseOK, Alive, Busy
  <2> QED
    BY <2>2, <2>3
<1>12. ASSUME EventDone PROVE PauseOK'
  <2>0. /\ UNCHANGED <<c, task, lost, gaveUp, registered>> /\ queue # <<>> /\ queue' = Tail(queue)
        /\ pc' = [pc EXCEPT ![Monitor] = "idle"]
        /\ pc[Monitor] = "handled" \/ (pc[Monitor] = "idle" /\ ~registered)
    BY <1>12 DEF EventDone, Goto, outside, history
  <2>1. pc'[Main] = pc[Main] /\ pc'[Api] = pc[Api]
    BY <1>l, <2>0, ThreadFacts DEF LabelsOK
  <2>2. CASE pc[Monitor] = "handled"
    <3>1. Pending' = Pending
      BY <1>l, <2>0, <2>2 DEF Pending, Past, LabelsOK
    <3>2. LastPaused' <=> LastPaused
      BY <3>1 DEF LastPaused
    <3> QED
      BY <1>o, <2>0, <2>1, <3>1, <3>2 DEF PauseOK, Alive, Busy
  <2>3. CASE ~registered
    BY <1>o, <2>0, <2>1, <2>3 DEF PauseOK, Alive, Busy
  <2> QED
    BY <2>0, <2>2, <2>3
<1>13. ASSUME ExitDecides PROVE PauseOK'
  <2>0. pc' = [pc EXCEPT ![Monitor] = "save"] /\ pc[Monitor] = "decide" /\ UNCHANGED queue
    BY <1>13 DEF ExitDecides, Goto
  <2>1. ~c'.Paused
    BY <1>13, <1>t, StoppedFields, RestartingFields DEF ExitDecides
  <2>2. pc'[Api] # "pausing"
    BY <1>l, <1>u, <2>0, ThreadFacts DEF HoldsLock, LabelsOK
  <2>3. Pending' = <<>>
    BY <1>e, <1>l, <2>0 DEF Pending, Past, LabelsOK
  <2> QED
    BY <2>1, <2>2, <2>3 DEF PauseOK, LastPaused
<1>14. ASSUME MarksStopped PROVE PauseOK'
  <2>0. /\ pc' = [pc EXCEPT ![Main] = "reset"] /\ pc[Main] = "stopped" /\ lock = Free
        /\ UNCHANGED <<queue, task, lost, gaveUp, registered>>
    BY <1>14 DEF MarksStopped, Goto, Unlocked
  <2>1. ~c'.Paused
    BY <1>14, <1>t, StoppedFields DEF MarksStopped, Save
  <2>2. pc'[Api] # "pausing" /\ pc'[Monitor] = pc[Monitor]
    BY <1>t, <1>l, <2>0, ThreadFacts DEF HoldsLock, LabelsOK
  <2>3. Pending' = Pending
    BY <2>0, <2>2 DEF Pending, Past
  <2>4. LastPaused' <=> LastPaused
    BY <2>3 DEF LastPaused
  <2> QED
    BY <1>o, <2>0, <2>1, <2>2, <2>4 DEF PauseOK, Alive
<1>15. ASSUME Registers PROVE PauseOK'
  <2>0. pc' = [pc EXCEPT ![Main] = "restore"] /\ pc[Main] = "register" /\ UNCHANGED queue
    BY <1>15 DEF Registers, Goto
  <2>1. pc'[Main] = "restore" /\ pc'[Api] # "pausing" /\ pc'[Monitor] = pc[Monitor]
    BY <1>a, <1>l, <1>t, <2>0, ThreadFacts DEF LabelsOK, PhaseOK, KillLabels
  <2>2. \A i \in DOMAIN queue : queue[i].type # "paused"
    BY <1>d, <2>0 DEF RestoringOK, RestoreLabels
  <2>3. \A i \in DOMAIN Pending : Pending[i].type # "paused"
    BY <1>d, <1>f, <2>2, TailFacts DEF Pending
  <2>4. Pending' = Pending
    BY <2>0, <2>1 DEF Pending, Past
  <2> QED
    BY <2>1, <2>3, <2>4 DEF PauseOK, LastPaused, Early
<1>16. ASSUME Loads \/ Crash \/ ShutdownEnds PROVE PauseOK'
  <2>1. ~registered' /\ pc'[Api] # "pausing"
    BY <1>16, <1>0, <1>l, ThreadFacts DEF Loads, Crash, ShutdownEnds, Down, Goto, LoadedOK,
          PhaseOK, LabelsOK
  <2> QED
    BY <2>1 DEF PauseOK
<1> QED
  BY <1>1, <1>2, <1>3, <1>4, <1>5, <1>6, <1>7, <1>8, <1>9, <1>10, <1>11, <1>12, <1>13, <1>14,
        <1>15, <1>16 DEF Effect


\* t has the container lock for a start.
Starting(t) == pc[t] \in {"created", "started"}

\* The manual stop is kept by a step that saves it as it is.
LEMMA SavedSame ==
    ASSUME SavedOK, UNCHANGED <<scenario, stopped>>, c' # Gone,
           c'.HasBeenManuallyStopped = c.HasBeenManuallyStopped,
           registered' => registered /\ disk # Gone,
           disk # Gone => \/ disk' = disk
                          \/ disk' = Gone /\ ~registered'
                          \/ disk' = c' /\ registered /\ ~Starting(Api) /\ ~Starting(Main),
           disk = Gone => disk' = Gone,
           \A t \in {Api, Main} : Starting(t)' <=> Starting(t),
           found'.list = "start" => found.list = "start"
    PROVE  SavedOK'
  BY DEF SavedOK, Starting

\* The manual stop, in memory and on disk, through every step.
LEMMA SavedKept ==
    ASSUME IInv, Next, ~raced'
    PROVE  SavedOK'
<1> USE ThreadFacts DEF bounds, history, outside, manager
<1>0. /\ ~raced /\ TypeOK /\ ControlOK /\ LoadedOK /\ DeadOK /\ TaskOK /\ DataOK
      /\ scenario \in Scenarios
  BY RacedStays DEF IInv, TypeOK
<1>e. /\ EventStart => UNCHANGED <<c, disk, recorded>>
      /\ Handles("paused") /\ Unlocked => Busy(c)
      /\ pc[Monitor] = "decide" => ~Alive /\ Busy(c) /\ queue # <<>> /\ Tail(queue) = <<>>
  BY <1>0, EventFacts
<1>t. /\ c \in Containers /\ disk \in Containers \cup {Gone} /\ registered \in BOOLEAN
      /\ up \in {"down", "restoring", "up", "stopping"}
      /\ lock \in Threads \cup {Free} /\ \A t \in Threads : lock = t <=> pc[t] \in HoldsLock
      /\ found.list \in {"none", "start", "rm", "ready"} /\ task \in Tasks
  BY <1>0 DEF TypeOK, Tasks
<1>l. LabelsOK /\ PhaseOK /\ RolesOK
  BY <1>0 DEF ControlOK
<1>r. c' \in Containers /\ disk' \in Containers \cup {Gone} /\ c' # Gone
  <2>1. \A r \in Containers : r # Gone
    BY DEF Containers, Gone
  <2> QED
    BY <2>1, RecordTypes
<1>p. starts \in Nat /\ recorded \in 0 .. starts
  BY <1>0, ScenarioFacts DEF TaskOK
<1>d. LoadedOK /\ SavedOK
  BY <1>0 DEF DataOK
<1>s. UNCHANGED scenario
  BY ScenarioKept
<1>a. scenario.AutoRemove => scenario.Policy = "no"
  BY <1>0, RestoreAssumption
<1>u. lock \notin {Api, Main} => ~Starting(Api) /\ ~Starting(Main)
  BY <1>t, ThreadFacts DEF HoldsLock, Starting
<1>n. ~registered /\ disk # Gone => Quiet
  BY <1>d DEF LoadedOK
<1>y. registered => disk # Gone
  BY <1>d DEF LoadedOK
<1>o. Quiet => ~Starting(Api) /\ ~Starting(Main)
  BY DEF Quiet, Starting
<1>i. /\ Api \in Threads /\ Main \in Threads /\ Api # Main
      /\ \A t \in Threads : Ends(t) \notin {"created", "started"}
  BY ThreadFacts, EndsAre
<1>f. found \in Founds
  BY <1>0 DEF TypeOK, Founds
<1> USE <1>f, <1>l, <1>t, <1>r, <1>d, <1>s, <1>n, <1>y
<1>1. ASSUME NEW op \in AllOps, Request(op) PROVE SavedOK'
  <2>1. c'.HasBeenManuallyStopped = c.HasBeenManuallyStopped /\ UNCHANGED <<disk, registered, stopped>>
    BY <1>1 DEF Request, Goto
  <2>2. \A t_1 \in {Api, Main} : Starting(t_1)' <=> Starting(t_1)
    BY <1>1, <1>i DEF Starting, LabelsOK, AllOps, Request, Goto
  <2>3. found'.list = "start" => found.list = "start"
    BY <1>1 DEF Request, Goto, NotFound, Founds
  <2> QED
    BY <2>1, <2>2, <2>3, SavedSame
<1>2. ASSUME NEW t \in Threads, StartRefused(t) PROVE SavedOK'
  <2>1. c'.HasBeenManuallyStopped = c.HasBeenManuallyStopped /\ UNCHANGED <<disk, registered, stopped>>
    BY <1>2 DEF StartRefused, StartFailed, Resets, Goto
  <2>2. \A t_1 \in {Api, Main} : Starting(t_1)' <=> Starting(t_1)
    BY <1>2, <1>i DEF Starting, LabelsOK, StartRefused, StartFailed, Resets, Goto
  <2>3. found'.list = "start" => found.list = "start"
    BY <1>2 DEF StartRefused, StartFailed, Resets, Goto, NotFound, Founds
  <2> QED
    BY <2>1, <2>2, <2>3, SavedSame
<1>3. ASSUME NEW t \in Threads, Creates(t) PROVE SavedOK'
  <2>1. /\ UNCHANGED <<disk, stopped, registered, found>> /\ c' = ForStart(t) /\ lock = Free
        /\ pc' = [pc EXCEPT ![t] = "created"] /\ pc[t] = "start"
    BY <1>3 DEF Creates, Starts, Goto, Unlocked
  <2>2. c'.HasBeenManuallyStopped = IF t # Restarter THEN FALSE ELSE c.HasBeenManuallyStopped
    BY <2>1, ForStartFields
  <2>3. ~Starting(Api) /\ ~Starting(Main)
    BY <2>1, <1>u, <1>i, ThreadFacts
  <2>4. t \in {Api, Main} <=> t # Restarter
    BY <2>1, ThreadFacts DEF LabelsOK, MonitorLabels, KillLabels, RmLabels
  <2>5. CASE t = Restarter
    <3>1. \A u \in {Api, Main} : Starting(u)' <=> Starting(u)
      BY <2>1, <2>5, ThreadFacts, <1>i DEF Starting, LabelsOK
    <3> QED
      BY <2>1, <2>2, <2>5, <3>1, SavedSame
  <2>6. CASE t \in {Api, Main}
    <3>1. Starting(t)' /\ ~c'.HasBeenManuallyStopped
      BY <2>1, <2>2, <2>4, <2>6 DEF Starting, LabelsOK
    <3> QED
      BY <2>1, <2>6, <3>1 DEF SavedOK, Starting
  <2> QED
    BY <2>4, <2>5, <2>6
<1>4. ASSUME NEW t \in Threads, StartFails(t) PROVE SavedOK'
  <2>1. /\ UNCHANGED <<registered, found>> /\ SaveFile(c')
        /\ (pc[t] = "start" /\ lock = Free) \/ pc[t] = "created"
        /\ pc' = [pc EXCEPT ![t] = IF scenario.AutoRemove THEN "rm" ELSE StartFailed(t)]
    BY <1>4, FailureSaved DEF StartFails, Goto, Starts, Unlocked
  <2>2. \/ stopped' = (stopped /\ t # Api) /\ c'.HasBeenManuallyStopped = FALSE
           /\ t \in {Api, Main}
        \/ (stopped' <=> stopped) /\ c'.HasBeenManuallyStopped = c.HasBeenManuallyStopped
           /\ ~(t \in {Api, Main} /\ Starting(t))
        \/ scenario.Policy # "unless-stopped"
    <3>1. CASE Starts(t)
      <4>1. \/ /\ Resets(t) /\ c' = StartFailure(ForStart(t), FALSE)
               /\ stopped' = (stopped /\ t # Api)
            \/ c' = StartFailure(c, FALSE) /\ stopped' = stopped
        BY <1>4, <3>1 DEF StartFails, Starts, Save
      <4>2. ForStart(t) \in Containers /\ (Resets(t) => ForStart(t).HasBeenManuallyStopped = FALSE)
        BY DEF ForStart, Containers
      <4>3. t \in {Api, Main, Restarter} /\ ~Starting(t)
        BY <3>1, ThreadFacts DEF Starts, LabelsOK, MonitorLabels, KillLabels, RmLabels, Starting
      <4>4. CASE Resets(t) /\ c' = StartFailure(ForStart(t), FALSE) /\ stopped' = (stopped /\ t # Api)
        BY <4>2, <4>3, <4>4, FailureFields DEF Resets
      <4>5. CASE c' = StartFailure(c, FALSE) /\ stopped' = stopped
        <5>1. c'.HasBeenManuallyStopped = c.HasBeenManuallyStopped
          BY <4>5, FailureFields
        <5> QED
          BY <4>3, <4>5, <5>1
      <4> QED
        BY <4>1, <4>4, <4>5
    <3>2. CASE pc[t] = "created"
      <4>1. c' = StartFailure(c, FALSE) /\ stopped' = (stopped /\ t # Api)
        BY <1>4, <3>2 DEF StartFails, Starts, Save
      <4>2. c'.HasBeenManuallyStopped = c.HasBeenManuallyStopped
        BY <4>1, FailureFields
      <4>3. t \in {Api, Main, Restarter}
        BY <3>2, ThreadFacts DEF LabelsOK, MonitorLabels, KillLabels, RmLabels
      <4>4. CASE t = Restarter
        BY <4>1, <4>2, <4>4, ThreadFacts
      <4>5. CASE t \in {Api, Main}
        <5>1. scenario.Policy = "unless-stopped" => c.HasBeenManuallyStopped = FALSE
          BY <3>2, <4>5 DEF SavedOK, Containers
        <5> QED
          BY <4>1, <4>2, <4>5, <5>1
      <4> QED
        BY <4>3, <4>4, <4>5
    <3> QED
      BY <2>1, <1>4, <3>1, <3>2 DEF StartFails
  <2>3. (IF scenario.AutoRemove THEN "rm" ELSE StartFailed(t)) \notin {"created", "started"}
    BY <1>i DEF StartFailed
  <2>4. \A u \in {Api, Main} : ~Starting(u)'
    <3>1. \A u \in {Api, Main} : u # t => ~Starting(u)
      BY <2>1, <1>t, <1>i, ThreadFacts DEF Starting, HoldsLock
    <3> QED
      BY <2>1, <2>3, <3>1, <1>i DEF Starting, LabelsOK
  <2>5. disk # Gone => registered
    BY <2>1 DEF Quiet, LabelsOK, MonitorLabels, KillLabels, RmLabels
  <2>6. t \in {Api, Main, Restarter}
    BY <2>1, ThreadFacts DEF LabelsOK, MonitorLabels, KillLabels, RmLabels
  <2>7. t = Main => found.list = "start"
    BY <2>1 DEF PhaseOK, StartLabels
  <2>8. CASE scenario.Policy # "unless-stopped"
    BY <2>8 DEF SavedOK
  <2>9. CASE /\ stopped' = (stopped /\ t # Api) /\ c'.HasBeenManuallyStopped = FALSE
             /\ t \in {Api, Main} /\ scenario.Policy = "unless-stopped"
    <3>1. disk # Gone => ~stopped'
      BY <2>7, <2>9, ThreadFacts DEF SavedOK
    <3> QED
      BY <2>1, <2>4, <2>5, <2>9, <3>1 DEF SavedOK, SaveFile, Starting
  <2>10. CASE /\ (stopped' <=> stopped) /\ c'.HasBeenManuallyStopped = c.HasBeenManuallyStopped
              /\ ~(t \in {Api, Main} /\ Starting(t))
    <3>1. ~Starting(Api) /\ ~Starting(Main)
      BY <2>1, <2>10, <1>t, <1>i, ThreadFacts DEF Starting, HoldsLock
    <3> QED
      BY <2>1, <2>4, <2>5, <2>10, <3>1 DEF SavedOK, SaveFile, Starting
  <2> QED
    BY <2>2, <2>8, <2>9, <2>10
<1>5. ASSUME NEW t \in Threads, StartsTask(t) PROVE SavedOK'
  <2>1. c'.HasBeenManuallyStopped = c.HasBeenManuallyStopped /\ UNCHANGED <<disk, registered, stopped>>
    BY <1>5 DEF StartsTask, Goto
  <2>2. \A t_1 \in {Api, Main} : Starting(t_1)' <=> Starting(t_1)
    BY <1>5, <1>i DEF Starting, LabelsOK, StartsTask, Goto
  <2>3. found'.list = "start" => found.list = "start"
    BY <1>5 DEF StartsTask, Goto, NotFound, Founds
  <2> QED
    BY <2>1, <2>2, <2>3, SavedSame
<1>6. ASSUME NEW t \in Threads, Started(t) PROVE SavedOK'
  <2>1. /\ UNCHANGED <<registered, found>> /\ pc[t] = "started" /\ SaveFile(c')
        /\ stopped' = (stopped /\ t # Api) /\ pc' = [pc EXCEPT ![t] = Ends(t)]
    BY <1>6 DEF Started, Save, Goto
  <2>2. c'.HasBeenManuallyStopped = c.HasBeenManuallyStopped
    BY <1>6, StartedFields DEF Started, Save
  <2>3. Ends(t) \notin {"created", "started"}
    BY <1>i
  <2>4. \A u \in {Api, Main} : ~Starting(u)'
    <3>1. \A u \in {Api, Main} : u # t => ~Starting(u)
      BY <2>1, <1>t, <1>i, ThreadFacts DEF Starting, HoldsLock
    <3> QED
      BY <2>1, <2>3, <3>1, <1>i DEF Starting, LabelsOK
  <2>5. disk # Gone => registered
    BY <2>1 DEF Quiet, LabelsOK, MonitorLabels, KillLabels, RmLabels
  <2>6. t \in {Api, Main, Restarter}
    BY <2>1, ThreadFacts DEF LabelsOK, MonitorLabels, KillLabels, RmLabels
  <2>7. t = Main => found.list = "start"
    BY <2>1 DEF PhaseOK, StartLabels
  <2>8. CASE t \in {Api, Main}
    <3>1. scenario.Policy = "unless-stopped" => ~c'.HasBeenManuallyStopped /\ (disk # Gone => ~stopped')
      BY <2>1, <2>2, <2>7, <2>8, ThreadFacts DEF SavedOK
    <3> QED
      BY <2>1, <2>4, <2>5, <3>1 DEF SavedOK, SaveFile, Starting
  <2>9. CASE t = Restarter
    <3>1. ~Starting(Api) /\ ~Starting(Main)
      BY <2>1, <2>9, <1>t, <1>i, ThreadFacts DEF Starting, HoldsLock
    <3>2. UNCHANGED stopped \/ (~stopped /\ ~stopped')
      BY <2>1, <2>9, ThreadFacts
    <3> QED
      BY <2>1, <2>2, <2>4, <2>5, <3>1, <3>2 DEF SavedOK, SaveFile, Starting
  <2> QED
    BY <2>6, <2>8, <2>9
<1>7. ASSUME NEW t \in Threads, Kill(t) PROVE SavedOK'
  <2>1. \A u \in {Api, Main} : ~Starting(u) /\ ~Starting(u)'
    BY <1>7, <1>i, <1>u, ThreadFacts DEF Starting, LabelsOK, Kill, Killed, Goto, Unlocked
  <2>2. UNCHANGED <<registered, found>> /\ pc[t] = "kill"
    BY <1>7 DEF Kill
  <2>3. disk # Gone => registered
    BY <2>2 DEF Quiet, LabelsOK, RestarterLabels, StartLabels
  <2>4. t # Restarter
    BY <2>2 DEF LabelsOK, RestarterLabels, StartLabels
  <2>5. scenario.Policy = "unless-stopped" => t = Api \/ up = "stopping"
    BY <1>a, <2>2, <2>4, ThreadFacts DEF RolesOK, PhaseOK, InRm, KillLabels
  <2>6. CASE UNCHANGED <<c, disk>> /\ (stopped' <=> stopped)
    BY <2>1, <2>2, <2>6 DEF SavedOK, Starting
  <2>7. CASE SaveFile(c') /\ c'.HasBeenManuallyStopped /\ up # "stopping"
             /\ stopped' = (stopped \/ (t = Api /\ up = "up"))
    <3>1. CASE scenario.Policy # "unless-stopped"
      BY <3>1 DEF SavedOK
    <3>2. CASE scenario.Policy = "unless-stopped"
      <4>1. up = "up" /\ t = Api /\ stopped'
        BY <2>2, <2>5, <2>7, <3>2 DEF PhaseOK
      <4>2. found'.list # "start"
        BY <2>2, <4>1 DEF PhaseOK, NotFound
      <4> QED
        BY <2>1, <2>2, <2>3, <2>7, <4>1, <4>2 DEF SavedOK, SaveFile, Starting
    <3> QED
      BY <3>1, <3>2
  <2> QED
    <3>1. CASE c.Running /\ up # "stopping"
      BY <1>7, <2>7, <3>1, KillSaved DEF Kill, Save, Containers
    <3>2. CASE ~c.Running
      BY <1>7, <2>6, <3>2 DEF Kill
    <3>3. CASE c.Running /\ up = "stopping"
      BY <1>7, <2>6, <3>3 DEF Kill
    <3> QED
      BY <3>1, <3>2, <3>3
<1>8. ASSUME NEW t \in Threads, Signal(t) PROVE SavedOK'
  <2>1. c'.HasBeenManuallyStopped = c.HasBeenManuallyStopped /\ UNCHANGED <<disk, registered, stopped>>
    BY <1>8 DEF Signal, Goto
  <2>2. \A t_1 \in {Api, Main} : Starting(t_1)' <=> Starting(t_1)
    BY <1>8, <1>i DEF Starting, LabelsOK, Signal, Goto
  <2>3. found'.list = "start" => found.list = "start"
    BY <1>8 DEF Signal, Goto, NotFound, Founds
  <2> QED
    BY <2>1, <2>2, <2>3, SavedSame
<1>9. ASSUME NEW t \in Threads, Waited(t) PROVE SavedOK'
  <2>1. c'.HasBeenManuallyStopped = c.HasBeenManuallyStopped /\ UNCHANGED <<disk, registered, stopped>>
    BY <1>9 DEF Waited, Killed, Goto
  <2>2. \A t_1 \in {Api, Main} : Starting(t_1)' <=> Starting(t_1)
    BY <1>9, <1>i DEF Starting, LabelsOK, Waited, Killed, Goto
  <2>3. found'.list = "start" => found.list = "start"
    BY <1>9 DEF Waited, Killed, Goto, NotFound, Founds
  <2> QED
    BY <2>1, <2>2, <2>3, SavedSame
<1>10. ASSUME NEW t \in Threads, Rm(t) PROVE SavedOK'
  <2>1. c'.HasBeenManuallyStopped = c.HasBeenManuallyStopped /\ UNCHANGED <<disk, registered, stopped>>
    BY <1>10, RmSaved DEF Rm, Goto
  <2>2. \A t_1 \in {Api, Main} : Starting(t_1)' <=> Starting(t_1)
    BY <1>10, <1>i DEF Starting, LabelsOK, Rm, Goto
  <2>3. found'.list = "start" => found.list = "start"
    BY <1>10 DEF Rm, Goto, NotFound, Founds
  <2> QED
    BY <2>1, <2>2, <2>3, SavedSame
<1>11. ASSUME NEW t \in Threads, RmDead(t) PROVE SavedOK'
  <2>1. /\ c'.HasBeenManuallyStopped = c.HasBeenManuallyStopped /\ UNCHANGED <<registered, stopped>>
        /\ UNCHANGED disk \/ SaveFile(c')
    BY <1>11, RmDeadFields DEF RmDead, Goto, SaveOrFail
  <2>2. \A u \in {Api, Main} : Starting(u)' <=> Starting(u)
    BY <1>11, <1>i DEF Starting, LabelsOK, RmDead, Goto
  <2>3. found'.list = found.list
    BY <1>11 DEF RmDead, Goto, Founds
  <2>4. ~Starting(Api) /\ ~Starting(Main)
    BY <1>11, <1>u, <1>i, ThreadFacts DEF RmDead, Goto, Unlocked, HoldsLock
  <2>5. disk # Gone => registered
    BY <1>11 DEF RmDead, Goto, Quiet
  <2> QED
    BY <2>1, <2>2, <2>3, <2>4, <2>5, SavedSame DEF SaveFile
<1>12. ASSUME NEW t \in Threads, RmLayer(t) PROVE SavedOK'
  <2>1. c'.HasBeenManuallyStopped = c.HasBeenManuallyStopped /\ UNCHANGED <<disk, registered, stopped>>
    BY <1>12 DEF RmLayer, Goto
  <2>2. \A t_1 \in {Api, Main} : Starting(t_1)' <=> Starting(t_1)
    BY <1>12, <1>i DEF Starting, LabelsOK, RmLayer, Goto
  <2>3. found'.list = "start" => found.list = "start"
    BY <1>12 DEF RmLayer, Goto, NotFound, Founds
  <2> QED
    BY <2>1, <2>2, <2>3, SavedSame
<1>13. ASSUME NEW t \in Threads, RmFiles(t) PROVE SavedOK'
  <2>1. /\ UNCHANGED <<c, stopped>>
        /\ (disk' = Gone /\ ~registered') \/ UNCHANGED <<disk, registered>>
    BY <1>13 DEF RmFiles
  <2>2. \A u \in {Api, Main} : Starting(u)' <=> Starting(u)
    BY <1>13, <1>i DEF Starting, LabelsOK, RmFiles, Goto
  <2>3. UNCHANGED found
    BY <1>13 DEF RmFiles
  <2> QED
    BY <2>1, <2>2, <2>3, SavedSame
<1>14. ASSUME NEW t \in Threads, RmEnd(t) PROVE SavedOK'
  <2>1. c'.HasBeenManuallyStopped = c.HasBeenManuallyStopped /\ UNCHANGED <<disk, registered, stopped>>
    BY <1>14, RmEndSaved DEF RmEnd, Goto
  <2>2. \A t_1 \in {Api, Main} : Starting(t_1)' <=> Starting(t_1)
    BY <1>14, <1>i DEF Starting, LabelsOK, RmEnd, Goto
  <2>3. found'.list = "start" => found.list = "start"
    BY <1>14 DEF RmEnd, Goto, NotFound, Founds
  <2> QED
    BY <2>1, <2>2, <2>3, SavedSame
<1>15. ASSUME Pause PROVE SavedOK'
  <2>1. c'.HasBeenManuallyStopped = c.HasBeenManuallyStopped /\ UNCHANGED <<disk, registered, stopped>>
    BY <1>15 DEF Pause, Goto
  <2>2. \A t_1 \in {Api, Main} : Starting(t_1)' <=> Starting(t_1)
    BY <1>15, <1>i DEF Starting, LabelsOK, Pause, Goto
  <2>3. found'.list = "start" => found.list = "start"
    BY <1>15 DEF Pause, Goto, NotFound, Founds
  <2> QED
    BY <2>1, <2>2, <2>3, SavedSame
<1>16. ASSUME Unpause PROVE SavedOK'
  <2>1. c'.HasBeenManuallyStopped = c.HasBeenManuallyStopped /\ UNCHANGED <<disk, registered, stopped>>
    BY <1>16 DEF Unpause, Goto
  <2>2. \A t_1 \in {Api, Main} : Starting(t_1)' <=> Starting(t_1)
    BY <1>16, <1>i DEF Starting, LabelsOK, Unpause, Goto
  <2>3. found'.list = "start" => found.list = "start"
    BY <1>16 DEF Unpause, Goto, NotFound, Founds
  <2> QED
    BY <2>1, <2>2, <2>3, SavedSame
<1>17. ASSUME Paused PROVE SavedOK'
  <2>1. /\ c'.HasBeenManuallyStopped = c.HasBeenManuallyStopped /\ UNCHANGED <<registered, stopped>>
        /\ UNCHANGED disk \/ SaveFile(c')
    BY <1>17, PausedSaved DEF Paused, Goto, Save
  <2>2. \A u \in {Api, Main} : Starting(u)' <=> Starting(u)
    BY <1>17, <1>i DEF Starting, LabelsOK, Paused, Goto
  <2>3. found'.list = found.list
    BY <1>17 DEF Paused, Goto, Founds
  <2>4. ~Starting(Api) /\ ~Starting(Main)
    BY <1>17, <1>i DEF Paused, Starting, HoldsLock
  <2>5. disk # Gone => registered
    BY <1>17 DEF Paused, Goto, Quiet
  <2> QED
    BY <2>1, <2>2, <2>3, <2>4, <2>5, SavedSame DEF SaveFile
<1>18. ASSUME EventDone PROVE SavedOK'
  <2>1. c'.HasBeenManuallyStopped = c.HasBeenManuallyStopped /\ UNCHANGED <<disk, registered, stopped>>
    BY <1>18 DEF EventDone, Goto
  <2>2. \A t_1 \in {Api, Main} : Starting(t_1)' <=> Starting(t_1)
    BY <1>18, <1>i DEF Starting, LabelsOK, EventDone, Goto
  <2>3. found'.list = "start" => found.list = "start"
    BY <1>18 DEF EventDone, Goto, NotFound, Founds
  <2> QED
    BY <2>1, <2>2, <2>3, SavedSame
<1>19. ASSUME EventStart PROVE SavedOK'
  <2>1. c'.HasBeenManuallyStopped = c.HasBeenManuallyStopped /\ UNCHANGED <<disk, registered, stopped>>
    BY <1>19, <1>e DEF EventStart, Handles
  <2>2. \A t_1 \in {Api, Main} : Starting(t_1)' <=> Starting(t_1)
    BY <1>19, <1>i DEF Starting, LabelsOK, EventStart, Handles
  <2>3. found'.list = "start" => found.list = "start"
    BY <1>19 DEF EventStart, Handles, NotFound, Founds
  <2> QED
    BY <2>1, <2>2, <2>3, SavedSame
<1>20. ASSUME EventPaused PROVE SavedOK'
  <2>1. /\ c'.HasBeenManuallyStopped = c.HasBeenManuallyStopped /\ UNCHANGED <<registered, stopped>>
        /\ UNCHANGED disk \/ SaveFile(c')
    BY <1>20, EventPausedSaved DEF EventPaused, Handles, Save
  <2>2. \A u \in {Api, Main} : Starting(u)' <=> Starting(u)
    BY <1>20, <1>i DEF Starting, LabelsOK, EventPaused, Handles
  <2>3. found'.list = found.list
    BY <1>20 DEF EventPaused, Handles, Founds
  <2>4. ~Starting(Api) /\ ~Starting(Main)
    BY <1>20, <1>u, <1>i, ThreadFacts DEF EventPaused, Handles, Unlocked, HoldsLock
  <2>5. disk # Gone => registered
    BY <1>20 DEF EventPaused, Handles, Quiet
  <2> QED
    BY <2>1, <2>2, <2>3, <2>4, <2>5, SavedSame DEF SaveFile
<1>21. ASSUME EventExit PROVE SavedOK'
  <2>1. c'.HasBeenManuallyStopped = c.HasBeenManuallyStopped /\ UNCHANGED <<disk, registered, stopped>>
    BY <1>21 DEF EventExit, Handles, Goto
  <2>2. \A t_1 \in {Api, Main} : Starting(t_1)' <=> Starting(t_1)
    BY <1>21, <1>i DEF Starting, LabelsOK, EventExit, Handles, Goto
  <2>3. found'.list = "start" => found.list = "start"
    BY <1>21 DEF EventExit, Handles, Goto, NotFound, Founds
  <2> QED
    BY <2>1, <2>2, <2>3, SavedSame
<1>22. ASSUME ExitDeletes PROVE SavedOK'
  <2>1. c'.HasBeenManuallyStopped = c.HasBeenManuallyStopped /\ UNCHANGED <<disk, registered, stopped>>
    BY <1>22 DEF ExitDeletes, Goto
  <2>2. \A t_1 \in {Api, Main} : Starting(t_1)' <=> Starting(t_1)
    BY <1>22, <1>i DEF Starting, LabelsOK, ExitDeletes, Goto
  <2>3. found'.list = "start" => found.list = "start"
    BY <1>22 DEF ExitDeletes, Goto, NotFound, Founds
  <2> QED
    BY <2>1, <2>2, <2>3, SavedSame
<1>23. ASSUME ExitDecides PROVE SavedOK'
  <2>1. c'.HasBeenManuallyStopped = c.HasBeenManuallyStopped /\ UNCHANGED <<disk, registered, stopped>>
    BY <1>23, StoppedFields, RestartingFields DEF ExitDecides, Goto
  <2>2. \A t_1 \in {Api, Main} : Starting(t_1)' <=> Starting(t_1)
    BY <1>23, <1>i DEF Starting, LabelsOK, ExitDecides, Goto
  <2>3. found'.list = "start" => found.list = "start"
    BY <1>23 DEF ExitDecides, Goto, NotFound, Founds
  <2> QED
    BY <2>1, <2>2, <2>3, SavedSame
<1>24. ASSUME ExitSaves PROVE SavedOK'
  <2>1. /\ c'.HasBeenManuallyStopped = c.HasBeenManuallyStopped /\ UNCHANGED <<registered, stopped>>
        /\ UNCHANGED disk \/ SaveFile(c')
    BY <1>24, ThreadFacts DEF ExitSaves, Save
  <2>2. \A u \in {Api, Main} : Starting(u)' <=> Starting(u)
    BY <1>24, <1>i DEF Starting, LabelsOK, ExitSaves
  <2>3. found'.list = found.list
    BY <1>24 DEF ExitSaves, Founds
  <2>4. ~Starting(Api) /\ ~Starting(Main)
    BY <1>24, <1>u, <1>i, ThreadFacts DEF ExitSaves, Unlocked, HoldsLock
  <2>5. disk # Gone => registered
    BY <1>24 DEF ExitSaves, Quiet
  <2> QED
    BY <2>1, <2>2, <2>3, <2>4, <2>5, SavedSame DEF SaveFile
<1>25. ASSUME TimerFires PROVE SavedOK'
  <2>1. c'.HasBeenManuallyStopped = c.HasBeenManuallyStopped /\ UNCHANGED <<disk, registered, stopped>>
    BY <1>25 DEF TimerFires
  <2>2. \A t_1 \in {Api, Main} : Starting(t_1)' <=> Starting(t_1)
    BY <1>25, <1>i DEF Starting, LabelsOK, TimerFires
  <2>3. found'.list = "start" => found.list = "start"
    BY <1>25 DEF TimerFires, NotFound, Founds
  <2> QED
    BY <2>1, <2>2, <2>3, SavedSame
<1>26. ASSUME BackoffEnds PROVE SavedOK'
  <2>1. c'.HasBeenManuallyStopped = c.HasBeenManuallyStopped /\ UNCHANGED <<disk, registered, stopped>>
    BY <1>26 DEF BackoffEnds, Goto
  <2>2. \A t_1 \in {Api, Main} : Starting(t_1)' <=> Starting(t_1)
    BY <1>26, <1>i DEF Starting, LabelsOK, BackoffEnds, Goto
  <2>3. found'.list = "start" => found.list = "start"
    BY <1>26 DEF BackoffEnds, Goto, NotFound, Founds
  <2> QED
    BY <2>1, <2>2, <2>3, SavedSame
<1>27. ASSUME BackoffCanceled PROVE SavedOK'
  <2>1. c'.HasBeenManuallyStopped = c.HasBeenManuallyStopped /\ UNCHANGED <<disk, registered, stopped>>
    BY <1>27 DEF BackoffCanceled, Goto
  <2>2. \A t_1 \in {Api, Main} : Starting(t_1)' <=> Starting(t_1)
    BY <1>27, <1>i DEF Starting, LabelsOK, BackoffCanceled, Goto
  <2>3. found'.list = "start" => found.list = "start"
    BY <1>27 DEF BackoffCanceled, Goto, NotFound, Founds
  <2> QED
    BY <2>1, <2>2, <2>3, SavedSame
<1>28. ASSUME StartupDone PROVE SavedOK'
  <2>1. c'.HasBeenManuallyStopped = c.HasBeenManuallyStopped /\ UNCHANGED <<disk, registered, stopped>>
    BY <1>28 DEF StartupDone, Goto
  <2>2. \A t_1 \in {Api, Main} : Starting(t_1)' <=> Starting(t_1)
    BY <1>28, <1>i DEF Starting, LabelsOK, StartupDone, Goto
  <2>3. found'.list = "start" => found.list = "start"
    BY <1>28 DEF StartupDone, Goto, NotFound, Founds
  <2> QED
    BY <2>1, <2>2, <2>3, SavedSame
<1>29. ASSUME GiveUp PROVE SavedOK'
  <2>1. /\ c'.HasBeenManuallyStopped = c.HasBeenManuallyStopped /\ UNCHANGED <<registered, stopped>>
        /\ UNCHANGED disk \/ SaveFile(c')
    BY <1>29, StoppedFields DEF GiveUp, Goto, Save
  <2>2. \A u \in {Api, Main} : Starting(u)' <=> Starting(u)
    BY <1>29, <1>i DEF Starting, LabelsOK, GiveUp, Goto
  <2>3. found'.list = found.list
    BY <1>29 DEF GiveUp, Goto, Founds
  <2>4. ~Starting(Api) /\ ~Starting(Main)
    BY <1>29, <1>u, <1>i, ThreadFacts DEF GiveUp, Goto, Unlocked, HoldsLock
  <2>5. disk # Gone => registered
    BY <1>29 DEF GiveUp, Goto, Quiet
  <2> QED
    BY <2>1, <2>2, <2>3, <2>4, <2>5, SavedSame DEF SaveFile
<1>30. ASSUME NEW code \in scenario.ExitCodes, ProcessExits(code) PROVE SavedOK'
  <2>1. c'.HasBeenManuallyStopped = c.HasBeenManuallyStopped /\ UNCHANGED <<disk, registered, stopped>>
    BY <1>30 DEF ProcessExits
  <2>2. \A t_1 \in {Api, Main} : Starting(t_1)' <=> Starting(t_1)
    BY <1>30, <1>i DEF Starting, LabelsOK, ProcessExits
  <2>3. found'.list = "start" => found.list = "start"
    BY <1>30 DEF ProcessExits, NotFound, Founds
  <2> QED
    BY <2>1, <2>2, <2>3, SavedSame
<1>31. ASSUME Crash PROVE SavedOK'
  BY <1>31 DEF Crash, Down, SavedOK, NotFound, NewContainer
<1>32. ASSUME Shutdown PROVE SavedOK'
  <2>1. c'.HasBeenManuallyStopped = c.HasBeenManuallyStopped /\ UNCHANGED <<disk, registered, stopped>>
    BY <1>32 DEF Shutdown, Goto
  <2>2. \A t_1 \in {Api, Main} : Starting(t_1)' <=> Starting(t_1)
    BY <1>32, <1>i DEF Starting, LabelsOK, Shutdown, Goto
  <2>3. found'.list = "start" => found.list = "start"
    BY <1>32 DEF Shutdown, Goto, NotFound, Founds
  <2> QED
    BY <2>1, <2>2, <2>3, SavedSame
<1>33. ASSUME ShutdownEnds PROVE SavedOK'
  BY <1>33 DEF ShutdownEnds, Down, SavedOK, NotFound, NewContainer
<1>34. ASSUME Loads PROVE SavedOK'
  <2>1. ~registered /\ up = "down"
    BY <1>34 DEF Loads, PhaseOK
  <2> QED
    BY <1>34, <2>1, <1>i DEF Loads, Goto, SavedOK, PhaseOK, LabelsOK
<1>35. ASSUME Registers PROVE SavedOK'
  <2>1. c = disk /\ UNCHANGED <<disk, stopped, found, c>>
    BY <1>35 DEF Registers, LoadedOK, SaveFile
  <2>2. \A u \in {Api, Main} : Starting(u)' <=> Starting(u)
    BY <1>35, <1>i DEF Starting, LabelsOK, Registers, Goto
  <2> QED
    BY <2>1, <2>2, <1>s DEF SavedOK, Starting
<1>36. ASSUME Restores PROVE SavedOK'
  <2>1. c'.HasBeenManuallyStopped = c.HasBeenManuallyStopped /\ UNCHANGED <<disk, registered, stopped>>
    BY <1>36 DEF Restores, Goto
  <2>2. \A t_1 \in {Api, Main} : Starting(t_1)' <=> Starting(t_1)
    BY <1>36, <1>i DEF Starting, LabelsOK, Restores, Goto
  <2>3. found'.list = "start" => found.list = "start"
    BY <1>36 DEF Restores, Goto, NotFound, Founds
  <2> QED
    BY <2>1, <2>2, <2>3, SavedSame
<1>37. ASSUME RestoreFails PROVE SavedOK'
  <2>1. c'.HasBeenManuallyStopped = c.HasBeenManuallyStopped /\ UNCHANGED <<disk, registered, stopped>>
    BY <1>37 DEF RestoreFails, Goto
  <2>2. \A t_1 \in {Api, Main} : Starting(t_1)' <=> Starting(t_1)
    BY <1>37, <1>i DEF Starting, LabelsOK, RestoreFails, Goto
  <2>3. found'.list = "start" => found.list = "start"
    BY <1>37 DEF RestoreFails, Goto, NotFound, Founds
  <2> QED
    BY <2>1, <2>2, <2>3, SavedSame
<1>38. ASSUME Restored PROVE SavedOK'
  <2>1. c'.HasBeenManuallyStopped = c.HasBeenManuallyStopped /\ UNCHANGED <<disk, registered, stopped>>
    BY <1>38 DEF Restored, Goto
  <2>2. \A t_1 \in {Api, Main} : Starting(t_1)' <=> Starting(t_1)
    BY <1>38, <1>i DEF Starting, LabelsOK, Restored, Goto
  <2>3. found'.list = "start" => found.list = "start"
    BY <1>38 DEF Restored, Goto, NotFound, Founds
  <2> QED
    BY <2>1, <2>2, <2>3, SavedSame
<1>39. ASSUME Inspects PROVE SavedOK'
  <2>1. c'.HasBeenManuallyStopped = c.HasBeenManuallyStopped /\ UNCHANGED <<disk, registered, stopped>>
    BY <1>39 DEF Inspects, Goto
  <2>2. \A t_1 \in {Api, Main} : Starting(t_1)' <=> Starting(t_1)
    BY <1>39, <1>i DEF Starting, LabelsOK, Inspects, Goto
  <2>3. found'.list = "start" => found.list = "start"
    BY <1>39 DEF Inspects, Goto, NotFound, Founds
  <2> QED
    BY <2>1, <2>2, <2>3, SavedSame
<1>40. ASSUME Status PROVE SavedOK'
  <2>1. /\ c'.HasBeenManuallyStopped = c.HasBeenManuallyStopped /\ UNCHANGED <<registered, stopped>>
        /\ UNCHANGED disk \/ SaveFile(c')
    BY <1>40, StatusSaved DEF Status, Goto, Save
  <2>2. \A u \in {Api, Main} : Starting(u)' <=> Starting(u)
    BY <1>40, <1>i DEF Starting, LabelsOK, Status, Goto
  <2>3. found'.list = found.list
    BY <1>40 DEF Status, Goto, Founds
  <2>4. ~Starting(Api) /\ ~Starting(Main)
    BY <1>40, <1>u, <1>i, ThreadFacts DEF Status, Goto, Unlocked, HoldsLock
  <2>5. disk # Gone => registered
    BY <1>40 DEF Status, Goto, Quiet
  <2> QED
    BY <2>1, <2>2, <2>3, <2>4, <2>5, SavedSame DEF SaveFile
<1>41. ASSUME StatusFails PROVE SavedOK'
  <2>1. c'.HasBeenManuallyStopped = c.HasBeenManuallyStopped /\ UNCHANGED <<disk, registered, stopped>>
    BY <1>41 DEF StatusFails, Goto
  <2>2. \A t_1 \in {Api, Main} : Starting(t_1)' <=> Starting(t_1)
    BY <1>41, <1>i DEF Starting, LabelsOK, StatusFails, Goto
  <2>3. found'.list = "start" => found.list = "start"
    BY <1>41 DEF StatusFails, Goto, NotFound, Founds
  <2> QED
    BY <2>1, <2>2, <2>3, SavedSame
<1>42. ASSUME MarksStopped PROVE SavedOK'
  <2>1. /\ c'.HasBeenManuallyStopped = c.HasBeenManuallyStopped /\ UNCHANGED <<registered, stopped>>
        /\ UNCHANGED disk \/ SaveFile(c')
    BY <1>42, StoppedFields DEF MarksStopped, Goto, Save
  <2>2. \A u \in {Api, Main} : Starting(u)' <=> Starting(u)
    BY <1>42, <1>i DEF Starting, LabelsOK, MarksStopped, Goto
  <2>3. found'.list = found.list
    BY <1>42 DEF MarksStopped, Goto, Founds
  <2>4. ~Starting(Api) /\ ~Starting(Main)
    BY <1>42, <1>u, <1>i, ThreadFacts DEF MarksStopped, Goto, Unlocked, HoldsLock
  <2>5. disk # Gone => registered
    BY <1>42 DEF MarksStopped, Goto, Quiet
  <2> QED
    BY <2>1, <2>2, <2>3, <2>4, <2>5, SavedSame DEF SaveFile
<1>43. ASSUME ResetsManager PROVE SavedOK'
  <2>1. c'.HasBeenManuallyStopped = c.HasBeenManuallyStopped /\ UNCHANGED <<disk, registered, stopped>>
    BY <1>43 DEF ResetsManager, Goto
  <2>2. \A t_1 \in {Api, Main} : Starting(t_1)' <=> Starting(t_1)
    BY <1>43, <1>i DEF Starting, LabelsOK, ResetsManager, Goto
  <2>3. found'.list = "start" => found.list = "start"
    BY <1>43 DEF ResetsManager, Goto, NotFound, Founds
  <2> QED
    BY <2>1, <2>2, <2>3, SavedSame
<1>44. ASSUME Lists PROVE SavedOK'
  <2>1. /\ UNCHANGED <<c, disk, registered, stopped>>
        /\ found'.list = "start" => ShouldRestart(c.ExitCode, c.HasBeenManuallyStopped)
    BY <1>44, <1>f DEF Lists, Founds
  <2>2. \A u \in {Api, Main} : Starting(u)' <=> Starting(u)
    BY <1>44, <1>i DEF Starting, LabelsOK, Lists, Goto
  <2>3. ~Starting(Api) /\ ~Starting(Main)
    BY <1>44, <1>i DEF Starting, Lists, PhaseOK, KillLabels
  <2>4. disk # Gone => registered
    BY <1>44 DEF Lists, Quiet
  <2>5. scenario.Policy = "unless-stopped" /\ found'.list = "start" /\ disk # Gone => ~stopped
    BY <2>1, <2>3, <2>4 DEF ShouldRestart, SavedOK, Starting
  <2> QED
    BY <2>1, <2>2, <2>5 DEF SavedOK, Starting
<1>45. ASSUME Unmarks PROVE SavedOK'
  <2>1. /\ c'.HasBeenManuallyStopped = c.HasBeenManuallyStopped /\ UNCHANGED <<registered, stopped>>
        /\ UNCHANGED disk \/ SaveFile(c')
    BY <1>45, UnmarkSaved DEF Unmarks, Goto, SaveOrFail
  <2>2. \A u \in {Api, Main} : Starting(u)' <=> Starting(u)
    BY <1>45, <1>i DEF Starting, LabelsOK, Unmarks, Goto
  <2>3. found'.list = found.list
    BY <1>45 DEF Unmarks, Goto, Founds
  <2>4. ~Starting(Api) /\ ~Starting(Main)
    BY <1>45, <1>u, <1>i, ThreadFacts DEF Unmarks, Goto, Unlocked, HoldsLock
  <2>5. disk # Gone => registered
    BY <1>45 DEF Unmarks, Goto, Quiet
  <2> QED
    BY <2>1, <2>2, <2>3, <2>4, <2>5, SavedSame DEF SaveFile
<1>46. ASSUME Ready PROVE SavedOK'
  <2>1. c'.HasBeenManuallyStopped = c.HasBeenManuallyStopped /\ UNCHANGED <<disk, registered, stopped>>
    BY <1>46 DEF Ready, Goto
  <2>2. \A t_1 \in {Api, Main} : Starting(t_1)' <=> Starting(t_1)
    BY <1>46, <1>i DEF Starting, LabelsOK, Ready, Goto
  <2>3. found'.list = "start" => found.list = "start"
    BY <1>46 DEF Ready, Goto, NotFound, Founds
  <2> QED
    BY <2>1, <2>2, <2>3, SavedSame
<1> QED
  BY <1>1, <1>2, <1>3, <1>4, <1>5, <1>6, <1>7, <1>8, <1>9, <1>10, <1>11, <1>12, <1>13, <1>14,
        <1>15, <1>16, <1>17, <1>18, <1>19, <1>20, <1>21, <1>22, <1>23, <1>24, <1>25, <1>26,
        <1>27, <1>28, <1>29, <1>30, <1>31, <1>32, <1>33, <1>34, <1>35, <1>36, <1>37, <1>38,
        <1>39, <1>40, <1>41, <1>42, <1>43, <1>44, <1>45, <1>46 DEF Next, Start, Removal, Event,
        Backoff, RestoreStep

-----------------------------------------------------------------------------
\* The invariant holds of a container just created.
LEMMA InitInv ==
    ASSUME Init
    PROVE  IInv
<1> USE ThreadFacts
<1>0. /\ scenario \in Scenarios /\ 0 \in Pids /\ 0 \in Codes /\ starts = 0 /\ recorded = 0
      /\ NewContainer \in Containers /\ queue = <<>> /\ task = NoTask
      /\ \A t \in Threads : pc[t] = "idle"
  <2>1. scenario \in Scenarios /\ 0 \in Pids /\ 0 \in Codes
    BY ScenarioFacts DEF Init
  <2>2. NewContainer \in Containers
    BY <2>1 DEF NewContainer, Containers
  <2> QED
    BY <2>1, <2>2 DEF Init
<1>g. \A r \in Containers : r # Gone
  BY DEF Containers, Gone
<1>1. TypeOK
  <2>1. queue \in Seq(Events) /\ lock = Free
    BY DEF Init
  <2>2. \A t \in Threads : lock = t <=> pc[t] \in HoldsLock
    BY <1>0, <2>1 DEF HoldsLock
  <2>3. /\ NoTask \in [state : {"none", "running", "exited"}, pid : Pids, frozen : BOOLEAN, code : Codes]
        /\ NoTask.state = "none"
    BY <1>0 DEF NoTask
  <2>4. NewManager \in [canceled : BOOLEAN, active : BOOLEAN, by : {"none", "restore", "monitor"}]
    BY DEF NewManager
  <2>5. /\ NoRestart \in [canceled : BOOLEAN, code : Codes]
        /\ NotFound \in [process : BOOLEAN, alive : BOOLEAN, ec : Codes,
                         list : {"none", "start", "rm", "ready"}]
    BY <1>0 DEF NoRestart, NotFound
  <2> QED
    BY <1>0, <2>1, <2>2, <2>3, <2>4, <2>5 DEF Init, TypeOK
<1>2. LabelsOK
  <2>1. "idle" \in Labels
    BY DEF Labels, ApiLabels
  <2> QED
    BY <1>0, <2>1 DEF Init, LabelsOK, ApiLabels, MonitorLabels, RestarterLabels
<1>3. PhaseOK
  BY <1>0 DEF Init, PhaseOK, StartLabels
<1>4. RolesOK
  BY <1>0 DEF Init, RolesOK, InRm, KillLabels, RmLabels, NotFound
<1>5. LoadedOK
  BY <1>0, <1>g DEF Init, LoadedOK
<1>6. DeadOK
  BY <1>0 DEF Init, DeadOK, HalfRemovedIsDead, NewContainer
<1>7. TaskOK /\ PidsOK
  BY <1>0 DEF TaskOK, PidsOK, NoTask, Alive
<1>8. RecordOK
  BY <1>0 DEF Init, RecordOK, Fits, Known, Busy, Alive, NoTask, NewContainer
<1>9. RestartOK
  BY <1>0 DEF Init, RestartOK, NewContainer
<1>10. ~BeingStarted /\ Pending = <<>>
  BY <1>0 DEF BeingStarted, Pending, Past
<1>11. EventsOK /\ ProcessOK
  BY <1>0, <1>10 DEF Init, EventsOK, HandledOK, PendingOK, RestoringOK, ProcessOK, Busy,
        NewContainer,
                     RestoreLabels
<1>12. PauseOK
  BY <1>0, <1>10 DEF Init, PauseOK, LastPaused, NewContainer
<1>13. SavedOK
  BY <1>0 DEF Init, SavedOK, NewContainer, NotFound
<1> QED
  BY <1>1, <1>2, <1>3, <1>4, <1>5, <1>6, <1>7, <1>8, <1>9, <1>11, <1>12, <1>13
     DEF IInv, ControlOK, DataOK

\* Every step keeps the invariant.
LEMMA StepInv ==
    ASSUME IInv, Next
    PROVE  IInv'
<1>0. scenario \in Scenarios
  BY DEF IInv, TypeOK
<1>s. /\ UNCHANGED scenario /\ Pids' = Pids /\ Codes' = Codes /\ Containers' = Containers
      /\ Events' = Events
  BY ScenarioKept DEF Pids, Codes, Containers, Events
<1>1. TypeOK'
  BY <1>0, <1>s, RecordTypes, TaskTypes, OtherTypesKept, LockKept, TaskKept
     DEF TypeOK, Tasks, Managers, Founds
<1>2. ControlOK'
  BY LabelsKept, PhaseKept, RolesKept DEF ControlOK
<1>3. TaskOK'
  BY <1>s, TaskTypes, TaskKept DEF TaskOK
<1>4. ~raced' => DataOK'
  BY RecordKept, RestartKept, EventsKept, ProcessKept, PauseKept, SavedKept DEF DataOK
<1> QED
  BY <1>1, <1>2, <1>3, <1>4, LoadedKept, DeadKept, PidsKept DEF IInv

\* A step that changes nothing keeps it too.
LEMMA StutterInv ==
    ASSUME IInv, UNCHANGED vars
    PROVE  IInv'
<1> USE DEF vars, outside, manager, bounds, history
<1>1. TypeOK'
  BY DEF IInv, TypeOK, Pids, Codes, Containers, Events
<1>2. ControlOK'
  BY DEF IInv, ControlOK, LabelsOK, PhaseOK, RolesOK, InRm
<1>3. LoadedOK' /\ DeadOK'
  BY DEF IInv, LoadedOK, Quiet, DeadOK, HalfRemovedIsDead
<1>4. TaskOK' /\ PidsOK'
  BY DEF IInv, TaskOK, Pids, Alive, PidsOK
<1>5. UNCHANGED raced
  OBVIOUS
<1>6. ASSUME DataOK PROVE DataOK'
  <2>1. RecordOK' /\ RestartOK'
    BY <1>6 DEF DataOK, RecordOK, Fits, Known, Busy, Alive, RestartOK, Unknown
  <2>2. /\ Pending' = Pending /\ Cur' = Cur /\ (BeingStarted' <=> BeingStarted)
        /\ (LastPaused' <=> LastPaused)
    BY DEF Pending, Past, Cur, BeingStarted, LastPaused
  <2>3. EventsOK'
    BY <1>6, <2>2 DEF DataOK, EventsOK, HandledOK, PendingOK, RestoringOK, Busy, Alive
  <2>4. ProcessOK'
    BY <1>6, <2>2 DEF DataOK, ProcessOK, Busy, Alive, Unknown
  <2>5. PauseOK'
    BY <1>6, <2>2 DEF DataOK, PauseOK, Busy, Alive
  <2>6. SavedOK'
    BY <1>6 DEF DataOK, SavedOK
  <2> QED
    BY <2>1, <2>3, <2>4, <2>5, <2>6 DEF DataOK
<1> QED
  BY <1>1, <1>2, <1>3, <1>4, <1>5, <1>6 DEF IInv

(***************************************************************************)
(* The invariant is inductive, whatever the faults, the calls and the      *)
(* number of times the daemon dies.                                        *)
(***************************************************************************)
THEOREM RestoreInvariant == Spec => []IInv
<1>1. Init => IInv
  BY InitInv
<1>2. IInv /\ [Next]_vars => IInv'
  BY StepInv, StutterInv
<1> QED
  BY <1>1, <1>2, PTL DEF Spec

(***************************************************************************)
(* Whatever the crashes and the faults, the checkpoint that fails before   *)
(* the layer is released included (daemon/delete.go:113-115): a container  *)
(* that restore has loaded without an error can be removed, and one whose  *)
(* layer is gone is dead to any daemon that has it.  Unmarks and the order *)
(* of cleanupContainer keep RemovalSafe.                                   *)
(***************************************************************************)
THEOREM RemovalRecovered == Spec => []RemovalSafe
<1>1. IInv => RemovalSafe
  <2> SUFFICES ASSUME IInv PROVE RemovalSafe
    OBVIOUS
  <2>1. DeadOK /\ PhaseOK
    BY DEF IInv, ControlOK
  <2> QED
    BY <2>1 DEF DeadOK, PhaseOK, RemovalSafe, RemovalHasOwner, RestoreLabels
<1> QED
  BY <1>1, RestoreInvariant, PTL

(***************************************************************************)
(* Once the daemon is up the record in memory and the process in           *)
(* containerd agree (RecordAgrees), wherever the last daemon died between  *)
(* two effects and whatever events arrived during restore.                 *)
(***************************************************************************)
THEOREM RecordRecovered == Spec => []RecordAgrees
<1>1. IInv => RecordAgrees
  <2> SUFFICES ASSUME IInv PROVE RecordAgrees
    OBVIOUS
  <2>0. TypeOK /\ PhaseOK /\ TaskOK /\ queue \in Seq(Events) /\ LabelsOK
    BY DEF IInv, ControlOK, TypeOK
  <2>1. SUFFICES ASSUME Reliable
                 PROVE  RunningHasProcess /\ ProcessIsKnown /\ PausedIsFrozen /\ RestartHasOwner
    BY <2>0 DEF RecordAgrees, RunningHasProcess, ProcessIsKnown, PausedIsFrozen, RestartHasOwner
  <2>2. RecordOK /\ RestartOK /\ EventsOK /\ ProcessOK /\ PauseOK
    BY <2>1 DEF Reliable, IInv, DataOK
  <2>3. /\ pc[Main] = "idle" /\ ~Unknown
        /\ pc[Monitor] # "save" /\ Cur = c.Pid /\ ~BeingStarted
    BY <2>0, <2>1, ThreadFacts DEF Reliable, Unlocked, TypeOK, HoldsLock, PhaseOK, Unknown, Cur,
          BeingStarted
  <2>4. Alive => task.pid = starts
    BY <2>0 DEF TaskOK, Alive
  <2>5. \A i \in DOMAIN Pending : \E j \in DOMAIN queue : queue[j] = Pending[i]
    <3>1. CASE Past
      <4>1. queue # <<>> /\ Pending = Tail(queue)
        BY <3>1, PendingFacts DEF Pending
      <4>2. \A i \in DOMAIN Pending : i + 1 \in DOMAIN queue /\ queue[i + 1] = Pending[i]
        BY <2>0, <4>1, TailFacts
      <4> QED
        BY <4>2
    <3>2. CASE ~Past
      BY <3>2 DEF Pending
    <3> QED
      BY <3>1, <3>2
  <2>6. RunningHasProcess
    <3> SUFFICES ASSUME Busy(c)
                 PROVE  \/ Alive /\ task.pid = c.Pid
                        \/ \E i \in DOMAIN queue : queue[i].type = "exit" /\ queue[i].pid = c.Pid
      BY <2>1 DEF RunningHasProcess, Busy
    <3>1. c.Pid = starts
      BY <2>2 DEF RecordOK, Fits
    <3>2. Alive \/ \E i \in DOMAIN Pending : Pending[i].type = "exit" /\ Pending[i].pid = c.Pid
      BY <2>1, <2>2, <2>3 DEF ProcessOK, Reliable
    <3> QED
      BY <2>4, <2>5, <3>1, <3>2
  <2>7. ProcessIsKnown
    BY <2>1, <2>2, <2>4 DEF RecordOK, Known, Fits, Busy, Reliable, ProcessIsKnown
  <2>8. ASSUME queue = <<>>, c.Paused PROVE Alive /\ task.frozen
    <3>1. \A i \in DOMAIN Pending : FALSE
      BY <2>5, <2>8
    <3>2. Busy(c)
      BY <2>2, <2>8 DEF RecordOK, Fits
    <3>3. Alive
      BY <2>1, <2>2, <2>3, <3>1, <3>2 DEF ProcessOK, Reliable
    <3> QED
      BY <2>1, <2>2, <2>3, <2>8, <3>1, <3>3 DEF PauseOK, Reliable, Early
  <2>9. RestartHasOwner
    BY <2>1, <2>2, <2>3 DEF RestartOK, Reliable, RestartHasOwner
  <2> QED
    BY <2>6, <2>7, <2>8, <2>9 DEF PausedIsFrozen
<1> QED
  BY <1>1, RestoreInvariant, PTL

\* Where a process comes from.
LEMMA WhoStarts ==
    ASSUME IInv, Next
    PROVE  /\ starts' # starts => \E t \in Threads : pc[t] = "created"
           /\ pc[Main] = "start" /\ pc'[Main] = "created" => ~c.Dead
<1> USE ThreadFacts DEF bounds, Goto
<1>l. pc \in [Threads -> Labels]
  BY DEF IInv, ControlOK, LabelsOK
<1>i. \A t \in Threads : Ends(t) \in {"off", "ready", "handled", "idle"}
  BY EndsAre
<1> USE <1>l, <1>i
<1> DEFINE Goal == /\ starts' # starts => \E t \in Threads : pc[t] = "created"
                   /\ pc[Main] = "start" /\ pc'[Main] = "created" => ~c.Dead
<1>1. ASSUME NEW op \in AllOps, Request(op) PROVE Goal
  BY <1>1 DEF Request, AllOps
<1>2. ASSUME NEW t \in Threads, StartRefused(t) PROVE Goal
  BY <1>2 DEF StartRefused, StartFailed
<1>3. ASSUME NEW t \in Threads, Creates(t) PROVE Goal
  BY <1>3 DEF Creates, Starts
<1>4. ASSUME NEW t \in Threads, StartFails(t) PROVE Goal
  BY <1>4 DEF StartFails, StartFailed
<1>5. ASSUME NEW t \in Threads, StartsTask(t) PROVE Goal
  BY <1>5 DEF StartsTask
<1>6. ASSUME NEW t \in Threads, Started(t) PROVE Goal
  BY <1>6 DEF Started
<1>7. ASSUME NEW t \in Threads, Kill(t) PROVE Goal
  BY <1>7 DEF Kill, Killed
<1>8. ASSUME NEW t \in Threads, Signal(t) PROVE Goal
  BY <1>8 DEF Signal
<1>9. ASSUME NEW t \in Threads, Waited(t) PROVE Goal
  BY <1>9 DEF Waited, Killed
<1>10. ASSUME NEW t \in Threads, Rm(t) PROVE Goal
  BY <1>10 DEF Rm
<1>11. ASSUME NEW t \in Threads, RmDead(t) PROVE Goal
  BY <1>11 DEF RmDead
<1>12. ASSUME NEW t \in Threads, RmLayer(t) PROVE Goal
  BY <1>12 DEF RmLayer
<1>13. ASSUME NEW t \in Threads, RmFiles(t) PROVE Goal
  BY <1>13 DEF RmFiles
<1>14. ASSUME NEW t \in Threads, RmEnd(t) PROVE Goal
  BY <1>14 DEF RmEnd
<1>15. ASSUME Pause PROVE Goal
  BY <1>15 DEF Pause
<1>16. ASSUME Unpause PROVE Goal
  BY <1>16 DEF Unpause
<1>17. ASSUME Paused PROVE Goal
  BY <1>17 DEF Paused
<1>18. ASSUME EventDone PROVE Goal
  BY <1>18 DEF EventDone
<1>19. ASSUME EventStart PROVE Goal
  BY <1>19 DEF EventStart
<1>20. ASSUME EventPaused PROVE Goal
  BY <1>20 DEF EventPaused
<1>21. ASSUME EventExit PROVE Goal
  BY <1>21 DEF EventExit
<1>22. ASSUME ExitDeletes PROVE Goal
  BY <1>22 DEF ExitDeletes
<1>23. ASSUME ExitDecides PROVE Goal
  BY <1>23 DEF ExitDecides
<1>24. ASSUME ExitSaves PROVE Goal
  BY <1>24 DEF ExitSaves
<1>25. ASSUME TimerFires PROVE Goal
  BY <1>25 DEF TimerFires
<1>26. ASSUME BackoffEnds PROVE Goal
  BY <1>26 DEF BackoffEnds
<1>27. ASSUME BackoffCanceled PROVE Goal
  BY <1>27 DEF BackoffCanceled
<1>28. ASSUME StartupDone PROVE Goal
  BY <1>28 DEF StartupDone
<1>29. ASSUME GiveUp PROVE Goal
  BY <1>29 DEF GiveUp
<1>30. ASSUME NEW code \in scenario.ExitCodes, ProcessExits(code) PROVE Goal
  BY <1>30 DEF ProcessExits
<1>31. ASSUME Crash PROVE Goal
  BY <1>31 DEF Crash, Down
<1>32. ASSUME Shutdown PROVE Goal
  BY <1>32 DEF Shutdown
<1>33. ASSUME ShutdownEnds PROVE Goal
  BY <1>33 DEF ShutdownEnds, Down
<1>34. ASSUME Loads PROVE Goal
  BY <1>34 DEF Loads
<1>35. ASSUME Registers PROVE Goal
  BY <1>35 DEF Registers
<1>36. ASSUME Restores PROVE Goal
  BY <1>36 DEF Restores
<1>37. ASSUME RestoreFails PROVE Goal
  BY <1>37 DEF RestoreFails
<1>38. ASSUME Restored PROVE Goal
  BY <1>38 DEF Restored
<1>39. ASSUME Inspects PROVE Goal
  BY <1>39 DEF Inspects
<1>40. ASSUME Status PROVE Goal
  BY <1>40 DEF Status
<1>41. ASSUME StatusFails PROVE Goal
  BY <1>41 DEF StatusFails
<1>42. ASSUME MarksStopped PROVE Goal
  BY <1>42 DEF MarksStopped
<1>43. ASSUME ResetsManager PROVE Goal
  BY <1>43 DEF ResetsManager
<1>44. ASSUME Lists PROVE Goal
  BY <1>44 DEF Lists
<1>45. ASSUME Unmarks PROVE Goal
  BY <1>45 DEF Unmarks
<1>46. ASSUME Ready PROVE Goal
  BY <1>46 DEF Ready
<1> HIDE DEF Goal
<1>z. Goal
  BY <1>1, <1>2, <1>3, <1>4, <1>5, <1>6, <1>7, <1>8, <1>9, <1>10, <1>11, <1>12, <1>13, <1>14,
        <1>15, <1>16, <1>17, <1>18, <1>19, <1>20, <1>21, <1>22, <1>23, <1>24, <1>25, <1>26,
        <1>27, <1>28, <1>29, <1>30, <1>31, <1>32, <1>33, <1>34, <1>35, <1>36, <1>37, <1>38,
        <1>39, <1>40, <1>41, <1>42, <1>43, <1>44, <1>45, <1>46 DEF Next, Start, Removal, Event,
        Backoff, RestoreStep
<1> QED
  BY <1>z DEF Goal

(***************************************************************************)
(* No daemon, in this life or a later one, starts a process for a          *)
(* container that its file calls dead or being removed, and restore starts *)
(* none that the user has stopped (StaysDown).                             *)
(***************************************************************************)
THEOREM StoppedStaysDown == Spec => StaysDown
<1> DEFINE Stays ==
      /\ starts' # starts => disk # Gone /\ ~disk.Dead /\ ~disk.RemovalInProgress
      /\ pc[Main] = "start" /\ pc'[Main] = "created" /\ ~raced =>
            ~(scenario.Policy = "unless-stopped" /\ stopped)
<1>1. ASSUME IInv, Next PROVE Stays
  <2>0. LoadedOK /\ DeadOK /\ PhaseOK /\ (~raced => SavedOK)
    BY <1>1 DEF IInv, ControlOK, DataOK
  <2>1. /\ starts' # starts => \E t \in Threads : pc[t] = "created"
        /\ pc[Main] = "start" /\ pc'[Main] = "created" => ~c.Dead
    BY <1>1, WhoStarts
  <2>2. \A t \in Threads : pc[t] = "created" =>
           registered /\ disk # Gone /\ ~c.Dead /\ ~c.RemovalInProgress
    BY <2>0, ThreadFacts DEF LoadedOK, DeadOK, Quiet
  <2>3. starts' # starts => disk # Gone /\ ~disk.Dead /\ ~disk.RemovalInProgress
    BY <2>0, <2>1, <2>2 DEF DeadOK
  <2>4. pc[Main] = "start" /\ pc'[Main] = "created" => disk # Gone /\ found.list = "start"
    BY <2>0, <2>1 DEF LoadedOK, Quiet, PhaseOK, StartLabels
  <2> QED
    BY <2>0, <2>3, <2>4 DEF SavedOK
<1>2. IInv /\ [Next]_vars => [Stays]_vars
  BY <1>1
<1> QED
  BY <1>2, RestoreInvariant, PTL DEF Spec, StaysDown

-----------------------------------------------------------------------------
(***************************************************************************)
(* What the policy keeps running: the restart manager is in nobody's way   *)
(* when restore looks at the container, and what restore starts again runs *)
(* or has an error when the daemon is ready.                               *)
(***************************************************************************)
Looking == {"register", "restore", "restored", "inspect"}

Unhurt == pc[Restarter] # "giveUp" /\ (pc[Restarter] = "backoff" => ~restart.canceled)

HeldOK == pc[Monitor] = "save" /\ c.Restarting => ~restart.canceled

ManagerOK ==
    /\ up = "down" => rm = NewManager
    /\ scenario.Policy # "no" /\ pc[Main] \in Looking =>
          ~rm.canceled /\ (rm.active => c.Restarting) /\ Unhurt

Kept == /\ scenario.Policy \in {"always", "unless-stopped"}
        /\ up = "restoring" /\ registered /\ ~found.alive /\ ~gaveUp

BackOK == Kept =>
    /\ pc[Main] # "status"
    /\ pc[Main] \in {"reset", "list", "unmark", "start"} => ~c.Running
    /\ pc[Main] = "list" => ~rm.canceled /\ ~rm.active
    /\ pc[Main] \in {"unmark", "ready"} =>
          (KeptRunning /\ c.HasBeenStartedBefore => found.list = "start")
    /\ pc[Main] = "ready" /\ found.list = "start" => (c.Running \/ c.Err \/ c.Dead) /\ Unhurt
    /\ pc[Main] \in {"created", "started"} \/ (pc[Main] = "ready" /\ Busy(c)) =>
          /\ ~rm.canceled /\ ~rm.active
          /\ scenario.Policy = "unless-stopped" => ~c.HasBeenManuallyStopped

BackInv == HeldOK /\ (~raced => ManagerOK /\ BackOK)

\* A restart just decided is not cancelled before its goroutine exists.
LEMMA HeldKept ==
    ASSUME IInv, HeldOK, Next
    PROVE  HeldOK'
<1> USE ThreadFacts DEF bounds, history, outside, manager
<1>0. ControlOK /\ TypeOK
  BY DEF IInv
<1>l. LabelsOK /\ PhaseOK /\ RolesOK /\ c \in Containers
  BY <1>0 DEF ControlOK, TypeOK
<1>t. restart \in [canceled : BOOLEAN, code : Codes]
  BY <1>0 DEF TypeOK
<1>i. Ends(Monitor) = "handled" /\ \A t \in Threads : Ends(t) # "save"
  BY EndsAre
<1>g. ASSUME pc'[Monitor] = "save" => pc[Monitor] = "save", c'.Restarting => c.Restarting,
             restart' = restart \/ restart' = CanceledRestart
      PROVE  HeldOK'
  BY <1>g, <1>l, <1>t DEF HeldOK, CanceledRestart, RolesOK
<1>1. ASSUME NEW op \in AllOps, Request(op) PROVE HeldOK'
  <2>1. pc'[Monitor] = "save" => pc[Monitor] = "save"
    BY <1>1, <1>l, <1>i DEF Request, AllOps, Goto, LabelsOK
  <2>2. c'.Restarting => c.Restarting
    BY <1>1, <1>l DEF Request, Save
  <2>3. restart' = restart \/ restart' = CanceledRestart
    BY <1>1 DEF Request
  <2> QED
    BY <1>g, <2>1, <2>2, <2>3
<1>2. ASSUME NEW t \in Threads, StartRefused(t) PROVE HeldOK'
  <2>1. pc'[Monitor] = "save" => pc[Monitor] = "save"
    BY <1>2, <1>l, <1>i DEF StartRefused, StartFailed, Goto, LabelsOK
  <2>2. c'.Restarting => c.Restarting
    BY <1>2, <1>l DEF StartRefused, Save
  <2>3. restart' = restart \/ restart' = CanceledRestart
    BY <1>2 DEF StartRefused
  <2> QED
    BY <1>g, <2>1, <2>2, <2>3
<1>3. ASSUME NEW t \in Threads, Creates(t) PROVE HeldOK'
  <2>1. pc'[Monitor] = "save" => pc[Monitor] = "save"
    BY <1>3, <1>l, <1>i DEF Creates, Starts, Goto, LabelsOK
  <2>2. c'.Restarting => c.Restarting
    BY <1>3, <1>l, ForStartFields DEF Creates, Save
  <2>3. restart' = restart \/ restart' = CanceledRestart
    BY <1>3 DEF Creates, ResetRestartManager
  <2> QED
    BY <1>g, <2>1, <2>2, <2>3
<1>4. ASSUME NEW t \in Threads, StartFails(t) PROVE HeldOK'
  <2>1. pc'[Monitor] = "save" => pc[Monitor] = "save"
    BY <1>4, <1>l, <1>i DEF StartFails, Starts, StartFailed, Goto, LabelsOK
  <2>2. c'.Restarting => c.Restarting
    BY <1>4, <1>l, FailureSaved DEF StartFails, Save
  <2>3. restart' = restart \/ restart' = CanceledRestart
    BY <1>4 DEF StartFails, ResetRestartManager
  <2> QED
    BY <1>g, <2>1, <2>2, <2>3
<1>5. ASSUME NEW t \in Threads, StartsTask(t) PROVE HeldOK'
  <2>1. pc'[Monitor] = "save" => pc[Monitor] = "save"
    BY <1>5, <1>l, <1>i DEF StartsTask, Goto, LabelsOK
  <2>2. c'.Restarting => c.Restarting
    BY <1>5, <1>l DEF StartsTask, Save
  <2>3. restart' = restart \/ restart' = CanceledRestart
    BY <1>5 DEF StartsTask
  <2> QED
    BY <1>g, <2>1, <2>2, <2>3
<1>6. ASSUME NEW t \in Threads, Started(t) PROVE HeldOK'
  <2>1. pc'[Monitor] = "save" => pc[Monitor] = "save"
    BY <1>6, <1>l, <1>i DEF Started, Goto, LabelsOK
  <2>2. c'.Restarting => c.Restarting
    BY <1>6, <1>l, StartedFields DEF Started, Save
  <2>3. restart' = restart \/ restart' = CanceledRestart
    BY <1>6 DEF Started
  <2> QED
    BY <1>g, <2>1, <2>2, <2>3
<1>7. ASSUME NEW t \in Threads, Kill(t) PROVE HeldOK'
  <2>1. pc'[Monitor] = "save" => pc[Monitor] = "save"
    BY <1>7, <1>l, <1>i DEF Kill, Killed, Goto, LabelsOK
  <2>2. c'.Restarting => c.Restarting
    BY <1>7, <1>l, KillSaved DEF Kill, Save
  <2>3. restart' = restart \/ restart' = CanceledRestart
    BY <1>7 DEF Kill, CancelRestart
  <2> QED
    BY <1>g, <2>1, <2>2, <2>3
<1>8. ASSUME NEW t \in Threads, Signal(t) PROVE HeldOK'
  <2>1. pc'[Monitor] = "save" => pc[Monitor] = "save"
    BY <1>8, <1>l, <1>i DEF Signal, Goto, LabelsOK
  <2>2. c'.Restarting => c.Restarting
    BY <1>8, <1>l DEF Signal, Save
  <2>3. restart' = restart \/ restart' = CanceledRestart
    BY <1>8 DEF Signal
  <2> QED
    BY <1>g, <2>1, <2>2, <2>3
<1>9. ASSUME NEW t \in Threads, Waited(t) PROVE HeldOK'
  <2>1. pc'[Monitor] = "save" => pc[Monitor] = "save"
    BY <1>9, <1>l, <1>i DEF Waited, Killed, Goto, LabelsOK
  <2>2. c'.Restarting => c.Restarting
    BY <1>9, <1>l DEF Waited, Save
  <2>3. restart' = restart \/ restart' = CanceledRestart
    BY <1>9 DEF Waited
  <2> QED
    BY <1>g, <2>1, <2>2, <2>3
<1>10. ASSUME NEW t \in Threads, Rm(t) PROVE HeldOK'
  <2>1. pc'[Monitor] = "save" => pc[Monitor] = "save"
    BY <1>10, <1>l, <1>i DEF Rm, Goto, LabelsOK
  <2>2. c'.Restarting => c.Restarting
    BY <1>10, <1>l, RmSaved DEF Rm, Save
  <2>3. restart' = restart \/ restart' = CanceledRestart
    BY <1>10 DEF Rm
  <2> QED
    BY <1>g, <2>1, <2>2, <2>3
<1>11. ASSUME NEW t \in Threads, RmDead(t) PROVE HeldOK'
  <2>1. pc'[Monitor] = "save" => pc[Monitor] = "save"
    BY <1>11, <1>l, <1>i DEF RmDead, Goto, LabelsOK
  <2>2. c'.Restarting => c.Restarting
    BY <1>11, <1>l, RmDeadFields DEF RmDead, SaveOrFail
  <2>3. restart' = restart \/ restart' = CanceledRestart
    BY <1>11 DEF RmDead
  <2> QED
    BY <1>g, <2>1, <2>2, <2>3
<1>12. ASSUME NEW t \in Threads, RmLayer(t) PROVE HeldOK'
  <2>1. pc'[Monitor] = "save" => pc[Monitor] = "save"
    BY <1>12, <1>l, <1>i DEF RmLayer, Goto, LabelsOK
  <2>2. c'.Restarting => c.Restarting
    BY <1>12, <1>l DEF RmLayer, Save
  <2>3. restart' = restart \/ restart' = CanceledRestart
    BY <1>12 DEF RmLayer
  <2> QED
    BY <1>g, <2>1, <2>2, <2>3
<1>13. ASSUME NEW t \in Threads, RmFiles(t) PROVE HeldOK'
  <2>1. pc'[Monitor] = "save" => pc[Monitor] = "save"
    BY <1>13, <1>l, <1>i DEF RmFiles, Goto, LabelsOK
  <2>2. c'.Restarting => c.Restarting
    BY <1>13, <1>l DEF RmFiles, Save
  <2>3. restart' = restart \/ restart' = CanceledRestart
    BY <1>13 DEF RmFiles
  <2> QED
    BY <1>g, <2>1, <2>2, <2>3
<1>14. ASSUME NEW t \in Threads, RmEnd(t) PROVE HeldOK'
  <2>1. pc'[Monitor] = "save" => pc[Monitor] = "save"
    BY <1>14, <1>l, <1>i DEF RmEnd, Goto, LabelsOK
  <2>2. c'.Restarting => c.Restarting
    BY <1>14, <1>l, RmEndSaved DEF RmEnd, Save
  <2>3. restart' = restart \/ restart' = CanceledRestart
    BY <1>14 DEF RmEnd
  <2> QED
    BY <1>g, <2>1, <2>2, <2>3
<1>15. ASSUME Pause PROVE HeldOK'
  <2>1. pc'[Monitor] = "save" => pc[Monitor] = "save"
    BY <1>15, <1>l, <1>i DEF Pause, Goto, LabelsOK
  <2>2. c'.Restarting => c.Restarting
    BY <1>15, <1>l DEF Pause, Save
  <2>3. restart' = restart \/ restart' = CanceledRestart
    BY <1>15 DEF Pause
  <2> QED
    BY <1>g, <2>1, <2>2, <2>3
<1>16. ASSUME Unpause PROVE HeldOK'
  <2>1. pc'[Monitor] = "save" => pc[Monitor] = "save"
    BY <1>16, <1>l, <1>i DEF Unpause, Goto, LabelsOK
  <2>2. c'.Restarting => c.Restarting
    BY <1>16, <1>l DEF Unpause, Save
  <2>3. restart' = restart \/ restart' = CanceledRestart
    BY <1>16 DEF Unpause
  <2> QED
    BY <1>g, <2>1, <2>2, <2>3
<1>17. ASSUME Paused PROVE HeldOK'
  <2>1. pc'[Monitor] = "save" => pc[Monitor] = "save"
    BY <1>17, <1>l, <1>i DEF Paused, Goto, LabelsOK
  <2>2. c'.Restarting => c.Restarting
    BY <1>17, <1>l, PausedSaved DEF Paused, Save
  <2>3. restart' = restart \/ restart' = CanceledRestart
    BY <1>17 DEF Paused
  <2> QED
    BY <1>g, <2>1, <2>2, <2>3
<1>18. ASSUME EventDone PROVE HeldOK'
  <2>1. pc'[Monitor] = "save" => pc[Monitor] = "save"
    BY <1>18, <1>l, <1>i DEF EventDone, Goto, LabelsOK
  <2>2. c'.Restarting => c.Restarting
    BY <1>18, <1>l DEF EventDone, Save
  <2>3. restart' = restart \/ restart' = CanceledRestart
    BY <1>18 DEF EventDone
  <2> QED
    BY <1>g, <2>1, <2>2, <2>3
<1>19. ASSUME EventStart PROVE HeldOK'
  <2>1. pc'[Monitor] = "save" => pc[Monitor] = "save"
    BY <1>19, <1>l, <1>i DEF EventStart, Handles, LabelsOK
  <2>2. c'.Restarting => c.Restarting
    BY <1>19, <1>l, EventStartSaved DEF EventStart, Save
  <2>3. restart' = restart \/ restart' = CanceledRestart
    BY <1>19 DEF EventStart
  <2> QED
    BY <1>g, <2>1, <2>2, <2>3
<1>20. ASSUME EventPaused PROVE HeldOK'
  <2>1. pc'[Monitor] = "save" => pc[Monitor] = "save"
    BY <1>20, <1>l, <1>i DEF EventPaused, Handles, LabelsOK
  <2>2. c'.Restarting => c.Restarting
    BY <1>20, <1>l, EventPausedSaved DEF EventPaused, Save
  <2>3. restart' = restart \/ restart' = CanceledRestart
    BY <1>20 DEF EventPaused
  <2> QED
    BY <1>g, <2>1, <2>2, <2>3
<1>21. ASSUME EventExit PROVE HeldOK'
  <2>1. pc'[Monitor] = "save" => pc[Monitor] = "save"
    BY <1>21, <1>l, <1>i DEF EventExit, Handles, Goto, LabelsOK
  <2>2. c'.Restarting => c.Restarting
    BY <1>21, <1>l DEF EventExit, Save
  <2>3. restart' = restart \/ restart' = CanceledRestart
    BY <1>21 DEF EventExit
  <2> QED
    BY <1>g, <2>1, <2>2, <2>3
<1>22. ASSUME ExitDeletes PROVE HeldOK'
  <2>1. pc'[Monitor] = "save" => pc[Monitor] = "save"
    BY <1>22, <1>l, <1>i DEF ExitDeletes, Goto, LabelsOK
  <2>2. c'.Restarting => c.Restarting
    BY <1>22, <1>l DEF ExitDeletes, Save
  <2>3. restart' = restart \/ restart' = CanceledRestart
    BY <1>22 DEF ExitDeletes
  <2> QED
    BY <1>g, <2>1, <2>2, <2>3
<1>23. ASSUME ExitDecides PROVE HeldOK'
  <2>1. \/ restart' = [canceled |-> FALSE, code |-> Head(queue).code]
        \/ c' = SetStopped(c, Head(queue).code)
    BY <1>23 DEF ExitDecides
  <2> QED
    BY <1>l, <2>1, StoppedFields DEF HeldOK
<1>24. ASSUME ExitSaves PROVE HeldOK'
  <2>1. pc'[Monitor] # "save"
    BY <1>24, <1>l DEF ExitSaves, LabelsOK
  <2> QED
    BY <2>1 DEF HeldOK
<1>25. ASSUME TimerFires PROVE HeldOK'
  <2>1. pc'[Monitor] = "save" => pc[Monitor] = "save"
    BY <1>25, <1>l, <1>i DEF TimerFires, LabelsOK
  <2>2. c'.Restarting => c.Restarting
    BY <1>25, <1>l DEF TimerFires, Save
  <2>3. restart' = restart \/ restart' = CanceledRestart
    BY <1>25 DEF TimerFires
  <2> QED
    BY <1>g, <2>1, <2>2, <2>3
<1>26. ASSUME BackoffEnds PROVE HeldOK'
  <2>1. pc'[Monitor] = "save" => pc[Monitor] = "save"
    BY <1>26, <1>l, <1>i DEF BackoffEnds, Goto, LabelsOK
  <2>2. c'.Restarting => c.Restarting
    BY <1>26, <1>l DEF BackoffEnds, Save
  <2>3. restart' = restart \/ restart' = CanceledRestart
    BY <1>26 DEF BackoffEnds
  <2> QED
    BY <1>g, <2>1, <2>2, <2>3
<1>27. ASSUME BackoffCanceled PROVE HeldOK'
  <2>1. pc'[Monitor] = "save" => pc[Monitor] = "save"
    BY <1>27, <1>l, <1>i DEF BackoffCanceled, Goto, LabelsOK
  <2>2. c'.Restarting => c.Restarting
    BY <1>27, <1>l DEF BackoffCanceled, Save
  <2>3. restart' = restart \/ restart' = CanceledRestart
    BY <1>27 DEF BackoffCanceled
  <2> QED
    BY <1>g, <2>1, <2>2, <2>3
<1>28. ASSUME StartupDone PROVE HeldOK'
  <2>1. pc'[Monitor] = "save" => pc[Monitor] = "save"
    BY <1>28, <1>l, <1>i DEF StartupDone, Goto, LabelsOK
  <2>2. c'.Restarting => c.Restarting
    BY <1>28, <1>l DEF StartupDone, Save
  <2>3. restart' = restart \/ restart' = CanceledRestart
    BY <1>28 DEF StartupDone
  <2> QED
    BY <1>g, <2>1, <2>2, <2>3
<1>29. ASSUME GiveUp PROVE HeldOK'
  <2>1. pc'[Monitor] = "save" => pc[Monitor] = "save"
    BY <1>29, <1>l, <1>i DEF GiveUp, Goto, LabelsOK
  <2>2. c'.Restarting => c.Restarting
    BY <1>29, <1>l, StoppedFields DEF GiveUp, Save
  <2>3. restart' = restart \/ restart' = CanceledRestart
    BY <1>29 DEF GiveUp
  <2> QED
    BY <1>g, <2>1, <2>2, <2>3
<1>30. ASSUME NEW code \in scenario.ExitCodes, ProcessExits(code) PROVE HeldOK'
  <2>1. pc'[Monitor] = "save" => pc[Monitor] = "save"
    BY <1>30, <1>l, <1>i DEF ProcessExits, LabelsOK
  <2>2. c'.Restarting => c.Restarting
    BY <1>30, <1>l DEF ProcessExits, Save
  <2>3. restart' = restart \/ restart' = CanceledRestart
    BY <1>30 DEF ProcessExits
  <2> QED
    BY <1>g, <2>1, <2>2, <2>3
<1>31. ASSUME Crash PROVE HeldOK'
  BY <1>31 DEF Crash, Down, HeldOK
<1>32. ASSUME Shutdown PROVE HeldOK'
  <2>1. pc'[Monitor] = "save" => pc[Monitor] = "save"
    BY <1>32, <1>l, <1>i DEF Shutdown, Goto, LabelsOK
  <2>2. c'.Restarting => c.Restarting
    BY <1>32, <1>l DEF Shutdown, Save
  <2>3. restart' = restart \/ restart' = CanceledRestart
    BY <1>32 DEF Shutdown
  <2> QED
    BY <1>g, <2>1, <2>2, <2>3
<1>33. ASSUME ShutdownEnds PROVE HeldOK'
  BY <1>33 DEF ShutdownEnds, Down, HeldOK
<1>34. ASSUME Loads PROVE HeldOK'
  BY <1>34, <1>l DEF Loads, Goto, PhaseOK, LabelsOK, HeldOK
<1>35. ASSUME Registers PROVE HeldOK'
  <2>1. pc'[Monitor] = "save" => pc[Monitor] = "save"
    BY <1>35, <1>l, <1>i DEF Registers, Goto, LabelsOK
  <2>2. c'.Restarting => c.Restarting
    BY <1>35, <1>l DEF Registers, Save
  <2>3. restart' = restart \/ restart' = CanceledRestart
    BY <1>35 DEF Registers
  <2> QED
    BY <1>g, <2>1, <2>2, <2>3
<1>36. ASSUME Restores PROVE HeldOK'
  <2>1. pc'[Monitor] = "save" => pc[Monitor] = "save"
    BY <1>36, <1>l, <1>i DEF Restores, Goto, LabelsOK
  <2>2. c'.Restarting => c.Restarting
    BY <1>36, <1>l DEF Restores, Save
  <2>3. restart' = restart \/ restart' = CanceledRestart
    BY <1>36 DEF Restores
  <2> QED
    BY <1>g, <2>1, <2>2, <2>3
<1>37. ASSUME RestoreFails PROVE HeldOK'
  <2>1. pc'[Monitor] = "save" => pc[Monitor] = "save"
    BY <1>37, <1>l, <1>i DEF RestoreFails, Goto, LabelsOK
  <2>2. c'.Restarting => c.Restarting
    BY <1>37, <1>l DEF RestoreFails, Save
  <2>3. restart' = restart \/ restart' = CanceledRestart
    BY <1>37 DEF RestoreFails
  <2> QED
    BY <1>g, <2>1, <2>2, <2>3
<1>38. ASSUME Restored PROVE HeldOK'
  <2>1. pc'[Monitor] = "save" => pc[Monitor] = "save"
    BY <1>38, <1>l, <1>i DEF Restored, Goto, LabelsOK
  <2>2. c'.Restarting => c.Restarting
    BY <1>38, <1>l DEF Restored, Save
  <2>3. restart' = restart \/ restart' = CanceledRestart
    BY <1>38 DEF Restored
  <2> QED
    BY <1>g, <2>1, <2>2, <2>3
<1>39. ASSUME Inspects PROVE HeldOK'
  <2>1. pc'[Monitor] = "save" => pc[Monitor] = "save"
    BY <1>39, <1>l, <1>i DEF Inspects, Goto, LabelsOK
  <2>2. c'.Restarting => c.Restarting
    BY <1>39, <1>l DEF Inspects, Save
  <2>3. restart' = restart \/ restart' = CanceledRestart
    BY <1>39 DEF Inspects, CancelRestart
  <2> QED
    BY <1>g, <2>1, <2>2, <2>3
<1>40. ASSUME Status PROVE HeldOK'
  <2>1. pc'[Monitor] = "save" => pc[Monitor] = "save"
    BY <1>40, <1>l, <1>i DEF Status, Goto, LabelsOK
  <2>2. c'.Restarting => c.Restarting
    BY <1>40, <1>l, StatusSaved DEF Status, Save
  <2>3. restart' = restart \/ restart' = CanceledRestart
    BY <1>40 DEF Status
  <2> QED
    BY <1>g, <2>1, <2>2, <2>3
<1>41. ASSUME StatusFails PROVE HeldOK'
  <2>1. pc'[Monitor] = "save" => pc[Monitor] = "save"
    BY <1>41, <1>l, <1>i DEF StatusFails, Goto, LabelsOK
  <2>2. c'.Restarting => c.Restarting
    BY <1>41, <1>l DEF StatusFails, Save
  <2>3. restart' = restart \/ restart' = CanceledRestart
    BY <1>41 DEF StatusFails
  <2> QED
    BY <1>g, <2>1, <2>2, <2>3
<1>42. ASSUME MarksStopped PROVE HeldOK'
  <2>1. pc'[Monitor] = "save" => pc[Monitor] = "save"
    BY <1>42, <1>l, <1>i DEF MarksStopped, Goto, LabelsOK
  <2>2. c'.Restarting => c.Restarting
    BY <1>42, <1>l, StoppedFields DEF MarksStopped, Save
  <2>3. restart' = restart \/ restart' = CanceledRestart
    BY <1>42 DEF MarksStopped
  <2> QED
    BY <1>g, <2>1, <2>2, <2>3
<1>43. ASSUME ResetsManager PROVE HeldOK'
  <2>1. pc'[Monitor] = "save" => pc[Monitor] = "save"
    BY <1>43, <1>l, <1>i DEF ResetsManager, Goto, LabelsOK
  <2>2. c'.Restarting => c.Restarting
    BY <1>43, <1>l DEF ResetsManager, Save
  <2>3. restart' = restart \/ restart' = CanceledRestart
    BY <1>43 DEF ResetsManager, ResetRestartManager
  <2> QED
    BY <1>g, <2>1, <2>2, <2>3
<1>44. ASSUME Lists PROVE HeldOK'
  <2>1. pc'[Monitor] = "save" => pc[Monitor] = "save"
    BY <1>44, <1>l, <1>i DEF Lists, Goto, LabelsOK
  <2>2. c'.Restarting => c.Restarting
    BY <1>44, <1>l DEF Lists, Save
  <2>3. restart' = restart \/ restart' = CanceledRestart
    BY <1>44 DEF Lists
  <2> QED
    BY <1>g, <2>1, <2>2, <2>3
<1>45. ASSUME Unmarks PROVE HeldOK'
  <2>1. pc'[Monitor] = "save" => pc[Monitor] = "save"
    BY <1>45, <1>l, <1>i DEF Unmarks, Goto, LabelsOK
  <2>2. c'.Restarting => c.Restarting
    BY <1>45, <1>l, UnmarkSaved DEF Unmarks, SaveOrFail
  <2>3. restart' = restart \/ restart' = CanceledRestart
    BY <1>45 DEF Unmarks
  <2> QED
    BY <1>g, <2>1, <2>2, <2>3
<1>46. ASSUME Ready PROVE HeldOK'
  <2>1. pc'[Monitor] = "save" => pc[Monitor] = "save"
    BY <1>46, <1>l, <1>i DEF Ready, Goto, LabelsOK
  <2>2. c'.Restarting => c.Restarting
    BY <1>46, <1>l DEF Ready, Save
  <2>3. restart' = restart \/ restart' = CanceledRestart
    BY <1>46 DEF Ready
  <2> QED
    BY <1>g, <2>1, <2>2, <2>3
<1> QED
  BY <1>1, <1>2, <1>3, <1>4, <1>5, <1>6, <1>7, <1>8, <1>9, <1>10, <1>11, <1>12, <1>13, <1>14,
        <1>15, <1>16, <1>17, <1>18, <1>19, <1>20, <1>21, <1>22, <1>23, <1>24, <1>25, <1>26,
        <1>27, <1>28, <1>29, <1>30, <1>31, <1>32, <1>33, <1>34, <1>35, <1>36, <1>37, <1>38,
        <1>39, <1>40, <1>41, <1>42, <1>43, <1>44, <1>45, <1>46 DEF Next, Start, Removal, Event,
        Backoff, RestoreStep

\* What the policy keeps running is started again, through every step.
LEMMA BackKept ==
    ASSUME IInv, IInv', HeldOK, ManagerOK, BackOK, Next, ~raced'
    PROVE  ManagerOK' /\ BackOK'
<1> USE ThreadFacts DEF bounds, history, outside, manager
<1>0. /\ ~raced /\ TypeOK /\ ControlOK /\ LoadedOK /\ DeadOK /\ TaskOK /\ DataOK
      /\ scenario \in Scenarios
  BY RacedStays DEF IInv, TypeOK
<1>e. /\ EventStart => UNCHANGED <<c, disk, recorded>>
      /\ Handles("paused") /\ Unlocked => Busy(c)
      /\ pc[Monitor] = "decide" => ~Alive /\ Busy(c) /\ queue # <<>> /\ Tail(queue) = <<>>
  BY <1>0, EventFacts
<1>t. /\ c \in Containers /\ disk \in Containers \cup {Gone} /\ registered \in BOOLEAN
      /\ up \in {"down", "restoring", "up", "stopping"}
      /\ lock \in Threads \cup {Free} /\ \A t \in Threads : lock = t <=> pc[t] \in HoldsLock
      /\ found.list \in {"none", "start", "rm", "ready"} /\ task \in Tasks
  BY <1>0 DEF TypeOK, Tasks
<1>l. LabelsOK /\ PhaseOK /\ RolesOK
  BY <1>0 DEF ControlOK
<1>r. c' \in Containers /\ disk' \in Containers \cup {Gone} /\ c' # Gone
  <2>1. \A r \in Containers : r # Gone
    BY DEF Containers, Gone
  <2> QED
    BY <2>1, RecordTypes
<1>p. starts \in Nat /\ recorded \in 0 .. starts
  BY <1>0, ScenarioFacts DEF TaskOK
<1>d. RecordOK /\ RestartOK /\ SavedOK /\ LoadedOK /\ DeadOK
  BY <1>0 DEF DataOK
<1>k. PhaseOK'
  BY DEF IInv, ControlOK
<1>s. UNCHANGED scenario
  BY ScenarioKept
<1>a. scenario.Policy # "no" => ~scenario.AutoRemove
  BY <1>0, RestoreAssumption
<1>m. rm \in Managers /\ restart \in [canceled : BOOLEAN, code : Codes] /\ found \in Founds
  BY <1>0 DEF TypeOK, Managers, Founds
<1>b. ManagerOK /\ BackOK /\ HeldOK
  OBVIOUS
<1>v. \A t \in Threads : pc[t] \in StartLabels => t = Main \/ up \notin {"down", "restoring"}
  BY <1>l DEF LabelsOK, PhaseOK, StartLabels, MonitorLabels, KillLabels, RmLabels
<1>w. \A t \in Threads : InRm(t) => up # "down" /\ (scenario.Policy = "no" \/ up # "restoring")
  BY <1>a, <1>l DEF InRm, LabelsOK, PhaseOK, RolesOK, RestarterLabels, StartLabels, KillLabels,
        RmLabels
<1>n. up \in {"down", "restoring"} => pc[Api] = "idle"
  BY <1>l DEF PhaseOK
<1>o. pc[Main] \in StartLabels => up = "restoring" /\ found.list = "start"
  BY <1>t, <1>l DEF PhaseOK, StartLabels, KillLabels
<1>i. ~c.Running => pc[Restarter] = "idle"
  BY <1>d DEF RecordOK, Fits, RestartOK
<1>j. Kept /\ pc[Main] \in StartLabels => ~c.Running /\ ~c.RemovalInProgress /\ pc[Restarter] = "idle"
  <2> SUFFICES ASSUME Kept, pc[Main] \in StartLabels
               PROVE  ~c.Running /\ ~c.RemovalInProgress /\ pc[Restarter] = "idle"
    OBVIOUS
  <2>1. ~c.Running
    BY <1>b, <1>d DEF BackOK, RecordOK, StartLabels
  <2>2. \A t \in Threads : t \notin removes
    BY <1>l, <1>w DEF Kept, RolesOK, InRm
  <2>3. removes = {}
    BY <2>2, <1>0 DEF TypeOK
  <2> QED
    BY <1>d, <1>i, <2>1, <2>3 DEF DeadOK, Kept, StartLabels, RestoreLabels
<1>x. ASSUME up' # "down", scenario.Policy = "no" \/ up' # "restoring"
      PROVE  ManagerOK' /\ BackOK'
  <2>1. up' # "restoring" => pc'[Main] \notin Looking
    BY <1>k, <1>x, OtherTypesKept DEF PhaseOK, Looking, KillLabels
  <2> QED
    BY <1>s, <1>x, <2>1 DEF ManagerOK, BackOK, Kept
<1>y. ASSUME UNCHANGED <<up, found, stopped>>, pc'[Main] = pc[Main],
             registered' => registered, gaveUp => gaveUp', Unhurt => Unhurt',
             rm' = rm \/ (up # "down" /\ rm'.canceled = rm.canceled /\ (rm'.active => rm.active)),
             c'.Running = c.Running, c'.Restarting = c.Restarting, c'.Err = c.Err,
             c.Dead => c'.Dead, c'.HasBeenStartedBefore = c.HasBeenStartedBefore,
             c'.HasBeenManuallyStopped = c.HasBeenManuallyStopped
      PROVE  ManagerOK' /\ BackOK'
  <2>1. ManagerOK'
    BY <1>b, <1>s, <1>y DEF ManagerOK
  <2>2. (Kept' => Kept) /\ (KeptRunning' <=> KeptRunning) /\ (Busy(c)' <=> Busy(c))
    BY <1>s, <1>y DEF Kept, KeptRunning, Busy
  <2> QED
    BY <1>b, <1>s, <1>y, <2>1, <2>2 DEF BackOK
<1> USE <1>s
<1>1. ASSUME NEW op \in AllOps, Request(op) PROVE ManagerOK' /\ BackOK'
  <2>1. up \notin {"down", "restoring"} /\ up' = up
    BY <1>1, <1>n DEF Request
  <2> QED
    BY <1>x, <2>1
<1>2. ASSUME NEW t \in Threads, StartRefused(t) PROVE ManagerOK' /\ BackOK'
  <2>0. pc[t] \in {"start"} /\ UNCHANGED <<up, found, registered, gaveUp>>
    BY <1>2 DEF StartRefused, Starts, history
  <2>1. CASE up \notin {"down", "restoring"}
    BY <1>x, <2>0, <2>1
  <2>2. CASE t = Main
    <3>0. /\ up = "restoring" /\ found.list = "start" /\ (Kept' => Kept)
          /\ Kept => ~c.Running /\ ~c.RemovalInProgress /\ pc[Restarter] = "idle"
      BY <1>j, <1>o, <2>0, <2>2 DEF StartLabels, Kept
    <3>1. /\ pc'[Main] \in {"ready", "giveUp"} /\ UNCHANGED <<c, rm>> /\ pc'[Restarter] = pc[Restarter]
          /\ c.Running \/ c.RemovalInProgress \/ c.Dead
      BY <1>2, <1>l, <2>2, <3>0, EndsAre DEF StartRefused, StartFailed, Goto, LabelsOK
    <3> QED
      BY <2>0, <3>0, <3>1 DEF ManagerOK, BackOK, Looking, Unhurt, Busy
  <2> QED
    BY <1>v, <2>0, <2>1, <2>2 DEF StartLabels
<1>3. ASSUME NEW t \in Threads, Creates(t) PROVE ManagerOK' /\ BackOK'
  <2>0. pc[t] \in {"start"} /\ UNCHANGED <<up, found, registered, gaveUp>>
    BY <1>3 DEF Creates, Starts, history
  <2>1. CASE up \notin {"down", "restoring"}
    BY <1>x, <2>0, <2>1
  <2>2. CASE t = Main
    <3>0. /\ up = "restoring" /\ found.list = "start" /\ (Kept' => Kept)
          /\ Kept => ~c.Running /\ ~c.RemovalInProgress /\ pc[Restarter] = "idle"
      BY <1>j, <1>o, <2>0, <2>2 DEF StartLabels, Kept
    <3>1. /\ pc' = [pc EXCEPT ![Main] = "created"] /\ c' = ForStart(Main) /\ rm' = NewManager
      BY <1>3, <2>2 DEF Creates, Goto, Resets, ResetRestartManager
    <3>2. pc'[Main] = "created" /\ ~c'.HasBeenManuallyStopped
      BY <1>l, <1>t, <3>1, ForStartFields DEF LabelsOK
    <3> QED
      BY <2>0, <3>0, <3>1, <3>2 DEF ManagerOK, BackOK, Looking, NewManager
  <2> QED
    BY <1>v, <2>0, <2>1, <2>2 DEF StartLabels
<1>4. ASSUME NEW t \in Threads, StartFails(t) PROVE ManagerOK' /\ BackOK'
  <2>0. pc[t] \in {"start", "created"} /\ UNCHANGED <<up, found, registered, gaveUp>>
    BY <1>4 DEF StartFails, Starts, history
  <2>1. CASE up \notin {"down", "restoring"}
    BY <1>x, <2>0, <2>1
  <2>2. CASE t = Main
    <3>0. /\ up = "restoring" /\ found.list = "start" /\ (Kept' => Kept)
          /\ Kept => ~c.Running /\ ~c.RemovalInProgress /\ pc[Restarter] = "idle"
      BY <1>j, <1>o, <2>0, <2>2 DEF StartLabels, Kept
    <3>1. /\ scenario.Policy # "no" => pc'[Main] = "ready"
          /\ pc'[Main] \in {"ready", "rm"} /\ pc'[Restarter] = pc[Restarter]
      BY <1>4, <1>a, <1>l, <2>2, <3>0, EndsAre DEF StartFails, StartFailed, Goto, LabelsOK
    <3>2. c'.Err /\ c'.Running = c.Running
      BY <1>4, <1>t, FailureSaved
    <3> QED
      BY <2>0, <3>0, <3>1, <3>2 DEF ManagerOK, BackOK, Looking, Unhurt, Busy
  <2> QED
    BY <1>v, <2>0, <2>1, <2>2 DEF StartLabels
<1>5. ASSUME NEW t \in Threads, StartsTask(t) PROVE ManagerOK' /\ BackOK'
  <2>0. pc[t] \in {"created"} /\ UNCHANGED <<up, found, registered, gaveUp>>
    BY <1>5 DEF StartsTask, Starts, history
  <2>1. CASE up \notin {"down", "restoring"}
    BY <1>x, <2>0, <2>1
  <2>2. CASE t = Main
    <3>0. /\ up = "restoring" /\ found.list = "start" /\ (Kept' => Kept)
          /\ Kept => ~c.Running /\ ~c.RemovalInProgress /\ pc[Restarter] = "idle"
      BY <1>j, <1>o, <2>0, <2>2 DEF StartLabels, Kept
    <3>1. pc' = [pc EXCEPT ![Main] = "started"] /\ UNCHANGED <<rm, c>> /\ pc[Main] = "created"
      BY <1>5, <2>2 DEF StartsTask, Goto
    <3>2. pc'[Main] = "started"
      BY <1>l, <3>1 DEF LabelsOK
    <3> QED
      BY <1>b, <2>0, <3>0, <3>1, <3>2 DEF ManagerOK, BackOK, Looking
  <2> QED
    BY <1>v, <2>0, <2>1, <2>2 DEF StartLabels
<1>6. ASSUME NEW t \in Threads, Started(t) PROVE ManagerOK' /\ BackOK'
  <2>0. pc[t] \in {"started"} /\ UNCHANGED <<up, found, registered, gaveUp>>
    BY <1>6 DEF Started, Starts, history
  <2>1. CASE up \notin {"down", "restoring"}
    BY <1>x, <2>0, <2>1
  <2>2. CASE t = Main
    <3>0. /\ up = "restoring" /\ found.list = "start" /\ (Kept' => Kept)
          /\ Kept => ~c.Running /\ ~c.RemovalInProgress /\ pc[Restarter] = "idle"
      BY <1>j, <1>o, <2>0, <2>2 DEF StartLabels, Kept
    <3>1. pc' = [pc EXCEPT ![Main] = Ends(Main)] /\ UNCHANGED rm /\ pc[Main] = "started"
      BY <1>6, <2>2 DEF Started, Goto
    <3>2. pc'[Main] = "ready" /\ pc'[Restarter] = pc[Restarter]
      BY <1>l, <3>0, <3>1, EndsAre DEF LabelsOK
    <3>3. c'.Running /\ c'.HasBeenManuallyStopped = c.HasBeenManuallyStopped
      BY <1>6, <1>t, StartedFields DEF Started, Save
    <3> QED
      BY <1>b, <2>0, <3>0, <3>1, <3>2, <3>3 DEF ManagerOK, BackOK, Looking, Unhurt
  <2> QED
    BY <1>v, <2>0, <2>1, <2>2 DEF StartLabels
<1>7. ASSUME NEW t \in Threads, Kill(t) PROVE ManagerOK' /\ BackOK'
  <2>1. InRm(t) /\ up' = up
    BY <1>7 DEF Kill, InRm, KillLabels, RmLabels
  <2> QED
    BY <1>w, <1>x, <2>1
<1>8. ASSUME NEW t \in Threads, Signal(t) PROVE ManagerOK' /\ BackOK'
  <2>1. InRm(t) /\ up' = up
    BY <1>8 DEF Signal, InRm, KillLabels, RmLabels
  <2> QED
    BY <1>w, <1>x, <2>1
<1>9. ASSUME NEW t \in Threads, Waited(t) PROVE ManagerOK' /\ BackOK'
  <2>1. InRm(t) /\ up' = up
    BY <1>9 DEF Waited, InRm, KillLabels, RmLabels
  <2> QED
    BY <1>w, <1>x, <2>1
<1>10. ASSUME NEW t \in Threads, Rm(t) PROVE ManagerOK' /\ BackOK'
  <2>1. InRm(t) /\ up' = up
    BY <1>10 DEF Rm, InRm, KillLabels, RmLabels
  <2> QED
    BY <1>w, <1>x, <2>1
<1>11. ASSUME NEW t \in Threads, RmDead(t) PROVE ManagerOK' /\ BackOK'
  <2>1. InRm(t) /\ up' = up
    BY <1>11 DEF RmDead, InRm, KillLabels, RmLabels
  <2> QED
    BY <1>w, <1>x, <2>1
<1>12. ASSUME NEW t \in Threads, RmLayer(t) PROVE ManagerOK' /\ BackOK'
  <2>1. InRm(t) /\ up' = up
    BY <1>12 DEF RmLayer, InRm, KillLabels, RmLabels
  <2> QED
    BY <1>w, <1>x, <2>1
<1>13. ASSUME NEW t \in Threads, RmFiles(t) PROVE ManagerOK' /\ BackOK'
  <2>1. InRm(t) /\ up' = up
    BY <1>13 DEF RmFiles, InRm, KillLabels, RmLabels
  <2> QED
    BY <1>w, <1>x, <2>1
<1>14. ASSUME NEW t \in Threads, RmEnd(t) PROVE ManagerOK' /\ BackOK'
  <2>1. InRm(t) /\ up' = up
    BY <1>14 DEF RmEnd, InRm, KillLabels, RmLabels
  <2> QED
    BY <1>w, <1>x, <2>1
<1>15. ASSUME Pause PROVE ManagerOK' /\ BackOK'
  <2>1. up \notin {"down", "restoring"} /\ up' = up
    BY <1>15, <1>n DEF Pause
  <2> QED
    BY <1>x, <2>1
<1>16. ASSUME Unpause PROVE ManagerOK' /\ BackOK'
  <2>1. up \notin {"down", "restoring"} /\ up' = up
    BY <1>16, <1>n DEF Unpause
  <2> QED
    BY <1>x, <2>1
<1>17. ASSUME Paused PROVE ManagerOK' /\ BackOK'
  <2>1. up \notin {"down", "restoring"} /\ up' = up
    BY <1>17, <1>n DEF Paused
  <2> QED
    BY <1>x, <2>1
<1>18. ASSUME EventDone PROVE ManagerOK' /\ BackOK'
  <2>1. UNCHANGED <<up, found, stopped, registered, gaveUp, rm, restart>>
    BY <1>18 DEF EventDone, Goto
  <2>2. pc'[Main] = pc[Main] /\ pc'[Restarter] = pc[Restarter]
    BY <1>18, <1>l DEF EventDone, Goto, LabelsOK
  <2>3. /\ c'.Running = c.Running /\ c'.Restarting = c.Restarting /\ c'.Err = c.Err
        /\ c'.Dead = c.Dead /\ c'.HasBeenStartedBefore = c.HasBeenStartedBefore
        /\ c'.HasBeenManuallyStopped = c.HasBeenManuallyStopped
    BY <1>18, <1>t DEF EventDone
  <2>4. Unhurt => Unhurt'
    BY <2>1, <2>2 DEF Unhurt
  <2> QED
    BY <1>y, <2>1, <2>2, <2>3, <2>4
<1>19. ASSUME EventStart PROVE ManagerOK' /\ BackOK'
  <2>1. UNCHANGED <<up, found, stopped, registered, gaveUp, rm, restart>>
    BY <1>19 DEF EventStart, Handles
  <2>2. pc'[Main] = pc[Main] /\ pc'[Restarter] = pc[Restarter]
    BY <1>19, <1>l DEF EventStart, Handles, LabelsOK
  <2>3. /\ c'.Running = c.Running /\ c'.Restarting = c.Restarting /\ c'.Err = c.Err
        /\ c'.Dead = c.Dead /\ c'.HasBeenStartedBefore = c.HasBeenStartedBefore
        /\ c'.HasBeenManuallyStopped = c.HasBeenManuallyStopped
    BY <1>19, <1>t, <1>e DEF EventStart
  <2>4. Unhurt => Unhurt'
    BY <2>1, <2>2 DEF Unhurt
  <2> QED
    BY <1>y, <2>1, <2>2, <2>3, <2>4
<1>20. ASSUME EventPaused PROVE ManagerOK' /\ BackOK'
  <2>1. UNCHANGED <<up, found, stopped, registered, gaveUp, rm, restart>>
    BY <1>20 DEF EventPaused, Handles
  <2>2. pc'[Main] = pc[Main] /\ pc'[Restarter] = pc[Restarter]
    BY <1>20, <1>l DEF EventPaused, Handles, LabelsOK
  <2>3. /\ c'.Running = c.Running /\ c'.Restarting = c.Restarting /\ c'.Err = c.Err
        /\ c'.Dead = c.Dead /\ c'.HasBeenStartedBefore = c.HasBeenStartedBefore
        /\ c'.HasBeenManuallyStopped = c.HasBeenManuallyStopped
    BY <1>20, <1>t, EventPausedSaved DEF EventPaused
  <2>4. Unhurt => Unhurt'
    BY <2>1, <2>2 DEF Unhurt
  <2> QED
    BY <1>y, <2>1, <2>2, <2>3, <2>4
<1>21. ASSUME EventExit PROVE ManagerOK' /\ BackOK'
  <2>1. UNCHANGED <<up, found, stopped, registered, gaveUp, rm, restart>>
    BY <1>21 DEF EventExit, Handles, Goto
  <2>2. pc'[Main] = pc[Main] /\ pc'[Restarter] = pc[Restarter]
    BY <1>21, <1>l DEF EventExit, Handles, Goto, LabelsOK
  <2>3. /\ c'.Running = c.Running /\ c'.Restarting = c.Restarting /\ c'.Err = c.Err
        /\ c'.Dead = c.Dead /\ c'.HasBeenStartedBefore = c.HasBeenStartedBefore
        /\ c'.HasBeenManuallyStopped = c.HasBeenManuallyStopped
    BY <1>21, <1>t DEF EventExit
  <2>4. Unhurt => Unhurt'
    BY <2>1, <2>2 DEF Unhurt
  <2> QED
    BY <1>y, <2>1, <2>2, <2>3, <2>4
<1>22. ASSUME ExitDeletes PROVE ManagerOK' /\ BackOK'
  <2>1. UNCHANGED <<up, found, stopped, registered, gaveUp, rm, restart>>
    BY <1>22 DEF ExitDeletes, Goto
  <2>2. pc'[Main] = pc[Main] /\ pc'[Restarter] = pc[Restarter]
    BY <1>22, <1>l DEF ExitDeletes, Goto, LabelsOK
  <2>3. /\ c'.Running = c.Running /\ c'.Restarting = c.Restarting /\ c'.Err = c.Err
        /\ c'.Dead = c.Dead /\ c'.HasBeenStartedBefore = c.HasBeenStartedBefore
        /\ c'.HasBeenManuallyStopped = c.HasBeenManuallyStopped
    BY <1>22, <1>t DEF ExitDeletes
  <2>4. Unhurt => Unhurt'
    BY <2>1, <2>2 DEF Unhurt
  <2> QED
    BY <1>y, <2>1, <2>2, <2>3, <2>4
<1>23. ASSUME ExitDecides PROVE ManagerOK' /\ BackOK'
  <2> DEFINE code == Head(queue).code
             again == ShouldRestart(code, up = "stopping" \/ c.HasBeenManuallyStopped)
  <2>1. /\ UNCHANGED <<up, found, stopped, registered, gaveUp>> /\ pc[Monitor] = "decide"
        /\ again => /\ c' = SetRestarting(c, code) /\ restart' = [canceled |-> FALSE, code |-> code]
                    /\ rm' = [rm EXCEPT !.active = TRUE, !.by = "monitor"]
                    /\ pc[Restarter] = "idle"
        /\ ~again => c' = SetStopped(c, code) /\ UNCHANGED <<rm, restart>>
    BY <1>23 DEF ExitDecides, Activate
  <2>2. pc'[Main] = pc[Main] /\ pc'[Restarter] = pc[Restarter]
    BY <1>23, <1>l DEF ExitDecides, Goto, LabelsOK
  <2>3. Busy(c) /\ up # "down"
    BY <1>e, <1>l, <2>1 DEF PhaseOK
  <2>4. /\ c'.HasBeenStartedBefore = c.HasBeenStartedBefore /\ ~Busy(c')
        /\ again => c'.Running /\ c'.Restarting
    BY <1>t, <2>1, StoppedFields, RestartingFields DEF Busy
  <2>5. rm'.canceled = rm.canceled /\ (Unhurt => Unhurt') /\ (again => Unhurt')
    BY <1>m, <2>1, <2>2 DEF Managers, Unhurt
  <2>6. ManagerOK'
    BY <1>b, <2>1, <2>2, <2>3, <2>4, <2>5 DEF ManagerOK, Busy
  <2>7. (Kept' => Kept) /\ (KeptRunning' <=> KeptRunning) /\ ~Busy(c)'
    BY <2>1, <2>4 DEF Kept, KeptRunning, Busy
  <2>8. Kept => pc[Main] \notin {"status", "reset", "list", "unmark", "start", "created", "started"}
    BY <1>b, <1>d, <2>3 DEF BackOK, Busy, RecordOK
  <2>9. Kept /\ pc[Main] = "ready" => again
    BY <1>b, <2>3 DEF BackOK, Kept, ShouldRestart
  <2> HIDE DEF again
  <2> QED
    BY <1>b, <2>1, <2>2, <2>4, <2>5, <2>6, <2>7, <2>8, <2>9 DEF BackOK
<1>24. ASSUME ExitSaves PROVE ManagerOK' /\ BackOK'
  <2>1. UNCHANGED <<up, found, stopped, registered, gaveUp, rm, restart, c>> /\ pc[Monitor] = "save"
    BY <1>24 DEF ExitSaves
  <2>2. /\ pc'[Main] = pc[Main]
        /\ pc'[Restarter] = pc[Restarter] \/ (pc'[Restarter] = "backoff" /\ c.Restarting)
    BY <1>24, <1>l DEF ExitSaves, LabelsOK
  <2>3. Unhurt => Unhurt'
    BY <1>b, <2>1, <2>2 DEF Unhurt, HeldOK
  <2> QED
    BY <1>y, <2>1, <2>2, <2>3
<1>25. ASSUME TimerFires PROVE ManagerOK' /\ BackOK'
  <2>1. /\ UNCHANGED <<up, found, stopped, registered, gaveUp, restart, pc, c>>
        /\ rm'.canceled = rm.canceled /\ ~rm'.active /\ rm.active
    BY <1>25, <1>m DEF TimerFires, Managers
  <2>2. up # "down"
    BY <1>b, <2>1 DEF ManagerOK, NewManager
  <2>3. Unhurt => Unhurt'
    BY <2>1 DEF Unhurt
  <2> QED
    BY <1>y, <2>1, <2>2, <2>3
<1>26. ASSUME BackoffEnds PROVE ManagerOK' /\ BackOK'
  <2>1. /\ UNCHANGED <<up, found, stopped, registered, gaveUp, restart, c>>
        /\ rm' = rm \/ (rm'.canceled = rm.canceled /\ ~rm'.active)
        /\ pc[Restarter] = "backoff" /\ pc' = [pc EXCEPT ![Restarter] = "startup"]
    BY <1>26, <1>m DEF BackoffEnds, Goto, Managers
  <2>2. up # "down"
    BY <1>l, <2>1 DEF PhaseOK
  <2>3. pc'[Main] = pc[Main] /\ pc'[Restarter] = "startup"
    BY <1>l, <2>1 DEF LabelsOK
  <2>4. Unhurt'
    BY <2>3 DEF Unhurt
  <2> QED
    BY <1>y, <2>1, <2>2, <2>3, <2>4
<1>27. ASSUME BackoffCanceled PROVE ManagerOK' /\ BackOK'
  <2>1. /\ UNCHANGED <<up, found, stopped, registered, gaveUp, rm, restart, c>>
        /\ pc[Restarter] = "backoff" /\ restart.canceled
        /\ pc' = [pc EXCEPT ![Restarter] = "giveUp"]
    BY <1>27 DEF BackoffCanceled, Goto
  <2>2. pc'[Main] = pc[Main] /\ ~Unhurt
    BY <1>l, <2>1 DEF LabelsOK, Unhurt
  <2> QED
    BY <1>y, <2>1, <2>2
<1>28. ASSUME StartupDone PROVE ManagerOK' /\ BackOK'
  <2>1. up \notin {"down", "restoring"} /\ up' = up
    BY <1>28, <1>l DEF StartupDone, PhaseOK
  <2> QED
    BY <1>x, <2>1
<1>29. ASSUME GiveUp PROVE ManagerOK' /\ BackOK'
  <2>1. /\ UNCHANGED <<up, found, stopped, registered, gaveUp, rm, restart>>
        /\ pc[Restarter] = "giveUp" /\ pc' = [pc EXCEPT ![Restarter] = "idle"]
        /\ c' = SetStopped(c, restart.code)
    BY <1>29 DEF GiveUp, Goto, Save
  <2>2. pc'[Main] = pc[Main] /\ ~Unhurt /\ up # "down"
    BY <1>l, <2>1 DEF LabelsOK, PhaseOK, Unhurt
  <2>3. /\ ~c'.Running /\ c'.HasBeenStartedBefore = c.HasBeenStartedBefore
        /\ c'.HasBeenManuallyStopped = c.HasBeenManuallyStopped
    BY <1>t, <2>1, StoppedFields
  <2>4. ManagerOK'
    BY <1>b, <2>1, <2>2 DEF ManagerOK
  <2>5. (Kept' => Kept) /\ (KeptRunning' <=> KeptRunning) /\ ~Busy(c)'
    BY <2>1, <2>3 DEF Kept, KeptRunning, Busy
  <2> QED
    BY <1>b, <2>1, <2>2, <2>3, <2>4, <2>5 DEF BackOK
<1>30. ASSUME NEW code \in scenario.ExitCodes, ProcessExits(code) PROVE ManagerOK' /\ BackOK'
  <2>1. UNCHANGED <<up, found, stopped, registered, gaveUp, rm, restart>>
    BY <1>30 DEF ProcessExits
  <2>2. pc'[Main] = pc[Main] /\ pc'[Restarter] = pc[Restarter]
    BY <1>30, <1>l DEF ProcessExits, LabelsOK
  <2>3. /\ c'.Running = c.Running /\ c'.Restarting = c.Restarting /\ c'.Err = c.Err
        /\ c'.Dead = c.Dead /\ c'.HasBeenStartedBefore = c.HasBeenStartedBefore
        /\ c'.HasBeenManuallyStopped = c.HasBeenManuallyStopped
    BY <1>30, <1>t DEF ProcessExits
  <2>4. Unhurt => Unhurt'
    BY <2>1, <2>2 DEF Unhurt
  <2> QED
    BY <1>y, <2>1, <2>2, <2>3, <2>4
<1>31. ASSUME Crash PROVE ManagerOK' /\ BackOK'
  BY <1>31 DEF Crash, Down, ManagerOK, BackOK, Kept, Looking
<1>32. ASSUME Shutdown PROVE ManagerOK' /\ BackOK'
  <2>1. up' = "stopping"
    BY <1>32 DEF Shutdown
  <2> QED
    BY <1>x, <2>1
<1>33. ASSUME ShutdownEnds PROVE ManagerOK' /\ BackOK'
  BY <1>33 DEF ShutdownEnds, Down, ManagerOK, BackOK, Kept, Looking
<1>34. ASSUME Loads PROVE ManagerOK' /\ BackOK'
  <2>1. /\ UNCHANGED <<registered, rm, restart>> /\ up = "down" /\ up' = "restoring"
        /\ pc' = [pc EXCEPT ![Main] = "register"] \/ pc' = [pc EXCEPT ![Main] = "ready"]
    BY <1>34 DEF Loads, Goto
  <2>2. ~registered /\ pc'[Restarter] = "idle" /\ rm = NewManager
    BY <1>b, <1>l, <2>1 DEF PhaseOK, LabelsOK, ManagerOK
  <2> QED
    BY <2>1, <2>2 DEF ManagerOK, BackOK, Kept, Unhurt, NewManager
<1>35. ASSUME Registers PROVE ManagerOK' /\ BackOK'
  <2>1. /\ UNCHANGED <<up, rm, restart, c>> /\ pc[Main] \in Looking
        /\ pc' = [pc EXCEPT ![Main] = "restore"]
    BY <1>35 DEF Registers, Goto, Looking
  <2>2. pc'[Main] = "restore" /\ pc'[Restarter] = pc[Restarter]
    BY <1>l, <2>1 DEF LabelsOK
  <2>3. ManagerOK'
    BY <1>b, <2>1, <2>2 DEF ManagerOK, Unhurt
  <2> QED
    BY <2>2, <2>3 DEF BackOK
<1>36. ASSUME Restores PROVE ManagerOK' /\ BackOK'
  <2>1. /\ UNCHANGED <<up, rm, restart, c>> /\ pc[Main] \in Looking
        /\ pc' = [pc EXCEPT ![Main] = "restored"]
    BY <1>36 DEF Restores, Goto, Looking
  <2>2. pc'[Main] = "restored" /\ pc'[Restarter] = pc[Restarter]
    BY <1>l, <2>1 DEF LabelsOK
  <2>3. ManagerOK'
    BY <1>b, <2>1, <2>2 DEF ManagerOK, Unhurt
  <2> QED
    BY <2>2, <2>3 DEF BackOK
<1>37. ASSUME RestoreFails PROVE ManagerOK' /\ BackOK'
  <2>1. pc' = [pc EXCEPT ![Main] = "ready"] /\ gaveUp' /\ UNCHANGED <<up, rm>> /\ pc[Main] # "idle"
    BY <1>37 DEF RestoreFails, Goto
  <2>2. pc'[Main] = "ready" /\ up # "down"
    BY <1>l, <2>1 DEF LabelsOK, PhaseOK
  <2> QED
    BY <2>1, <2>2 DEF ManagerOK, BackOK, Kept, Looking
<1>38. ASSUME Restored PROVE ManagerOK' /\ BackOK'
  <2>1. /\ UNCHANGED <<up, rm, restart, c>> /\ pc[Main] \in Looking
        /\ pc' = [pc EXCEPT ![Main] = "inspect"]
    BY <1>38 DEF Restored, Goto, Looking
  <2>2. pc'[Main] = "inspect" /\ pc'[Restarter] = pc[Restarter]
    BY <1>l, <2>1 DEF LabelsOK
  <2>3. ManagerOK'
    BY <1>b, <2>1, <2>2 DEF ManagerOK, Unhurt
  <2> QED
    BY <2>2, <2>3 DEF BackOK
<1>39. ASSUME Inspects PROVE ManagerOK' /\ BackOK'
  <2>1. /\ UNCHANGED <<up, c, found, registered, gaveUp>> /\ pc[Main] = "inspect"
        /\ IF c.Running \/ c.Paused
             THEN pc' = [pc EXCEPT ![Main] = IF ~found.alive THEN "stopped"
                                             ELSE IF c.Paused THEN "status" ELSE "reset"]
             ELSE pc' = [pc EXCEPT ![Main] = "list"] /\ UNCHANGED rm
    BY <1>39 DEF Inspects, Goto
  <2>2. /\ pc'[Main] \in {"stopped", "status", "reset", "list"} /\ up # "down"
        /\ ~found.alive => pc'[Main] \in {"stopped", "list"}
        /\ pc'[Main] = "list" => ~c.Running /\ UNCHANGED rm
    BY <1>l, <2>1 DEF LabelsOK, PhaseOK
  <2>3. scenario.Policy # "no" /\ ~c.Running => ~rm.canceled /\ ~rm.active
    BY <1>b, <1>d, <2>1 DEF ManagerOK, Looking, RecordOK, Fits
  <2> QED
    BY <2>1, <2>2, <2>3 DEF ManagerOK, BackOK, Kept, Looking
<1>40. ASSUME Status PROVE ManagerOK' /\ BackOK'
  <2>1. /\ UNCHANGED <<up, registered, gaveUp>> /\ pc[Main] = "status"
        /\ pc' = [pc EXCEPT ![Main] = "stopped"]
           \/ (pc' = [pc EXCEPT ![Main] = "reset"] /\ UNCHANGED found)
    BY <1>40 DEF Status, Goto, history
  <2>2. pc'[Main] = "stopped" \/ (pc'[Main] = "reset" /\ ~Kept')
    BY <1>b, <1>l, <2>1 DEF LabelsOK, BackOK, Kept
  <2>3. up # "down"
    BY <1>l, <2>1 DEF PhaseOK
  <2> QED
    BY <2>1, <2>2, <2>3 DEF ManagerOK, BackOK, Looking
<1>41. ASSUME StatusFails PROVE ManagerOK' /\ BackOK'
  <2>1. pc' = [pc EXCEPT ![Main] = "reset"] /\ gaveUp' /\ UNCHANGED <<up, rm>> /\ pc[Main] # "idle"
    BY <1>41 DEF StatusFails, Goto
  <2>2. pc'[Main] = "reset" /\ up # "down"
    BY <1>l, <2>1 DEF LabelsOK, PhaseOK
  <2> QED
    BY <2>1, <2>2 DEF ManagerOK, BackOK, Kept, Looking
<1>42. ASSUME MarksStopped PROVE ManagerOK' /\ BackOK'
  <2>1. /\ UNCHANGED up /\ pc[Main] = "stopped" /\ pc' = [pc EXCEPT ![Main] = "reset"]
        /\ c' = SetStopped(c, found.ec)
    BY <1>42 DEF MarksStopped, Goto, Save
  <2>2. pc'[Main] = "reset" /\ up # "down"
    BY <1>l, <2>1 DEF LabelsOK, PhaseOK
  <2>3. ~c'.Running
    BY <1>t, <2>1, StoppedFields
  <2> QED
    BY <2>1, <2>2, <2>3 DEF ManagerOK, BackOK, Looking
<1>43. ASSUME ResetsManager PROVE ManagerOK' /\ BackOK'
  <2>1. /\ UNCHANGED <<up, c, found, registered, gaveUp>> /\ pc[Main] = "reset"
        /\ pc' = [pc EXCEPT ![Main] = "list"] /\ rm' = NewManager
    BY <1>43 DEF ResetsManager, ResetRestartManager, Goto
  <2>2. pc'[Main] = "list"
    BY <1>l, <2>1 DEF LabelsOK
  <2>3. Kept' => ~c'.Running
    BY <1>b, <2>1 DEF BackOK, Kept
  <2> QED
    BY <2>1, <2>2, <2>3 DEF ManagerOK, BackOK, Looking, NewManager
<1>44. ASSUME Lists PROVE ManagerOK' /\ BackOK'
  <2> DEFINE again == ShouldRestart(c.ExitCode, c.HasBeenManuallyStopped)
  <2>1. /\ UNCHANGED <<up, c, disk, registered, gaveUp, stopped>> /\ pc[Main] = "list"
        /\ pc' = [pc EXCEPT ![Main] = "unmark"] /\ found'.alive = found.alive
        /\ again /\ c.HasBeenStartedBefore => found'.list = "start"
    BY <1>44, <1>m DEF Lists, Goto, Founds
  <2>2. pc'[Main] = "unmark" /\ up = "restoring"
    BY <1>l, <1>t, <2>1 DEF LabelsOK, PhaseOK, KillLabels
  <2>3. Kept' => Kept
    BY <2>1 DEF Kept
  <2>4. Kept => ~c.Running /\ ~rm.canceled /\ ~rm.active
    BY <1>b, <2>1 DEF BackOK
  <2>5. Kept /\ scenario.Policy = "unless-stopped" => (c.HasBeenManuallyStopped <=> stopped)
    BY <1>d, <1>n, <1>t, <2>1, <2>2 DEF Kept, LoadedOK, SavedOK, Containers
  <2>6. Kept /\ KeptRunning => again
    BY <2>4, <2>5 DEF Kept, KeptRunning, ShouldRestart
  <2>7. KeptRunning' => KeptRunning
    BY <2>1 DEF KeptRunning
  <2> HIDE DEF again
  <2> QED
    BY <2>1, <2>2, <2>3, <2>4, <2>6, <2>7 DEF ManagerOK, BackOK, Looking
<1>45. ASSUME Unmarks PROVE ManagerOK' /\ BackOK'
  <2>1. /\ UNCHANGED <<up, found, registered, gaveUp, stopped>> /\ pc[Main] = "unmark"
        /\ pc' = [pc EXCEPT ![Main] = found.list]
    BY <1>45 DEF Unmarks, Goto, history
  <2>2. pc'[Main] = found.list /\ found.list \in {"start", "rm", "ready"} /\ up # "down"
    BY <1>l, <1>t, <2>1 DEF LabelsOK, PhaseOK
  <2>3. (Kept' => Kept) /\ (KeptRunning' => KeptRunning)
    BY <2>1 DEF Kept, KeptRunning
  <2>4. c'.Running = c.Running /\ c'.HasBeenStartedBefore = c.HasBeenStartedBefore
    BY <1>45, <1>t, UnmarkSaved
  <2>5. Kept => ~c.Running /\ (KeptRunning /\ c.HasBeenStartedBefore => found.list = "start")
    BY <1>b, <2>1 DEF BackOK
  <2> QED
    BY <2>1, <2>2, <2>3, <2>4, <2>5 DEF ManagerOK, BackOK, Looking, Busy
<1>46. ASSUME Ready PROVE ManagerOK' /\ BackOK'
  <2>1. up' = "up"
    BY <1>46 DEF Ready
  <2> QED
    BY <1>x, <2>1
<1> QED
  BY <1>1, <1>2, <1>3, <1>4, <1>5, <1>6, <1>7, <1>8, <1>9, <1>10, <1>11, <1>12, <1>13, <1>14,
        <1>15, <1>16, <1>17, <1>18, <1>19, <1>20, <1>21, <1>22, <1>23, <1>24, <1>25, <1>26,
        <1>27, <1>28, <1>29, <1>30, <1>31, <1>32, <1>33, <1>34, <1>35, <1>36, <1>37, <1>38,
        <1>39, <1>40, <1>41, <1>42, <1>43, <1>44, <1>45, <1>46 DEF Next, Start, Removal, Event,
        Backoff, RestoreStep

(***************************************************************************)
(* A container that its policy keeps running runs again, or has the error  *)
(* of its start, when the daemon is ready (BackAfterDown), whenever its    *)
(* process ended.                                                          *)
(***************************************************************************)
THEOREM BackAfterAllDowns == Spec => BackAfterDown
<1> DEFINE Back ==
      pc[Main] = "ready" /\ up' = "up" /\ ~gaveUp /\ ~raced /\ KeptRunning /\ EndedDown
         => c.Running \/ c.Err
<1>1. Init => BackInv
  BY ThreadFacts DEF Init, BackInv, HeldOK, ManagerOK, BackOK, Kept, Looking
<1>2. IInv /\ IInv' /\ BackInv /\ [Next]_vars => BackInv'
  <2>1. CASE Next
    BY <2>1, HeldKept, BackKept, RacedStays DEF BackInv
  <2>2. CASE UNCHANGED vars
    BY <2>2 DEF vars, outside, manager, bounds, history, BackInv, HeldOK, ManagerOK, BackOK,
       Kept,
                KeptRunning, Unhurt, Busy
  <2> QED
    BY <2>1, <2>2
<1>3. IInv /\ BackInv => Back
  <2> SUFFICES ASSUME IInv, BackInv, pc[Main] = "ready", ~gaveUp, ~raced, KeptRunning, EndedDown
               PROVE  c.Running \/ c.Err
    OBVIOUS
  <2>1. PhaseOK /\ up \in {"down", "restoring", "up", "stopping"}
    BY DEF IInv, ControlOK, TypeOK
  <2>2. up = "restoring"
    BY <2>1 DEF PhaseOK, KillLabels
  <2>3. Kept
    BY <2>2 DEF Kept, KeptRunning, EndedDown
  <2>4. BackOK
    BY DEF BackInv
  <2> QED
    BY <2>3, <2>4 DEF BackOK, EndedDown
<1>4. IInv /\ BackInv /\ [Next]_vars => [Back]_vars
  BY <1>3
<1> HIDE DEF Back
<1>5. Spec => []BackInv
  BY <1>1, <1>2, RestoreInvariant, PTL DEF Spec
<1>6. Spec => [][Back]_vars
  BY <1>4, <1>5, RestoreInvariant, PTL DEF Spec
<1> QED
  BY <1>6 DEF Back, BackAfterDown

=============================================================================
