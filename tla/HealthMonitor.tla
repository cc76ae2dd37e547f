---------------------------- MODULE HealthMonitor ----------------------------
(***************************************************************************)
(* The health check of one container: daemon/health.go and                 *)
(* container/health.go.  Each call of OpenMonitorChannel makes a stop      *)
(* channel and a goroutine, monitor, that owns it, so a goroutine also     *)
(* stands for its channel: the channel is open as long as it is Health's   *)
(* stop.  A monitor runs its probes in another goroutine, and may outlive  *)
(* the run of the container that it was started for.                       *)
(*                                                                         *)
(* The container is reduced to what updateHealthMonitor reads; the         *)
(* handlers that call it do so under the container lock, in one step.      *)
(***************************************************************************)
EXTENDS Integers

CONSTANTS Monitors,   \* monitor goroutines
          NoMonitor,  \* nil
          Retries     \* Healthcheck.Retries, or its default

ASSUME HealthAssumption == NoMonitor \notin Monitors /\ Retries \in Nat \ {0}

VARIABLES container,  \* stopped, running, paused or restarting
          grace,      \* the container is within its start period
          stop,       \* Health.stop: the monitor with the open channel
          status,     \* Health.Status
          streak,     \* Health.FailingStreak, up to Retries: a longer one decides the same
          monitorPc,  \* where each monitor is
          probe,      \* the probe of each monitor
          success,    \* the result it has in hand: the probe succeeded
          early,      \* its probe was started within the start period
          \* History, for the properties only:
          current,    \* monitors whose probe was started in this run of the container
          earned      \* a probe of this run succeeded

monitorVars == <<monitorPc, probe, success, early, current>>
healthVars == <<container, grace, stop, status, streak, monitorVars, earned>>

HealthInit ==
    /\ container = "stopped"
    /\ grace = FALSE
    /\ stop = NoMonitor
    /\ status = "unhealthy"
    /\ streak = 0
    /\ monitorPc = [m \in Monitors |-> "none"]
    /\ probe = [m \in Monitors |-> "none"]
    /\ success = [m \in Monitors |-> FALSE]
    /\ early = [m \in Monitors |-> FALSE]
    /\ current = {}
    /\ earned = FALSE
-----------------------------------------------------------------------------
(***************************************************************************)
(* OpenMonitorChannel and `go monitor', and CloseMonitorChannel, which     *)
(* makes the container unhealthy.                                          *)
(***************************************************************************)
Open(m) == /\ monitorPc[m] = "none"
           /\ stop' = m
           /\ monitorPc' = [monitorPc EXCEPT ![m] = "idle"]

Close == /\ stop' = NoMonitor
         /\ status' = IF stop = NoMonitor THEN status ELSE "unhealthy"
         /\ UNCHANGED monitorPc

\* updateHealthMonitor for a container that runs, is not paused and has a probe.
WantMonitor == \/ /\ stop # NoMonitor
                  /\ UNCHANGED <<stop, monitorPc>>
               \/ /\ stop = NoMonitor
                  /\ \E m \in Monitors : Open(m)

(***************************************************************************)
(* SetRunning and initHealthMonitor, for a start or a restart: the old     *)
(* monitor is stopped, the health is reset, a new monitor is started.      *)
(***************************************************************************)
InitHealthMonitor ==
    /\ container \in {"stopped", "restarting"}
    /\ container' = "running"
    /\ grace' \in BOOLEAN
    /\ status' = "starting"
    /\ streak' = 0
    /\ \E m \in Monitors : Open(m)
    /\ current' = {}
    /\ earned' = FALSE
    /\ UNCHANGED <<probe, success, early>>

\* ProcessEvent(EventExit): SetStopped or SetRestarting, and stopHealthchecks.
Exited ==
    /\ container \in {"running", "paused"}
    /\ container' \in {"stopped", "restarting"}
    /\ Close
    /\ UNCHANGED <<grace, streak, probe, success, early, current, earned>>

\* The goroutine of a restart gives up: SetStopped, and nothing about health.
GivenUp ==
    /\ container = "restarting"
    /\ container' = "stopped"
    /\ UNCHANGED <<grace, stop, status, streak, monitorVars, earned>>

\* containerPause, containerUnpause, and the events of the same names.
Paused ==
    /\ container = "running"
    /\ container' = "paused"
    /\ Close
    /\ UNCHANGED <<grace, streak, probe, success, early, current, earned>>

\* Mutant: the monitor is left to the next start.
ResumedUnmonitored ==
    /\ container = "paused"
    /\ container' = "running"
    /\ UNCHANGED <<grace, stop, status, streak, monitorVars, earned>>

Resumed ==
    /\ container = "paused"
    /\ container' = "running"
    /\ WantMonitor
    /\ UNCHANGED <<grace, status, streak, probe, success, early, current, earned>>

\* ProcessEvent(EventOOM), in any state: a restarting container is Running.
OOM ==
    /\ IF container \in {"running", "restarting"}
         THEN WantMonitor /\ UNCHANGED status
         ELSE Close
    /\ UNCHANGED <<container, grace, streak, probe, success, early, current, earned>>

\* Time passes.
GraceEnds ==
    /\ grace /\ grace' = FALSE
    /\ UNCHANGED <<container, stop, status, streak, monitorVars, earned>>
-----------------------------------------------------------------------------
(***************************************************************************)
(* monitor.  A select whose stop channel is closed may still take another  *)
(* case that is ready.                                                     *)
(***************************************************************************)
StopClosed(m) == stop # m

\* The stop channel is closed, seen while idle.
Ends(m) ==
    /\ monitorPc[m] = "idle" /\ StopClosed(m)
    /\ monitorPc' = [monitorPc EXCEPT ![m] = "none"]
    /\ UNCHANGED <<container, grace, stop, status, streak, probe, success, early, current, earned>>

\* The interval is over.
Probes(m) ==
    /\ monitorPc[m] = "idle"
    /\ monitorPc' = [monitorPc EXCEPT ![m] = "probing"]
    /\ probe' = [probe EXCEPT ![m] = "running"]
    /\ early' = [early EXCEPT ![m] = grace]
    /\ current' = current \cup {m}
    /\ UNCHANGED <<container, grace, stop, status, streak, success, earned>>

\* Mutant: a probe that fails sends no result.
ProbeEndsSilent(m, ok) ==
    /\ probe[m] = "running"
    /\ probe' = [probe EXCEPT ![m] = IF ok THEN "succeeded" ELSE "none"]
    /\ UNCHANGED <<container, grace, stop, status, streak, monitorPc, success, early, current,
                   earned>>

\* probe.run returns, with an exit code or an error, and its result is sent.
ProbeEnds(m, ok) ==
    /\ probe[m] = "running"
    /\ probe' = [probe EXCEPT ![m] = IF ok THEN "succeeded" ELSE "failed"]
    /\ UNCHANGED <<container, grace, stop, status, streak, monitorPc, success, early, current,
                   earned>>

HasResult(m) == probe[m] \in {"succeeded", "failed"}

\* The monitor takes the result; or the probe took too long, which is a failure.
TakesResult(m) ==
    /\ monitorPc[m] = "probing" /\ HasResult(m)
    /\ success' = [success EXCEPT ![m] = probe[m] = "succeeded"]
    /\ probe' = [probe EXCEPT ![m] = "none"]
    /\ monitorPc' = [monitorPc EXCEPT ![m] = "handling"]
    /\ UNCHANGED <<container, grace, stop, status, streak, early, current, earned>>

TimesOut(m) ==
    /\ monitorPc[m] = "probing"
    /\ success' = [success EXCEPT ![m] = FALSE]
    /\ monitorPc' = [monitorPc EXCEPT ![m] = "late"]
    /\ UNCHANGED <<container, grace, stop, status, streak, probe, early, current, earned>>

\* What a monitor knew of a probe is gone when it is done with the result.
Forgets(m) == /\ success' = [success EXCEPT ![m] = FALSE]
              /\ early' = [early EXCEPT ![m] = FALSE]
              /\ current' = current \ {m}

\* The stop channel is closed, seen while probing.
Cancels(m) ==
    /\ monitorPc[m] = "probing" /\ StopClosed(m)
    /\ monitorPc' = [monitorPc EXCEPT ![m] = "stopping"]
    /\ Forgets(m)
    /\ UNCHANGED <<container, grace, stop, status, streak, probe, earned>>

\* handleProbeResult after its check, under the container lock.
Applies(m) ==
    IF success[m]
      THEN /\ streak' = 0
           /\ status' = "healthy"
           /\ earned' = (earned \/ m \in current)
      ELSE IF status = "starting" /\ early[m]
        THEN UNCHANGED <<streak, status, earned>>
        ELSE /\ streak' = IF streak = Retries THEN streak ELSE streak + 1
             /\ status' = IF streak' = Retries THEN "unhealthy" ELSE status
             /\ UNCHANGED earned

\* Mutant: the result is applied although the monitor was stopped.
HandlesStopped(m) == Applies(m)

\* handleProbeResult: the result is ignored if the monitor was stopped meanwhile.
HandleProbeResult(m) == IF StopClosed(m) THEN UNCHANGED <<status, streak, earned>> ELSE Applies(m)

Handles(m) ==
    /\ monitorPc[m] \in {"handling", "late"}
    /\ HandleProbeResult(m)
    /\ monitorPc' = [monitorPc EXCEPT ![m] = IF @ = "late" THEN "draining" ELSE "idle"]
    /\ Forgets(m)
    /\ UNCHANGED <<container, grace, stop, probe>>

\* <-results, of a probe that was cancelled or took too long.
Drains(m) ==
    /\ monitorPc[m] \in {"draining", "stopping"} /\ HasResult(m)
    /\ probe' = [probe EXCEPT ![m] = "none"]
    /\ monitorPc' = [monitorPc EXCEPT ![m] = IF @ = "stopping" THEN "none" ELSE "idle"]
    /\ UNCHANGED <<container, grace, stop, status, streak, success, early, current, earned>>

Monitor(m) == \/ Ends(m) \/ Probes(m) \/ TakesResult(m) \/ TimesOut(m) \/ Cancels(m)
              \/ Handles(m) \/ Drains(m)

HealthNext ==
    \/ InitHealthMonitor \/ Exited \/ GivenUp \/ Paused \/ Resumed \/ OOM \/ GraceEnds
    \/ \E m \in Monitors : Monitor(m) \/ \E ok \in BOOLEAN : ProbeEnds(m, ok)

(***************************************************************************)
(* A monitor whose stop channel is closed sees it: the interval timer was  *)
(* just reset, so it is not ready at every select.  A probe ends, because  *)
(* its context has a deadline and an exec that outlives it is killed.      *)
(***************************************************************************)
HealthFairness ==
    \A m \in Monitors :
        /\ WF_healthVars(Monitor(m))
        /\ SF_healthVars(Ends(m))
        /\ WF_healthVars(\E ok \in BOOLEAN : ProbeEnds(m, ok))

HealthSafety == HealthInit /\ [][HealthNext]_healthVars

HealthSpec == HealthSafety /\ HealthFairness
-----------------------------------------------------------------------------
HealthTypeOK ==
    /\ container \in {"stopped", "running", "paused", "restarting"}
    /\ grace \in BOOLEAN
    /\ stop \in Monitors \cup {NoMonitor}
    /\ status \in {"starting", "healthy", "unhealthy"}
    /\ streak \in 0 .. Retries
    /\ monitorPc \in [Monitors -> {"none", "idle", "probing", "handling", "late", "draining",
                             "stopping"}]
    /\ probe \in [Monitors -> {"none", "running", "succeeded", "failed"}]
    /\ success \in [Monitors -> BOOLEAN]
    /\ early \in [Monitors -> BOOLEAN]
    /\ current \subseteq Monitors
    /\ earned \in BOOLEAN

(***************************************************************************)
(* A container is healthy only if a probe started in this run of it        *)
(* succeeded: no result of an earlier run, whose probe or monitor is still *)
(* at work, is taken for one of this run.                                  *)
(***************************************************************************)
HealthyIsEarned == status = "healthy" => earned

\* "unhealthy when the monitor has stopped" (container/health.go:78), and so it stays.
NoMonitorNoHealth == stop = NoMonitor => status = "unhealthy"

(***************************************************************************)
(* A running container is monitored and a paused one is not, however the   *)
(* starts, exits, pauses and events come.                                  *)
(***************************************************************************)
MonitorMatches == /\ container = "running" => stop # NoMonitor
                  /\ container = "paused" => stop = NoMonitor

(***************************************************************************)
(* A monitor that is stopped ends, whatever its probe does, so that        *)
(* stopped monitors do not pile up.                                        *)
(***************************************************************************)
StoppedMonitorsEnd ==
    \A m \in Monitors : StopClosed(m) /\ monitorPc[m] # "none" ~> monitorPc[m] = "none"
=============================================================================
