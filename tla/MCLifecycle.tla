---------------------------- MODULE MCLifecycle -----------------------------
(***************************************************************************)
(* The instances of Lifecycle that TLC checks.                             *)
(***************************************************************************)
EXTENDS Lifecycle, TLC

\* The clients differ only in the calls they happen to serve.
Symmetry == Permutations(Clients)

Plain == [Policy |-> "no", MaxRetry |-> 0, AutoRemove |-> FALSE, Ops |-> {"start"},
          Faults |-> {}, ExitCodes |-> {1}, SelfExit |-> TRUE,
          MaxStarts |-> 2, MaxCalls |-> 3]

\* Stops, kills and restarts of a container its policy also restarts.
Restarting == [Plain EXCEPT !.Policy = "always", !.Faults = {"signal", "start"},
                            !.Ops = {"start", "stop", "kill", "restart"}]

\* A third process, so that a restart meets the restart after it.
Stopping == [Plain EXCEPT !.Policy = "always", !.Faults = {"signal", "start"}, !.MaxStarts = 3,
                          !.Ops = {"start", "stop", "signal"}]

\* Removals that may fail, of a container that is restarted once.
RemovingOnce == [Plain EXCEPT !.Policy = "on-failure", !.MaxRetry = 1, !.ExitCodes = {0, 1},
                              !.Faults = {"storage"},
                              !.Ops = {"start", "stop", "rm", "rmForce"}]

\* A container its exit and a failed start also remove.
AutoRemoving == [Plain EXCEPT !.AutoRemove = TRUE, !.Faults = {"start"},
                              !.Ops = {"start", "restart", "rmForce"}]

Pausing == [Plain EXCEPT !.Ops = {"start", "kill", "pause", "unpause"}, !.MaxCalls = 4]

\* A removal meets the events of a pause.
RemovingPaused == [Plain EXCEPT !.Ops = {"start", "pause", "rmForce"}]

SafetyScenarios == {Restarting, Stopping, RemovingOnce, AutoRemoving, Pausing, RemovingPaused}

LivenessScenarios ==
    {[Plain EXCEPT !.Ops = {"start", "kill", "restart"}],
     [Plain EXCEPT !.Policy = "unless-stopped", !.Faults = {"start"}, !.MaxCalls = 2,
                   !.Ops = {"start", "stop", "kill", "signal"}]}
=============================================================================
