----------------------------- MODULE MCRestore ------------------------------
(***************************************************************************)
(* The containers and daemons considered.                                  *)
(***************************************************************************)
EXTENDS Restore

Plain == [LiveRestore |-> FALSE, Policy |-> "no", AutoRemove |-> FALSE,
          Ops |-> {"start", "stop", "rm"}, Faults |-> {}, ExitCodes |-> {0, 1},
          MaxStarts |-> 3, MaxCalls |-> 3, MaxDowns |-> 2]

\* Every restart policy, with and without live restore.
Policies == {[Plain EXCEPT !.LiveRestore = l, !.Policy = p] :
                l \in BOOLEAN, p \in {"no", "always", "unless-stopped", "on-failure"}}

\* A container that is removed when it exits, and a disk that fails.
AutoRemoved == {[Plain EXCEPT !.LiveRestore = l, !.AutoRemove = TRUE, !.Faults = {"storage"},
                              !.ExitCodes = {0}] : l \in BOOLEAN}

\* A container that is paused, and a containerd that does not answer.
PausedOnes == {[Plain EXCEPT !.LiveRestore = l, !.Ops = {"start", "stop", "pause", "unpause"},
                             !.Faults = {"status", "restore"}, !.ExitCodes = {0},
                             !.MaxCalls = 4] : l \in BOOLEAN}

\* Starts that fail, events that are lost, and the disk's refusal to take a checkpoint.
Faulty == {[Plain EXCEPT !.LiveRestore = l, !.Policy = "always",
                         !.Faults = {"start", "events", "restore", "storage", "checkpoint"},
                         !.ExitCodes = {0}, !.MaxCalls = 2] : l \in BOOLEAN}

\* A container that is removed when it exits, under live restore.
LiveRemoved == {s \in AutoRemoved : s.LiveRestore}

AllScenarios == Policies \cup AutoRemoved \cup PausedOnes \cup Faulty
=============================================================================
