------------------------------- MODULE State --------------------------------
(***************************************************************************)
(* container.State: the fields the daemon decides on, and the setters as   *)
(* functions from one state to the next.  ErrorMsg is abstracted to        *)
(* whether it is non-empty (Err() # nil); StartedAt, FinishedAt and        *)
(* OOMKilled decide nothing in the code modelled here.  The closing of     *)
(* waitStop and waitRemove is in the modules that have waiters.            *)
(***************************************************************************)
EXTENDS Integers

NewState == [Running |-> FALSE, Paused |-> FALSE, Restarting |-> FALSE,
             RemovalInProgress |-> FALSE, Dead |-> FALSE,
             Pid |-> 0, ExitCode |-> 0, Err |-> FALSE]

States(Pids, Codes) ==
    [Running : BOOLEAN, Paused : BOOLEAN, Restarting : BOOLEAN,
     RemovalInProgress : BOOLEAN, Dead : BOOLEAN,
     Pid : Pids, ExitCode : Codes, Err : BOOLEAN]

\* Mutant: the exit code of the run before is kept.
SetRunningKeepsCode(s, pid) ==
    [s EXCEPT !.Err = FALSE, !.Paused = FALSE, !.Running = TRUE,
              !.Restarting = FALSE, !.Pid = pid]

SetRunning(s, pid) ==
    [s EXCEPT !.Err = FALSE, !.Paused = FALSE, !.Running = TRUE,
              !.Restarting = FALSE, !.ExitCode = 0, !.Pid = pid]

SetStopped(s, code) ==
    [s EXCEPT !.Running = FALSE, !.Paused = FALSE, !.Restarting = FALSE,
              !.Pid = 0, !.ExitCode = code]

\* A restarting container counts as running.
SetRestarting(s, code) ==
    [s EXCEPT !.Running = TRUE, !.Restarting = TRUE, !.Paused = FALSE,
              !.Pid = 0, !.ExitCode = code]

SetError(s, err) == [s EXCEPT !.Err = err]

(***************************************************************************)
(* What a failed containerStart leaves: the error, and an exit code that   *)
(* is not zero.  translateContainerdStartErr sets 126 or 127 (here 127)    *)
(* for a command that cannot be run.                                       *)
(***************************************************************************)
StartFailure(s, cannotRun) ==
    [s EXCEPT !.Err = TRUE, !.ExitCode = IF cannotRun THEN 127 ELSE IF @ = 0 THEN 128 ELSE @]
=============================================================================
