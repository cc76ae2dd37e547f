---------------------------- MODULE ContainerWait ----------------------------
(***************************************************************************)
(* State.Wait against the setters that wake it.  A waiter captures the     *)
(* channels waitStop and waitRemove under the state lock, blocks on them   *)
(* outside of it, and takes the lock again to read the exit code and the   *)
(* error: the container moves on in between.  The container's own life is  *)
(* reduced to the calls of the setters the daemon makes, in the orders it  *)
(* makes them (Lifecycle models the daemon itself).                        *)
(*                                                                         *)
(* A channel is modelled by the waiters that captured it: closing it moves *)
(* them to `fired', and the channel made in its place has none.            *)
(***************************************************************************)
EXTENDS State

CONSTANTS Waiters,    \* calls of State.Wait, one each
          ExitCodes   \* exit codes a process may end with

Conditions == {"NotRunning", "NextExit", "Removed"}
Codes == ExitCodes \cup {-1, 0, 127, 128}
NoResult == [ExitCode |-> -1, Err |-> FALSE]

NoRestart == [at |-> "none", code |-> 0]

ASSUME ExitCodesAssumption == ExitCodes \subseteq Int

VARIABLES st,        \* the container.State
          restart,   \* the goroutine that restarts the container, and the
                     \* exit code of the exit it was started for
          removal,   \* progress of cleanupContainer
          pc,        \* where each waiter is
          cond,      \* the condition it waits for
          onStop,    \* waiters that captured the current waitStop
          onRemove,  \* waiters that captured the current waitRemove
          fired,     \* waiters with a closed channel
          result,    \* the StateStatus a waiter was sent
          \* History, for the properties only:
          exits,     \* exit codes the container ended with while a waiter blocked
          overtaken, \* waiters the next start came before, between their wake-up and their answer
          late       \* waiters that called Wait after the container was removed

waiterVars == <<pc, cond, result>>
channels == <<onStop, onRemove, fired>>
history == <<exits, overtaken, late>>
vars == <<st, restart, removal, waiterVars, channels, history>>

Init == /\ st = NewState
        /\ restart = NoRestart
        /\ removal = "none"
        /\ pc = [w \in Waiters |-> "idle"]
        /\ cond = [w \in Waiters |-> "NotRunning"]
        /\ onStop = {} /\ onRemove = {} /\ fired = {}
        /\ result = [w \in Waiters |-> NoResult]
        /\ late = {} /\ overtaken = {}
        /\ exits = [w \in Waiters |-> {}]

\* Mutant: the channel is replaced, and not closed.
CloseStopDropped == onStop' = {} /\ UNCHANGED <<onRemove, fired>>

CloseStop == /\ fired' = fired \cup onStop
             /\ onStop' = {}
             /\ UNCHANGED onRemove

CloseRemove == /\ fired' = fired \cup onRemove
               /\ onRemove' = {}
               /\ UNCHANGED onStop

\* The waiters that have called Wait and have no result yet.
Pending == {w \in Waiters : pc[w] \in {"blocked", "woken"}}
-----------------------------------------------------------------------------
(***************************************************************************)
(* The daemon's calls of the setters.                                      *)
(***************************************************************************)

\* containerStart is called by a client, or by the goroutine that restarts.
Starts == /\ ~st.Running \/ restart.at = "waiting"
          /\ ~st.Dead /\ removal = "none"

\* containerStart reaches SetRunning.
Started ==
    /\ Starts
    /\ st' = SetRunning(st, 1)
    /\ restart' = NoRestart
    /\ overtaken' = overtaken \cup (Pending \cap fired)
    /\ UNCHANGED <<removal, waiterVars, channels, exits, late>>

\* containerStart fails after its checks.
StartFailed ==
    /\ Starts
    /\ \E cannotRun \in BOOLEAN : st' = StartFailure(st, cannotRun)
    /\ restart' = IF st.Restarting THEN [restart EXCEPT !.at = "failed"] ELSE NoRestart
    /\ UNCHANGED <<removal, waiterVars, channels, history>>

\* The history of an exit: each pending waiter may be told of its code.
Exit(code) == exits' = [w \in Waiters |->
                           IF w \in Pending THEN exits[w] \cup {code} ELSE exits[w]]

\* The container is in daemon.containers.
Registered == removal \notin {"removing", "removed"}

\* ProcessEvent(EventExit) decides that the container is not restarted.
Stopped(code, err) ==
    /\ st.Running /\ ~st.Restarting /\ Registered
    /\ st' = SetStopped(SetError(st, err \/ st.Err), code)
    /\ CloseStop
    /\ Exit(code)
    /\ UNCHANGED <<restart, removal, waiterVars, overtaken, late>>

\* ProcessEvent(EventExit) decides that it is.
Restarts(code) ==
    /\ st.Running /\ ~st.Restarting /\ removal = "none"
    /\ st' = SetRestarting(st, code)
    /\ CloseStop
    /\ restart' = [at |-> "waiting", code |-> code]
    /\ Exit(code)
    /\ UNCHANGED <<removal, waiterVars, overtaken, late>>

\* The restart is cancelled, or the start it led to failed.
RestartGivenUp ==
    /\ restart.at # "none"
    /\ st' = SetStopped(st, restart.code)
    /\ CloseStop
    /\ restart' = NoRestart
    /\ Exit(restart.code)
    /\ UNCHANGED <<removal, waiterVars, overtaken, late>>

(***************************************************************************)
(* cleanupContainer marks the container dead, once it is stopped or its    *)
(* process is gone: Kill does not wait for the exit event of a process it  *)
(* found dead.  Then the layer and the directory are removed, or one of    *)
(* the two fails.  A container that is removed has left daemon.containers  *)
(* before SetRemoved is called.                                            *)
(***************************************************************************)
RemovalStarts ==
    /\ ~st.Restarting /\ removal = "none"
    /\ removal' = "started"
    /\ st' = [st EXCEPT !.Dead = TRUE]
    /\ UNCHANGED <<restart, waiterVars, channels, history>>

\* Mutant: the waiters are woken before the error is set.
RemovalSetsErrorLate(err) ==
    /\ removal = "started"
    /\ removal' = IF err THEN "failing" ELSE "removing"
    /\ UNCHANGED <<st, restart, waiterVars, channels, history>>

\* SetRemovalError(err): SetError, without the lock.
RemovalSetsError(err) ==
    /\ removal = "started"
    /\ removal' = IF err THEN "failing" ELSE "removing"
    /\ st' = SetError(st, err)
    /\ UNCHANGED <<restart, waiterVars, channels, history>>

\* SetRemovalError(err): the rest, under the lock.
RemovalWakes ==
    /\ removal \in {"failing", "removing"}
    /\ removal' = IF removal = "failing" THEN "none" ELSE "removed"
    /\ CloseRemove
    /\ UNCHANGED <<st, restart, waiterVars, history>>
-----------------------------------------------------------------------------
(***************************************************************************)
(* The waiters.                                                            *)
(***************************************************************************)

\* ContainerWait looks the container up, which fails once it is deregistered.
Lookup(w) ==
    /\ pc[w] = "idle"
    /\ Registered
    /\ pc' = [pc EXCEPT ![w] = "found"]
    /\ UNCHANGED <<st, restart, removal, cond, result, channels, history>>

\* Mutant: a removal does not wake the callers that wait for an exit.
CaptureOne(w, c) ==
    /\ onStop' = IF c = "Removed" THEN onStop ELSE onStop \cup {w}
    /\ onRemove' = IF c = "Removed" THEN onRemove \cup {w} ELSE onRemove
    /\ UNCHANGED fired

\* The channels Wait captures.
Capture(w, c) ==
    /\ onStop' = IF c = "Removed" THEN onStop ELSE onStop \cup {w}
    /\ onRemove' = onRemove \cup {w}
    /\ UNCHANGED fired

WaitAnswered(w) ==
    /\ ~st.Running
    /\ cond' = [cond EXCEPT ![w] = "NotRunning"]
    /\ result' = [result EXCEPT ![w] = [ExitCode |-> st.ExitCode, Err |-> st.Err]]
    /\ pc' = [pc EXCEPT ![w] = "answered"]
    /\ exits' = [exits EXCEPT ![w] = {st.ExitCode}]
    /\ UNCHANGED <<channels, overtaken, late>>

WaitBlocks(w, c) ==
    /\ c = "NotRunning" => st.Running
    /\ cond' = [cond EXCEPT ![w] = c]
    /\ Capture(w, c)
    /\ pc' = [pc EXCEPT ![w] = "blocked"]
    /\ late' = IF removal = "removed" THEN late \cup {w} ELSE late
    /\ UNCHANGED <<result, exits, overtaken>>

\* State.Wait, under the lock.
Wait(w) ==
    /\ pc[w] = "found"
    /\ WaitAnswered(w) \/ \E c \in Conditions : WaitBlocks(w, c)
    /\ UNCHANGED <<st, restart, removal>>

\* The goroutine's select returns: a channel it waits on is closed.
Wake(w) ==
    /\ pc[w] = "blocked" /\ w \in fired
    /\ pc' = [pc EXCEPT ![w] = "woken"]
    /\ UNCHANGED <<st, restart, removal, cond, result, channels, history>>

\* It takes the lock and reads the status that it sends.
Answer(w) ==
    /\ pc[w] = "woken"
    /\ result' = [result EXCEPT ![w] = [ExitCode |-> st.ExitCode, Err |-> st.Err]]
    /\ pc' = [pc EXCEPT ![w] = "answered"]
    /\ UNCHANGED <<st, restart, removal, cond, channels, history>>

\* The context ends first.
Cancelled(w) ==
    /\ pc[w] = "blocked"
    /\ result' = [result EXCEPT ![w] = [ExitCode |-> -1, Err |-> TRUE]]
    /\ pc' = [pc EXCEPT ![w] = "cancelled"]
    /\ UNCHANGED <<st, restart, removal, cond, channels, history>>

Daemon == \/ Started \/ StartFailed
          \/ \E code \in ExitCodes : \/ \E err \in BOOLEAN : Stopped(code, err)
                                     \/ Restarts(code)
          \/ RestartGivenUp
          \/ RemovalStarts
          \/ \E err \in BOOLEAN : RemovalSetsError(err)
          \/ RemovalWakes

Waiter(w) == Lookup(w) \/ Wait(w) \/ Wake(w) \/ Answer(w) \/ Cancelled(w)

Next == Daemon \/ \E w \in Waiters : Waiter(w)

(***************************************************************************)
(* A goroutine whose channel is closed runs on, and a removal that began   *)
(* comes to its end.  Nothing makes a process exit or a context end.       *)
(***************************************************************************)
Fairness == /\ \A w \in Waiters : /\ WF_vars(Wait(w))
                                  /\ WF_vars(Wake(w))
                                  /\ WF_vars(Answer(w))
            /\ WF_vars(RemovalWakes)

Safety == Init /\ [][Next]_vars

Spec == Safety /\ Fairness
-----------------------------------------------------------------------------
TypeOK == /\ st \in States({0, 1}, Codes)
          /\ restart \in [at : {"none", "waiting", "failed"}, code : Codes]
          /\ removal \in {"none", "started", "failing", "removing", "removed"}
          /\ pc \in [Waiters -> {"idle", "found", "blocked", "woken",
                                 "answered", "cancelled"}]
          /\ cond \in [Waiters -> Conditions]
          /\ onStop \subseteq Waiters
          /\ onRemove \subseteq Waiters
          /\ fired \subseteq Waiters
          /\ result \in [Waiters -> [ExitCode : Codes, Err : BOOLEAN]]
          /\ exits \in [Waiters -> SUBSET Codes]
          /\ overtaken \subseteq Waiters /\ late \subseteq Waiters

(***************************************************************************)
(* No lost wake-up: a caller that waits for the container to stop, and     *)
(* whose channel is still open, waits on a running container, so that the  *)
(* SetStopped that ends the run will close its channel.                    *)
(***************************************************************************)
NoLostWakeup ==
    \A w \in Waiters :
        pc[w] = "blocked" /\ cond[w] = "NotRunning" /\ w \notin fired =>
            st.Running /\ w \in onStop

(***************************************************************************)
(* When a removal has ended, whoever waited, for whatever condition, has   *)
(* been woken; only a caller that found the container before and called    *)
(* Wait after can still be blocked.                                        *)
(***************************************************************************)
RemovalWakesEveryone ==
    \A w \in Waiters : removal = "removed" /\ pc[w] = "blocked" => w \in fired \cup late

(***************************************************************************)
(* A caller that waited for the removal and is told of no error is right   *)
(* to believe the container is gone, although it reads the error after     *)
(* the removal attempt that woke it, and others may have followed.         *)
(***************************************************************************)
RemovedMeansRemoved ==
    \A w \in Waiters :
        pc[w] = "answered" /\ cond[w] = "Removed" /\ ~result[w].Err =>
            removal \in {"removing", "removed"}

\* Every wait that was under way when the container was removed ends.
RemovalEndsWaits ==
    \A w \in Waiters :
        removal = "removed" /\ w \notin late /\ pc[w] \in {"blocked", "woken"}
            ~> pc[w] \in {"answered", "cancelled"}

(***************************************************************************)
(* A caller that waited for the next exit reads the code after the wake-up *)
(* under a new lock.  It is told of a code the container ended with while  *)
(* it waited, never of a start that failed or of an exit before the call;  *)
(* only if the next start came before it had the lock may it be told the 0 *)
(* that the start put in its place.                                        *)
(***************************************************************************)
ExitCodeOrZero ==
    \A w \in Waiters :
        pc[w] = "answered" /\ cond[w] = "NextExit" /\ ~result[w].Err /\ ~st.Dead
            => result[w].ExitCode \in exits[w] \cup (IF w \in overtaken THEN {0} ELSE {})

(***************************************************************************)
(* "If the container exited on its own, the result's Err() method will be  *)
(* nil and its ExitCode() method will return the container's exit code"    *)
(* (container/state.go:177-178): without exception.  A start between the   *)
(* wake-up and the answer makes it 0, with no error.                       *)
(***************************************************************************)
ExitCodeReturned ==
    \A w \in Waiters :
        pc[w] = "answered" /\ cond[w] = "NextExit" /\ ~result[w].Err /\ ~st.Dead
            => result[w].ExitCode \in exits[w]
=============================================================================
