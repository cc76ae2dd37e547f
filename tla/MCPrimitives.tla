---------------------------- MODULE MCPrimitives ----------------------------
(***************************************************************************)
(* The instances of Locker, ContainerWait and HealthMonitor that TLC       *)
(* checks.  The three share no state: a behaviour is a behaviour of one of *)
(* them, under that one's fairness, and the others stay in their initial   *)
(* states, where nothing is owed to anyone.                                *)
(***************************************************************************)
EXTENDS Locker, ContainerWait, HealthMonitor

VARIABLE subject    \* the one this behaviour is about

PrimitivesInit ==
    /\ LockerInit /\ Init /\ HealthInit
    /\ subject \in {"locker", "wait", "health"}

PrimitivesNext ==
    \/ subject = "locker" /\ LockerNext /\ UNCHANGED <<vars, healthVars, subject>>
    \/ subject = "wait" /\ Next /\ UNCHANGED <<lockerVars, healthVars, subject>>
    \/ subject = "health" /\ HealthNext /\ UNCHANGED <<lockerVars, vars, subject>>

PrimitivesSpec ==
    /\ PrimitivesInit
    /\ [][PrimitivesNext]_<<lockerVars, vars, healthVars, subject>>
    /\ \/ subject = "locker" /\ LockerFairness
       \/ subject = "wait" /\ Fairness
       \/ subject = "health" /\ HealthFairness
=============================================================================
