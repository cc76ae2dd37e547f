----------------------------- MODULE NamedMutex -----------------------------
(***************************************************************************)
(* What pkg/locker promises its callers (the layer store and the volume    *)
(* store): one mutex per name.  A caller asks for a name, is given it when *)
(* nobody else has it, and gives it back.                                  *)
(***************************************************************************)
CONSTANTS Procs,   \* the goroutines that use the locker
          Names,   \* the names they lock
          NoName   \* stands for "asks for nothing"

VARIABLES want,    \* want[p]: the name p asked for and has not given back
          granted  \* granted[p]: p has the name it asked for

vars == <<want, granted>>

Init == /\ want = [p \in Procs |-> NoName]
        /\ granted = [p \in Procs |-> FALSE]

Request(p, n) == /\ want[p] = NoName
                 /\ want' = [want EXCEPT ![p] = n]
                 /\ UNCHANGED granted

Grant(p) == /\ want[p] # NoName
            /\ ~granted[p]
            /\ \A q \in Procs : want[q] = want[p] => ~granted[q]
            /\ granted' = [granted EXCEPT ![p] = TRUE]
            /\ UNCHANGED want

GiveBack(p) == /\ granted[p]
               /\ granted' = [granted EXCEPT ![p] = FALSE]
               /\ want' = [want EXCEPT ![p] = NoName]

Next == \E p \in Procs : \/ \E n \in Names : Request(p, n)
                         \/ Grant(p)
                         \/ GiveBack(p)

Safety == Init /\ [][Next]_vars

Spec == /\ Safety
        /\ \A p \in Procs : SF_vars(Grant(p)) /\ WF_vars(GiveBack(p))
=============================================================================
