--------------------------- MODULE MCEventStream ---------------------------
(***************************************************************************)
(* Two events of containerd and one of an API call, about any of two       *)
(* containers; two events are stored, and a channel holds one.             *)
(***************************************************************************)
EXTENDS EventStream

CONSTANTS d1, d2

MCCallerId == [a \in Callers |-> d1]
=============================================================================
