----------------------------- MODULE MCTransfer -----------------------------
(***************************************************************************)
(* The instance of Transfer that TLC checks: one pull needs two layers,    *)
(* the other one has found the first in the layer store.                   *)
(***************************************************************************)
EXTENDS Transfer, TLC

CONSTANTS c1, c2

MCPull == (c1 :> <<1, 2>>) @@ (c2 :> <<2>>)
=============================================================================
