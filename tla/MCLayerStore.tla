---------------------------- MODULE MCLayerStore ----------------------------
(***************************************************************************)
(* The instance of LayerStore that TLC checks: a base layer and a layer    *)
(* on top of it.                                                           *)
(***************************************************************************)
EXTENDS LayerStore, TLC

CONSTANTS base, top

MCParent == (base :> None) @@ (top :> base)

Symmetry == Permutations(Layers) \cup Permutations(Refs) \cup Permutations(Procs)
=============================================================================
