--------------------------- MODULE MCVolumeStore ---------------------------
(***************************************************************************)
(* One volume, the default driver and a plugin, two containers and a       *)
(* client: each pair of operations on a name, and each crash in between,   *)
(* is among them.                                                          *)
(***************************************************************************)
EXTENDS VolumeStore, TLC

Symmetry == Permutations(Containers)
=============================================================================
