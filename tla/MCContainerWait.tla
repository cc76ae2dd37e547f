-------------------------- MODULE MCContainerWait ---------------------------
(***************************************************************************)
(* One waiter of ContainerWait on its own.                                 *)
(***************************************************************************)
EXTENDS ContainerWait
=============================================================================
