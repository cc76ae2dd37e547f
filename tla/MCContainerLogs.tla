-------------------------- MODULE MCContainerLogs --------------------------
(***************************************************************************)
(* Streams of up to four bytes, a buffer of two and a ring of one: lines   *)
(* longer than the buffer, empty lines, lines cut by a read, a full ring,  *)
(* and a message larger than the ring all occur.                           *)
(***************************************************************************)
EXTENDS ContainerLogs, TLC

MCLengths == {("stdout" :> 3) @@ ("stderr" :> 1), ("stdout" :> 4) @@ ("stderr" :> 0)}
MCSize(m) == m.size
MCMessages == [src : Writers, no : 1..4, size : 0..2]
=============================================================================
