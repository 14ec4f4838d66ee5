----------------------------- MODULE MCAdbSync -----------------------------
(***************************************************************************)
(* An instance of AdbSync for TLC: two files, plain on both sides or a     *)
(* device node and a link.                                                 *)
(***************************************************************************)
EXTENDS AdbSync

MCKinds == {<<{}, {}>>, <<{2}, {1}>>}
=============================================================================
