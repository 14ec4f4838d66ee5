------------------------------ MODULE MCAdbUsb ------------------------------
(***************************************************************************)
(* Instances of AdbUsb for TLC.                                            *)
(***************************************************************************)
EXTENDS AdbUsb

CONSTANTS d1, d2, h1, h2
=============================================================================
