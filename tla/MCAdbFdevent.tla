---------------------------- MODULE MCAdbFdevent ----------------------------
(***************************************************************************)
(* Instances of AdbFdevent for TLC.                                        *)
(***************************************************************************)
EXTENDS AdbFdevent

CONSTANTS a, b, c
=============================================================================
