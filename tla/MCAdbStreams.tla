---------------------------- MODULE MCAdbStreams ----------------------------
(***************************************************************************)
(* Instances of AdbStreams for TLC.  The .cfg files give the constants     *)
(* their values; the configurations differ in bounds and in what they      *)
(* check.                                                                  *)
(***************************************************************************)
EXTENDS AdbStreams
=============================================================================
