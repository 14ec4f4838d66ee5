--------------------------- MODULE MCAdbTransport ---------------------------
(***************************************************************************)
(* Instances of AdbTransport for TLC: two transports of chosen kinds, with *)
(* the same serial where a second connection to one device is the point.   *)
(***************************************************************************)
EXTENDS AdbTransport, TLC

CONSTANTS t1, t2

SameSerial == [t \in Transports |-> 1]

\* Two connections to one device may change places.
Swap == Permutations(Transports)

OwnSerial == [t \in Transports |-> t]
=============================================================================
