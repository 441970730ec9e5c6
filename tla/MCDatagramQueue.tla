--------------------------- MODULE MCDatagramQueue ---------------------------
(***************************************************************************)
(* The instance of DatagramQueue for TLC: a redundant pair of devices, a   *)
(* domain with a datagram on the second one, and the datagram of a clock   *)
(* and that of a state machine on the first.                               *)
(***************************************************************************)
EXTENDS DatagramQueue

CONSTANTS dom, clk, fsm

UnitSize == [d \in Datagrams |-> 1]
PairDeviceIndex == [d \in Datagrams |-> IF d = dom THEN 1 ELSE 0]
PairKind == [d \in Datagrams |-> IF d = fsm THEN "brd" ELSE "lrw"]
=============================================================================
