------------------------------ MODULE MCExtRing ------------------------------
(***************************************************************************)
(* Instances of ExtRing for TLC.                                           *)
(***************************************************************************)
EXTENDS ExtRing

\* Every datagram takes the same space.
UnitSize == [s \in Slaves |-> {1}]

\* Some datagrams are too large for a cycle.
SomeLarge ==
    [s \in Slaves |-> {1, MaxQueue + 1}]
=============================================================================
