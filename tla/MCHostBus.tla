----------------------------- MODULE MCHostBus ------------------------------
(***************************************************************************)
(* Both registers written with two values each, an address behind which    *)
(* the router has nothing, and reads of all three.                         *)
(***************************************************************************)
EXTENDS HostBus

WriteAcc(a, d) == [hwr_rd |-> TRUE, haddr |-> a, hdata |-> d]
ReadAcc(a)     == [hwr_rd |-> FALSE, haddr |-> a, hdata |-> 0]

MCAccess == {WriteAcc(0, 20), WriteAcc(0, 63), WriteAcc(1, 0), WriteAcc(1, 1),
             WriteAcc(5, 9), ReadAcc(0), ReadAcc(1), ReadAcc(5)}
=============================================================================
