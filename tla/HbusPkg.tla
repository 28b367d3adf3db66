------------------------------ MODULE HbusPkg -------------------------------
(***************************************************************************)
(* Register addresses of the router, and the HBUS as the router samples it *)
(* at a negative clock edge when only writes matter: hen with hwr_rd high, *)
(* or anything that changes no register.                                   *)
(***************************************************************************)
EXTENDS Integers

MAX_PKT_ADDR == 0
ENABLE_ADDR  == 1

HbusIdle == [hen |-> FALSE, haddr |-> 0, hdata |-> 0]
HbusWrite(a, d) == [hen |-> TRUE, haddr |-> a, hdata |-> d]
=============================================================================
