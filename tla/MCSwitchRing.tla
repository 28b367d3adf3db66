---------------------------- MODULE MCSwitchRing ----------------------------
(***************************************************************************)
(* A broadcast goes to every port, its own included (cbasic is overridden  *)
(* by target == 15); a single packet goes to one of the others.            *)
(***************************************************************************)
EXTENDS SwitchRing

Broadcast(p) == {Ports}
Mixed(p)     == {Ports, {Next1(p)}}

TwoEach   == [p \in Ports |-> 2]
ManyEach  == [p \in Ports |-> 20]
=============================================================================
