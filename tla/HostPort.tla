------------------------------ MODULE HostPort ------------------------------
(***************************************************************************)
(* What the router sees of the HBUS master: register writes, each on the   *)
(* bus for exactly one negative edge of the clock, with at least two       *)
(* negative edges between the end of one and the start of the next.  Reads *)
(* change no register and do not show here.                                *)
(*                                                                         *)
(* RouterTb uses this module as the host; HostBus, which has the master's  *)
(* task, reads and the wires, implements it.                               *)
(***************************************************************************)
EXTENDS HbusPkg

CONSTANT HostWrites      \* the [haddr, hdata] the host may write

VARIABLES clock,   \* the last edge: 1 positive, 0 negative
          hbus,    \* what the router samples
          host     \* where the master is: "idle", "busy", "rest"

vars == <<clock, hbus, host>>

Init == /\ clock = 0
        /\ hbus = HbusIdle
        /\ host = "idle"

HostStays == /\ host = "idle"
             /\ UNCHANGED <<host, hbus>>

HostStarts == /\ host = "idle"
              /\ \E w \in HostWrites : hbus' = HbusWrite(w.haddr, w.hdata)
              /\ host' = "busy"

HostEnds == /\ host = "busy"
            /\ hbus' = HbusIdle
            /\ host' = "rest"

HostRests == /\ host = "rest"
             /\ host' = "idle"
             /\ UNCHANGED hbus

HostNegedge == HostStays \/ HostStarts \/ HostEnds \/ HostRests

Negedge == clock = 1 /\ clock' = 0 /\ HostNegedge
Posedge == clock = 0 /\ clock' = 1 /\ UNCHANGED <<hbus, host>>

Next == Negedge \/ Posedge

Spec == Init /\ [][Next]_vars
=============================================================================
