----------------------------- MODULE YappTxUvc ------------------------------
(***************************************************************************)
(* The YAPP TX agent: the driver that sends packets into the router and    *)
(* the monitor that watches the input port (yapp_tx_driver.sv,             *)
(* yapp_tx_monitor.sv).                                                    *)
(*                                                                         *)
(* A pc names the event-control statement a task is blocked at.            *)
(***************************************************************************)
EXTENDS RouterIf

CONSTANTS Kinds,         \* the addr, length, good of packets that are sent
          MaxPackets     \* bound: packets sent in a behaviour

\* The n-th packet, of kind k.
Packet(n, k) == [id |-> n, addr |-> k.addr, length |-> k.length, good |-> k.good]

Packets == {Packet(n, k) : n \in 1 .. MaxPackets, k \in Kinds}

ASSUME KindsAssumption ==
  /\ MaxPackets \in Nat
  /\ Kinds \subseteq [addr : Chan \cup {IllegalAddr}, length : 1 .. MaxLength,
                     good : BOOLEAN]
ASSUME ByteAssumption ==
  \A p \in Packets : \A i \in 0 .. p.length + 1 : ByteOf(p, i) \in Byte

VARIABLES drv,     \* send_to_dut: [pc, pkt, pos]; pos is the next payload byte
          num_sent,
          ymon     \* collect_packet: [pc, got, length], got the bytes so far

yappVars == <<drv, num_sent, ymon>>

NoPacket == [id |-> 0, addr |-> IllegalAddr, length |-> 1, good |-> TRUE]

YmonIdle == [pc |-> "idle", got |-> << >>, length |-> 0]

YappInit == /\ drv = [pc |-> "idle", pkt |-> NoPacket, pos |-> 0]
            /\ num_sent = 0
            /\ ymon = YmonIdle

-----------------------------------------------------------------------------
(***************************************************************************)
(* The driver, at a negative edge; suspended is in_suspend before it.      *)
(***************************************************************************)

\* No item yet, or packet_delay still running.
DrvIdle == /\ drv.pc = "idle"
           /\ UNCHANGED <<drv, num_sent, in_data, in_data_vld>>

DrvHeader(suspended) ==
  /\ drv.pc = "idle" /\ ~suspended
  /\ num_sent < MaxPackets
  /\ \E k \in Kinds :
       LET p == Packet(num_sent + 1, k)
       IN  /\ drv' = [pc |-> "payload", pkt |-> p, pos |-> 1]
           /\ in_data' = Header(p)
  /\ in_data_vld' = TRUE
  /\ UNCHANGED num_sent

\* Variant: the driver does not look at in_suspend.
DrvPayloadHasty(suspended) ==
  /\ drv.pc = "payload"
  /\ in_data' = ByteOf(drv.pkt, drv.pos)
  /\ drv' = [drv EXCEPT !.pos = @ + 1,
                        !.pc = IF drv.pos = drv.pkt.length
                               THEN "parity" ELSE "payload"]
  /\ UNCHANGED <<in_data_vld, num_sent>>

DrvPayload(suspended) ==
  /\ drv.pc = "payload" /\ ~suspended
  /\ in_data' = ByteOf(drv.pkt, drv.pos)
  /\ drv' = [drv EXCEPT !.pos = @ + 1,
                        !.pc = IF drv.pos = drv.pkt.length
                               THEN "parity" ELSE "payload"]
  /\ UNCHANGED <<in_data_vld, num_sent>>

DrvParity(suspended) ==
  /\ drv.pc = "parity" /\ ~suspended
  /\ in_data' = ParityByte(drv.pkt)
  /\ in_data_vld' = FALSE
  /\ drv' = [drv EXCEPT !.pc = "release"]
  /\ UNCHANGED num_sent

\* @(negedge clock iff !in_suspend) did not fire.
DrvBlocked(suspended) ==
  /\ drv.pc \in {"payload", "parity"} /\ suspended
  /\ UNCHANGED <<drv, num_sent, in_data, in_data_vld>>

\* The bus is released at the next edge, suspended or not.
DrvRelease ==
  /\ drv.pc = "release"
  /\ in_data' = NoByte
  /\ drv' = [pc |-> "idle", pkt |-> NoPacket, pos |-> 0]
  /\ num_sent' = num_sent + 1
  /\ UNCHANGED in_data_vld

DrvNegedge(suspended) ==
  \/ DrvIdle
  \/ DrvHeader(suspended)
  \/ DrvPayload(suspended)
  \/ DrvParity(suspended)
  \/ DrvBlocked(suspended)
  \/ DrvRelease

-----------------------------------------------------------------------------
(***************************************************************************)
(* The monitor.  It waits for in_data_vld to rise, which the driver makes  *)
(* happen at a negative edge, then samples at positive edges at which the  *)
(* port is not suspended.  YmonCollects: the packet is complete and goes   *)
(* to the analysis port.                                                   *)
(***************************************************************************)
YmonNegedge ==
  ymon' = IF ymon.pc = "idle" /\ ~in_data_vld /\ in_data_vld'
          THEN [ymon EXCEPT !.pc = "header"] ELSE ymon

YmonPosedge(suspended) ==
  \/ /\ ymon.pc = "idle" \/ suspended
     /\ UNCHANGED ymon
  \/ /\ ymon.pc = "header" /\ ~suspended
     /\ \E n \in LengthField(in_data) :
          ymon' = [pc |-> "payload", got |-> <<in_data>>, length |-> n]
  \/ /\ ymon.pc = "payload" /\ ~suspended
     /\ ymon' = [ymon EXCEPT !.got = Append(@, in_data),
                            !.pc = IF Len(ymon.got) = ymon.length
                                   THEN "parity" ELSE "payload"]
  \/ /\ ymon.pc = "parity" /\ ~suspended
     /\ ymon' = YmonIdle

YmonCollects(suspended) == ymon.pc = "parity" /\ ~suspended
YmonPacket == Append(ymon.got, in_data)
=============================================================================
