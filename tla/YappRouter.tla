----------------------------- MODULE YappRouter -----------------------------
(***************************************************************************)
(* The router (router_rtl/yapp_router.v): the host registers, the input    *)
(* port FSM with its parity register, and three channel buffers.           *)
(*                                                                         *)
(* host_ctl assigns its registers with blocking assignments at the edge at *)
(* which the FSM and the buffers sample values computed from them, so at   *)
(* an edge with a register write the next state and the write enable may   *)
(* each be seen before or after the update.                                *)
(***************************************************************************)
EXTENDS RouterIf

CONSTANTS DefMaxPkt,    \* DEF_MAX_PKT
          DefEnable     \* DEF_EN

ASSUME ResetAssumption == DefMaxPkt \in 0 .. 255 /\ DefEnable \in BOOLEAN

VARIABLES state_r, dest_chan_r,      \* port_fsm
          parity, error,
          queue,                     \* queue_0, queue_1, queue_2
          max_pkt_reg, enable_reg    \* host_ctl

dutVars == <<state_r, dest_chan_r, parity, error, queue,
             max_pkt_reg, enable_reg>>

FsmState == {"HEADER_WAIT", "DATA_LOAD", "DUMP_PKT"}

DutInit == /\ state_r = "HEADER_WAIT"
           /\ dest_chan_r = 0
           /\ parity = {}
           /\ error = FALSE
           /\ queue = [c \in Chan |-> PowerUp]
           /\ max_pkt_reg = DefMaxPkt
           /\ enable_reg = DefEnable

-----------------------------------------------------------------------------
(***************************************************************************)
(* Combinational logic of port_fsm and yapp_router.                        *)
(***************************************************************************)
HeaderValid == state_r = "HEADER_WAIT" /\ in_data_vld

\* A valid byte in HEADER_WAIT is a header: the FSM leaves that state at the
\* edge that takes one, and returns to it only when in_data_vld is low.
dest_chan == IF HeaderValid THEN in_data.pkt.addr ELSE dest_chan_r

fifo_empty == dest_chan \in Chan => queue[dest_chan].tmp_empty
hold       == dest_chan \in Chan /\ queue[dest_chan].tmp_full

in_suspend == CASE state_r = "HEADER_WAIT" -> in_data_vld /\ ~fifo_empty
                [] state_r = "DATA_LOAD"   -> hold
                [] state_r = "DUMP_PKT"    -> FALSE

\* Variant: the length is not compared.
IllegalAddrOnly(max) == dest_chan = IllegalAddr

\* Six bits of the register are compared; router_enable is not looked at.
Illegal(max) == \/ dest_chan = IllegalAddr
                \/ in_data.pkt.length > max % 64
                \/ in_data.pkt.length < 1

\* Variant: DUMP_PKT does not end with the packet.
next_state_dumping(max) ==
  CASE HeaderValid /\ Illegal(max)                 -> "DUMP_PKT"
    [] HeaderValid /\ ~Illegal(max) /\ fifo_empty  -> "DATA_LOAD"
    [] HeaderValid /\ ~Illegal(max) /\ ~fifo_empty -> "HEADER_WAIT"
    [] ~HeaderValid -> IF state_r = "DATA_LOAD" /\ ~in_data_vld
                       THEN "HEADER_WAIT" ELSE state_r

next_state(max) ==
  CASE HeaderValid /\ Illegal(max)                 -> "DUMP_PKT"
    [] HeaderValid /\ ~Illegal(max) /\ fifo_empty  -> "DATA_LOAD"
    [] HeaderValid /\ ~Illegal(max) /\ ~fifo_empty -> "HEADER_WAIT"
    [] ~HeaderValid /\ ~in_data_vld                -> "HEADER_WAIT"
    [] ~HeaderValid /\ in_data_vld                 -> state_r

\* Variant: hold does not stop the write of a payload byte.
fsm_write_enb_unheld(max) ==
  \/ HeaderValid /\ ~Illegal(max) /\ fifo_empty
  \/ state_r = "DATA_LOAD"

\* Variant: the parity byte is not written.
fsm_write_enb_valid(max) ==
  \/ HeaderValid /\ ~Illegal(max) /\ fifo_empty
  \/ state_r = "DATA_LOAD" /\ in_data_vld /\ ~hold

\* The parity byte, the one with in_data_vld low, is written whatever hold is.
fsm_write_enb(max) ==
  \/ HeaderValid /\ ~Illegal(max) /\ fifo_empty
  \/ state_r = "DATA_LOAD" /\ (in_data_vld => ~hold)

write_enb(c, max) == dest_chan = c /\ fsm_write_enb(max)

-----------------------------------------------------------------------------
(***************************************************************************)
(* The clocked processes.                                                  *)
(***************************************************************************)
HostCtl ==
  /\ max_pkt_reg' = IF hbus.hen /\ hbus.haddr = MAX_PKT_ADDR
                    THEN hbus.hdata ELSE max_pkt_reg
  /\ enable_reg'  = IF hbus.hen /\ hbus.haddr = ENABLE_ADDR
                    THEN hbus.hdata % 2 = 1 ELSE enable_reg

FsmUpdate(max) ==
  /\ state_r' = next_state(max)
  /\ dest_chan_r' = IF HeaderValid THEN in_data.pkt.addr ELSE dest_chan_r

\* Variant: a byte is added to the parity at every edge it is on the bus.
ParityCalcUngated ==
  \/ /\ in_data_vld
     /\ error' = FALSE
     /\ parity' = Xor(parity, in_data)
  \/ /\ ~in_data_vld
     /\ error' = \/ error
                 \/ /\ state_r = "DATA_LOAD"
                    /\ in_data # NoByte
                    /\ ParityDiffers(parity, in_data)
     /\ parity' = {}

\* An undriven bus makes the comparison unknown, which is not true.
ParityCalc ==
  \/ /\ in_data_vld /\ ~in_suspend
     /\ error' = FALSE
     /\ parity' = Xor(parity, in_data)
  \/ /\ in_data_vld /\ in_suspend
     /\ error' = FALSE
     /\ parity' = parity
  \/ /\ ~in_data_vld
     /\ error' = \/ error
                 \/ /\ state_r = "DATA_LOAD"
                    /\ in_data # NoByte
                    /\ ParityDiffers(parity, in_data)
     /\ parity' = {}

Buffers(max) ==
  queue' = [c \in Chan |->
              Clocked(queue[c], write_enb(c, max), ~suspend[c], in_data)]

DutNegedge ==
  /\ HostCtl
  /\ \E maxS, maxW \in {max_pkt_reg, max_pkt_reg'} :
       FsmUpdate(maxS) /\ Buffers(maxW)
  /\ ParityCalc
  /\ UNCHANGED <<data, data_vld>>

\* The inputs last changed at the negative edge before, so write_enb already
\* has the value the next negative edge will sample.
DutPosedge ==
  /\ data' = [c \in Chan |-> queue[c].ram[queue[c].read_ptr]]
  /\ data_vld' = [c \in Chan |-> Vld(queue[c], write_enb(c, max_pkt_reg))]
  /\ UNCHANGED dutVars
=============================================================================
