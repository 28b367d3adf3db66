------------------------------ MODULE RouterTb ------------------------------
(***************************************************************************)
(* The router in its testbench (lab09c/tb/top_dut.sv, router_tb.sv): the   *)
(* YAPP agent sends packets, a host master writes registers, an RX agent   *)
(* drains each channel, and the module UVC checks what comes out.  The     *)
(* scoreboard of lab10 listens to the same monitors.                       *)
(*                                                                         *)
(* Each step is a clock edge taken by all components together.  What is    *)
(* free is what the sequences randomize: which packets are sent and when,  *)
(* the response delays, and when the host writes what.                     *)
(***************************************************************************)
EXTENDS YappRouter, YappTxUvc, ChannelUvc, RouterScoreboard, FifoScoreboard

CONSTANTS HostWrites,      \* the [haddr, hdata] the host may write
          MaxHostWrites,   \* bound: register writes in a behaviour
          VirtualSeq       \* TRUE: one virtual sequence runs the host and the
                           \* YAPP sequences one after the other;
                           \* FALSE: they run side by side

ASSUME HostWritesAssumption ==
  HostWrites \subseteq [haddr : {MAX_PKT_ADDR, ENABLE_ADDR}, hdata : 0 .. 255]

VARIABLES host,          \* the HBUS master: "idle", "busy", "rest"
          num_writes     \* register writes begun

vars == <<ifVars, dutVars, yappVars, chanVars, sbVars, fsb, host, num_writes>>

Port == INSTANCE HostPort

Init == /\ IfInit
        /\ DutInit
        /\ YappInit
        /\ ChanInit
        /\ SbInit
        /\ FsbInit
        /\ Port!Init
        /\ num_writes = 0

-----------------------------------------------------------------------------
(***************************************************************************)
(* The HBUS master, as far as register writes go.                          *)
(***************************************************************************)
HostNegedge ==
  /\ Port!HostNegedge
  /\ num_writes' = IF host = "idle" /\ host' = "busy" THEN num_writes + 1
                   ELSE num_writes
  /\ num_writes' <= MaxHostWrites

\* uvm_do_on returns when the item is done: the virtual sequence never has a
\* register write and a packet on the buses at the same time.
InSequence ==
  VirtualSeq => /\ host' = "busy" => drv.pc = "idle" /\ drv'.pc = "idle"
                /\ host = "busy" => drv'.pc = "idle"

\* The HBUS monitor publishes a write at the edge at which the router takes it.
MirrorNegedge == IF hbus.hen THEN /\ WriteHbus(hbus.haddr, hbus.hdata)
                                  /\ UpdateRegr(hbus.haddr, hbus.hdata)
                 ELSE UNCHANGED <<sbVars, fsb>>

Negedge == /\ clock = 1 /\ clock' = 0
           /\ DutNegedge
           /\ DrvNegedge(in_suspend)
           /\ HostNegedge
           /\ InSequence
           /\ YmonNegedge
           /\ RxNegedges
           /\ MirrorNegedge
           /\ UNCHANGED <<cmon, cresp>>

-----------------------------------------------------------------------------
(***************************************************************************)
(* The analysis ports.  At one edge the channels' packets are compared     *)
(* first; the order is immaterial, since a channel completes a packet only *)
(* after the input monitor has, and neither touches the other's end of the *)
(* queue.                                                                  *)
(***************************************************************************)
SbAfterChans == [c \in Chan |-> IF CmonCollects(c)
                                THEN SbAfterChan(sb[c], CmonPacket(c))
                                ELSE sb[c]]

Analysis ==
  IF YmonCollects(in_suspend)
  THEN LET a == YmonPacket[1].pkt.addr
           n == ymon.length
       IN  /\ ref' = RefAfter(a, n)
           /\ sb' = IF ~BadAddr(a) /\ Forwarded(n)
                    THEN SbAfterYapp(SbAfterChans, a, YmonPacket)
                    ELSE SbAfterChans
  ELSE ref' = ref /\ sb' = SbAfterChans

FsbAnalysis ==
  IF YmonCollects(in_suspend) \/ \E c \in Chan : CmonCollects(c)
  THEN FsbTakes(IF YmonCollects(in_suspend) THEN <<YmonPacket>> ELSE << >>,
                [c \in Chan |-> IF CmonCollects(c) THEN <<CmonPacket(c)>>
                                ELSE << >>])
  ELSE UNCHANGED fsb

Posedge == /\ clock = 0 /\ clock' = 1
           /\ DutPosedge
           /\ YmonPosedge(in_suspend)
           /\ RxPosedges
           /\ MonitorPosedges
           /\ Analysis
           /\ FsbAnalysis
           /\ UNCHANGED <<in_data, in_data_vld, hbus, drv, num_sent, host,
                          num_writes>>

Next == Negedge \/ Posedge

\* The clock generator never stops.
Spec == Init /\ [][Next]_vars /\ WF_vars(Next)

-----------------------------------------------------------------------------
(***************************************************************************)
(* Properties.                                                             *)
(***************************************************************************)
TypeOK ==
  /\ clock \in {0, 1}
  /\ in_data \in Slot /\ in_data_vld \in BOOLEAN
  /\ drv.pkt \in PacketType
  /\ suspend \in [Chan -> BOOLEAN]
  /\ data \in [Chan -> Slot] /\ data_vld \in [Chan -> BOOLEAN]
  /\ state_r \in FsmState
  /\ dest_chan_r \in Chan \cup {IllegalAddr}
  /\ parity \subseteq Byte /\ error \in BOOLEAN
  /\ queue \in [Chan -> FifoState]
  /\ max_pkt_reg \in 0 .. 255 /\ enable_reg \in BOOLEAN

\* Each buffer holds a gapless run of bytes of one packet for its channel.
\* Unless the run ends with the parity byte, the FSM is loading that packet
\* and the byte to come next is on the input bus: no byte is lost, doubled or
\* left behind, however the header had to wait, the buffer filled up and the
\* receiver stalled.
BuffersHoldOnePacket ==
  \A c \in Chan :
    LET q == Contents(queue[c])
        n == Len(q)
    IN  n > 0 =>
          /\ q[1].pkt.addr = c
          /\ \A i \in 2 .. n : q[i] = ByteOf(q[1].pkt, q[1].pos + i - 1)
          /\ IsParity(q[n]) \/ /\ state_r = "DATA_LOAD" /\ dest_chan_r = c
                               /\ in_data = ByteOf(q[n].pkt, q[n].pos + 1)

\* The verdict at the end of a loaded packet is right, although bytes stayed
\* on the bus for several edges while the port was suspended: error rises for
\* a packet sent with bad parity and is not set by a good one, and between the
\* end of one packet and the header of the next it stays as it is.
ParityVerdict ==
  [][/\ Negedge /\ state_r = "DATA_LOAD" /\ ~in_data_vld
          => error' = ~in_data.pkt.good
     /\ Negedge /\ state_r # "DATA_LOAD" /\ ~in_data_vld => error' = error]_vars

\* The driver keeps its byte on the bus while the port is suspended.  It
\* releases the bus after a packet without looking at in_suspend, so the
\* router must not be suspended then.
HeldWhileSuspended ==
  [][Negedge /\ in_suspend => UNCHANGED <<in_data, in_data_vld>>]_vars

\* The scoreboard sees, per channel, exactly the packets the reference model
\* forwards, in order: no EMPTY and no MISCOMPARE warning.
ScoreboardClean == \A c \in Chan : sb[c].miscompare = 0 /\ sb[c].dropped = 0

\* The response delay the channel monitor measures from the wires is the one
\* the RX driver applied.
DelayMeasured ==
  [][Posedge => \A c \in Chan :
       CrespCollects(c) => CrespStep(c).delay = rx[c].delay]_vars

\* The input port does not stay suspended.
SuspendEnds == in_suspend ~> ~in_suspend

\* Every packet the reference model forwards is delivered and matched.
ForwardedPacketsArrive ==
  \A c \in Chan : sb[c].queue # << >> ~> sb[c].queue = << >>

\* What waits in the FIFOs of the second scoreboard, because its task is held
\* up by another channel, changes no result: each packet of a channel is
\* compared with the right one, and those it lets go are those the reference
\* model dropped.  The one exception is a register written while an input
\* packet waits; that packet is judged by the new value.
SameDrops == fsb.yapp_fifo = << >> => packets_dropped = ref.packets_dropped

ScoreboardsAgree ==
  ~fsb.late =>
    /\ \A c \in Chan :
         /\ fsb.miscompare_ch[c] = sb[c].miscompare
         /\ fsb.compare_ch[c] + Len(fsb.chan_fifo[c]) = sb[c].compare
    /\ SameDrops

\* The FIFOs run empty again (with the same exception): no packet keeps the
\* task waiting for ever.
FifosDrain == ~FifosEmpty ~> FifosEmpty \/ fsb.late
=============================================================================
