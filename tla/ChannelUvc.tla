----------------------------- MODULE ChannelUvc -----------------------------
(***************************************************************************)
(* The channel RX agents, one per output channel: the driver that answers  *)
(* a packet by holding the channel suspended for resp_delay cycles and     *)
(* then draining it, and the monitor, whose two tasks collect the packet   *)
(* and the response (channel_rx_driver.sv, channel_rx_seqs.sv,             *)
(* channel_monitor.sv).                                                    *)
(***************************************************************************)
EXTENDS RouterIf

CONSTANT RespDelays      \* the values of resp_delay that are drawn

\* default_delay constrains resp_delay to be at least zero, and can be met.
ASSUME RespDelaysAssumption == RespDelays \subseteq Nat /\ RespDelays # {}

VARIABLES rx,       \* send_response: [pc, left, delay]
          cmon,     \* collect_packet: [pc, got, length]
          cresp     \* collect_response: [pc, delay]

chanVars == <<rx, cmon, cresp>>

RxIdle    == [pc |-> "wait", left |-> 0, delay |-> 0]
CmonIdle  == [pc |-> "idle", got |-> << >>, length |-> 0]
CrespIdle == [pc |-> "idle", delay |-> 0]

ChanInit == /\ rx    = [c \in Chan |-> RxIdle]
            /\ cmon  = [c \in Chan |-> CmonIdle]
            /\ cresp = [c \in Chan |-> CrespIdle]

-----------------------------------------------------------------------------
(***************************************************************************)
(* The driver.                                                             *)
(***************************************************************************)

\* At a positive edge: take a response item when data_vld is seen, and end
\* wait(!data_vld) when data_vld falls.
RxWakes(c) == rx[c].pc = "wait" /\ data_vld[c]

RxPosedges ==
  /\ \E delay \in [{c \in Chan : RxWakes(c)} -> RespDelays] :
       rx' = [c \in Chan |->
                CASE RxWakes(c) ->
                       [pc |-> "respond", left |-> delay[c], delay |-> delay[c]]
                  [] rx[c].pc = "drain" /\ ~data_vld'[c] ->
                       [rx[c] EXCEPT !.pc = "finish"]
                  [] OTHER -> rx[c]]
  /\ UNCHANGED suspend

\* At a negative edge: count the delay, then lower suspend; after the packet
\* raise it again.
RxNegedges ==
  /\ rx' = [c \in Chan |->
              CASE rx[c].pc = "respond" /\ rx[c].left > 0 ->
                     [rx[c] EXCEPT !.left = @ - 1]
                [] rx[c].pc = "respond" /\ rx[c].left = 0 ->
                     [rx[c] EXCEPT !.pc = IF data_vld[c] THEN "drain"
                                          ELSE "finish"]
                [] rx[c].pc = "finish" -> [rx[c] EXCEPT !.pc = "wait"]
                [] OTHER -> rx[c]]
  /\ suspend' = [c \in Chan |->
                   CASE rx[c].pc = "respond" -> rx[c].left > 0
                     [] rx[c].pc = "finish"  -> TRUE
                     [] OTHER                -> suspend[c]]

-----------------------------------------------------------------------------
(***************************************************************************)
(* The monitor of one channel, at a positive edge.  It samples data_vld,   *)
(* suspend and data from before the edge.                                  *)
(***************************************************************************)
CmonReadsHeader(c) == cmon[c].pc = "header" /\ ~suspend[c]

CmonStep(c, n) ==
  CASE cmon[c].pc = "idle" /\ data_vld[c] /\ ~suspend[c] ->
         [cmon[c] EXCEPT !.pc = "header"]
    [] CmonReadsHeader(c) ->
         [pc |-> "payload", got |-> <<data[c]>>, length |-> n[c]]
    [] cmon[c].pc = "payload" /\ ~suspend[c] ->
         [cmon[c] EXCEPT !.got = Append(@, data[c]),
                         !.pc = IF Len(cmon[c].got) = cmon[c].length
                                THEN "parity" ELSE "payload"]
    [] cmon[c].pc = "parity" -> [CmonIdle EXCEPT !.pc = "done"]
    [] OTHER -> cmon[c]

\* The parity byte is taken at the next edge without looking at suspend.
CmonCollects(c) == cmon[c].pc = "parity"
CmonPacket(c)   == Append(cmon[c].got, data[c])

\* Variant: the edge after suspend is raised again is counted too.
CrespStepUncorrected(c) ==
  LET seen == cresp[c].delay + (IF suspend[c] THEN 1 ELSE 0)
  IN  CASE cresp[c].pc = "idle" /\ data_vld[c] -> [pc |-> "count", delay |-> 0]
        [] cresp[c].pc = "count" ->
             [pc |-> IF data_vld[c] THEN "count" ELSE "done", delay |-> seen]
        [] OTHER -> cresp[c]

\* collect_response counts the suspended edges until data_vld is low, less
\* the one that follows the driver's raising suspend again.
CrespStep(c) ==
  LET seen == cresp[c].delay + (IF suspend[c] THEN 1 ELSE 0)
  IN  CASE cresp[c].pc = "idle" /\ data_vld[c] -> [pc |-> "count", delay |-> 0]
        [] cresp[c].pc = "count" /\ data_vld[c] ->
             [cresp[c] EXCEPT !.delay = seen]
        [] cresp[c].pc = "count" /\ ~data_vld[c] ->
             [pc |-> "done", delay |-> IF seen = 0 THEN 0 ELSE seen - 1]
        [] OTHER -> cresp[c]

CrespCollects(c) == cresp[c].pc = "count" /\ ~data_vld[c]

\* run_phase starts the two tasks again when both have ended.
MonitorPosedges ==
  \E n \in [{c \in Chan : CmonReadsHeader(c)} -> 1 .. MaxLength] :
    LET Joined(c) == CmonStep(c, n).pc = "done" /\ CrespStep(c).pc = "done"
    IN  /\ \A c \in DOMAIN n : n[c] \in LengthField(data[c])
        /\ cmon' = [c \in Chan |-> IF Joined(c) THEN CmonIdle
                                   ELSE CmonStep(c, n)]
        /\ cresp' = [c \in Chan |-> IF Joined(c) THEN CrespIdle
                                    ELSE CrespStep(c)]
=============================================================================
