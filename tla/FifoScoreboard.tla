--------------------------- MODULE FifoScoreboard ---------------------------
(***************************************************************************)
(* The scoreboard of lab10 (router_fifo_scoreboard.sv), fed by the same    *)
(* monitors as the module UVC: analysis FIFOs in front of one task that    *)
(* takes an input packet, judges it, and if the router should have passed  *)
(* it on waits for the packet of that channel.                             *)
(*                                                                         *)
(* A collected packet is the sequence of its bytes: header, payload,       *)
(* parity.  After an edge the tasks run until all of them wait, so they    *)
(* are operators on one record.                                            *)
(***************************************************************************)
EXTENDS RouterIf

VARIABLE fsb

NoPkt == << >>

FsbInit ==
  fsb = [yapp_fifo |-> << >>, chan_fifo |-> [c \in Chan |-> << >>],
         yapp_pkt |-> NoPkt,      \* the packet check_packet waits with
         paddr |-> IllegalAddr,   \* stands for unknown: no index
         max_pktsize_reg |-> 63, router_enable_reg |-> 1,
         bad_addr_packets |-> 0, jumbo_packets |-> 0, disabled_packets |-> 0,
         compare_ch |-> [c \in Chan |-> 0],
         miscompare_ch |-> [c \in Chan |-> 0],
         late |-> FALSE]          \* history: a register was written while an
                                  \* input packet waited to be judged

Addr(p) == p[1].pkt.addr
Length(p) == Len(p) - 2

\* update_regr takes a transaction at once.
UpdateRegr(haddr, hdata) ==
  fsb' = [fsb EXCEPT
            !.max_pktsize_reg = IF haddr = MAX_PKT_ADDR THEN hdata ELSE @,
            !.router_enable_reg = IF haddr = ENABLE_ADDR THEN hdata ELSE @,
            !.late = @ \/ fsb.yapp_fifo # << >>]

-----------------------------------------------------------------------------
(***************************************************************************)
(* check_packet.                                                           *)
(***************************************************************************)

\* Variant: a packet of the largest size is dropped too.
OversizedAtLimit(f, p) == f.router_enable_reg = 1 /\ Length(p) >= f.max_pktsize_reg

Oversized(f, p) == f.router_enable_reg = 1 /\ Length(p) > f.max_pktsize_reg

\* The next input packet, judged by the registers as they are now.
Judged(f) ==
  LET p == Head(f.yapp_fifo)
      g == [f EXCEPT !.yapp_fifo = Tail(@)]
  IN  CASE Addr(p) = IllegalAddr -> [g EXCEPT !.bad_addr_packets = @ + 1]
        [] Addr(p) # IllegalAddr /\ Oversized(f, p) ->
             [g EXCEPT !.jumbo_packets = @ + 1]
        [] Addr(p) # IllegalAddr /\ f.router_enable_reg = 0 ->
             [g EXCEPT !.disabled_packets = @ + 1]
        [] OTHER -> [g EXCEPT !.yapp_pkt = p]

\* The packet of its channel is there.  A miscompare is counted for the
\* channel of the last match.
Compared(f) ==
  LET c == Addr(f.yapp_pkt)
      p == Head(f.chan_fifo[c])
      g == [f EXCEPT !.chan_fifo[c] = Tail(@), !.yapp_pkt = NoPkt]
  IN  CASE p = f.yapp_pkt -> [g EXCEPT !.paddr = Addr(p),
                                       !.compare_ch[Addr(p)] = @ + 1]
        [] p # f.yapp_pkt /\ f.paddr \in Chan ->
             [g EXCEPT !.miscompare_ch[f.paddr] = @ + 1]
        [] p # f.yapp_pkt /\ f.paddr \notin Chan -> g

\* Variant: the task does not wait for the channel.
CanJudgeHastily(f) == f.yapp_fifo # << >>

CanJudge(f) == f.yapp_pkt = NoPkt /\ f.yapp_fifo # << >>

CanCompare(f) == f.yapp_pkt # NoPkt /\ f.chan_fifo[Addr(f.yapp_pkt)] # << >>

\* Each packet that waits is judged and compared at most once.
CheckPacket(f) ==
  LET after[n \in 0 .. 2 * (Len(f.yapp_fifo) + 1)] ==
        IF n = 0 THEN f
        ELSE IF CanCompare(after[n - 1]) THEN Compared(after[n - 1])
        ELSE IF CanJudge(after[n - 1]) THEN Judged(after[n - 1])
        ELSE after[n - 1]
  IN  after[2 * (Len(f.yapp_fifo) + 1)]

\* What the monitors write at an edge, and what becomes of it: at most one
\* packet from the input, and one from each channel.
FsbTakes(input, output) ==
  fsb' = CheckPacket([fsb EXCEPT
                        !.yapp_fifo = @ \o input,
                        !.chan_fifo = [c \in Chan |-> @[c] \o output[c]]])

packets_dropped == fsb.bad_addr_packets + fsb.jumbo_packets + fsb.disabled_packets

FifosEmpty == /\ fsb.yapp_fifo = << >> /\ fsb.yapp_pkt = NoPkt
              /\ \A c \in Chan : fsb.chan_fifo[c] = << >>
=============================================================================
