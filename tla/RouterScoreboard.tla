-------------------------- MODULE RouterScoreboard --------------------------
(***************************************************************************)
(* The module UVC: the reference model that forwards the input packets the *)
(* router should pass on, and the scoreboard that compares them with what  *)
(* each channel delivers (router_reference.sv, router_scoreboard.sv).      *)
(*                                                                         *)
(* A collected packet is the sequence of its bytes.  The write functions   *)
(* run inside the monitors' steps, so they are operators on one record.    *)
(***************************************************************************)
EXTENDS RouterIf

CONSTANTS RefMaxPkt, RefEnable    \* initial max_pktsize_reg, router_enable_reg

VARIABLES ref,   \* router_reference
          sb     \* router_scoreboard: per channel sb_queue and the counters

sbVars == <<ref, sb>>

SbInit ==
  /\ ref = [max_pktsize_reg |-> RefMaxPkt, router_enable_reg |-> RefEnable,
            packets_dropped |-> 0, packets_forwarded |-> 0,
            jumbo_packets |-> 0, bad_addr_packets |-> 0]
  /\ sb = [c \in Chan |-> [queue |-> << >>, packets |-> 0, compare |-> 0,
                           miscompare |-> 0, dropped |-> 0]]

-----------------------------------------------------------------------------
\* write_hbus: the collected transaction is mirrored.
WriteHbus(haddr, hdata) ==
  /\ ref' = [ref EXCEPT
               !.max_pktsize_reg = IF haddr = MAX_PKT_ADDR THEN hdata ELSE @,
               !.router_enable_reg = IF haddr = ENABLE_ADDR THEN hdata ELSE @]
  /\ UNCHANGED sb

\* write_yapp of the reference model, for a packet whose header is read as
\* addr a and length n.
BadAddr(a)   == a = IllegalAddr
Forwarded(n) == ref.router_enable_reg # 0 /\ n <= ref.max_pktsize_reg
Jumbo(n)     == ref.router_enable_reg # 0 /\ n > ref.max_pktsize_reg

RefAfter(a, n) ==
  CASE BadAddr(a) ->
         [ref EXCEPT !.bad_addr_packets = @ + 1, !.packets_dropped = @ + 1]
    [] ~BadAddr(a) /\ Forwarded(n) ->
         [ref EXCEPT !.packets_forwarded = @ + 1]
    [] ~BadAddr(a) /\ Jumbo(n) ->
         [ref EXCEPT !.jumbo_packets = @ + 1, !.packets_dropped = @ + 1]
    [] ~BadAddr(a) /\ ref.router_enable_reg = 0 ->
         [ref EXCEPT !.packets_dropped = @ + 1]

\* write_yapp of the scoreboard, reached through sb_add_out.
SbAfterYapp(s, c, p) == [s EXCEPT ![c].queue = Append(@, p)]

\* write_chan0, write_chan1, write_chan2: a packet that was not expected and
\* one that differs from the oldest expected one leave the queue alone.
SbAfterChan(s, p) ==
  CASE s.queue = << >> -> [s EXCEPT !.packets = @ + 1, !.dropped = @ + 1]
    [] s.queue # << >> /\ p = Head(s.queue) ->
         [s EXCEPT !.packets = @ + 1, !.compare = @ + 1, !.queue = Tail(@)]
    [] s.queue # << >> /\ p # Head(s.queue) ->
         [s EXCEPT !.packets = @ + 1, !.miscompare = @ + 1]
=============================================================================
