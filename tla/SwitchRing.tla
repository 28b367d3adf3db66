----------------------------- MODULE SwitchRing -----------------------------
(***************************************************************************)
(* The packet switch of essential_sv/essential3: a queue at every input    *)
(* and output port, a ring of one slot per port between them, and the      *)
(* drivers and monitors of pds_vc.sv around it.                            *)
(*                                                                         *)
(* At positive edges the ring alternates between check, in which a packet  *)
(* that is at one of its targets is copied to that port's output queue,    *)
(* and shift, in which every slot moves to the port before it and a port   *)
(* that receives nothing injects from its input queue.  The switch's other *)
(* processes run at the same edges, with blocking assignments and in no    *)
(* fixed order: an input process and a queue's other user, an output       *)
(* process and the ring, the sampling of port 0's queue and the rest.      *)
(***************************************************************************)
EXTENDS Integers, Sequences, FiniteSets

CONSTANTS NumPorts,     \* 4
          QMax,         \* a queue of this length suspends its port; it holds
                        \* one more (declared [$:4], compared with 4)
          Count,        \* port -> packets its driver sends
          RestCycles,   \* negative edges a driver waits after a packet
          Targets(_)    \* the target sets port p's sequence may draw

Ports == 0 .. NumPorts - 1

ASSUME SwitchAssumption == /\ NumPorts \in Nat /\ NumPorts >= 2
                           /\ QMax \in Nat \ {0}
                           /\ Count \in [Ports -> Nat]
                           /\ RestCycles \in Nat \ {0}

Next1(p) == (p + 1) % NumPorts

VARIABLES clock,
          state,        \* "check" or "shift"
          ring,         \* port -> [pkt, targets]
          qin, qout,
          suspend_ip,   \* port 0's registered suspend
          out,          \* portN_unload: "idle", or "valid" with valid_op high
          drv,          \* send_to_dut: [pc, left, sent]; sent are the packets so far
          received      \* what each monitor has collected

vars == <<clock, state, ring, qin, qout, suspend_ip, out, drv, received>>

NoPacket == [src |-> 0, num |-> 0, targets |-> {}]

\* A slot all of whose targets are served is empty, whatever data it shows.
Slot(pkt, targets) == IF targets = {} THEN [pkt |-> NoPacket, targets |-> {}]
                      ELSE [pkt |-> pkt, targets |-> targets]
Empty == Slot(NoPacket, {})

Init == /\ clock = 0
        /\ state = "check"
        /\ ring = [p \in Ports |-> Empty]
        /\ qin = [p \in Ports |-> << >>]
        /\ qout = [p \in Ports |-> << >>]
        /\ suspend_ip = FALSE
        /\ out = [p \in Ports |-> "idle"]
        /\ drv = [p \in Ports |-> [pc |-> "ready", left |-> 0,
                                   sent |-> << >>]]
        /\ received = [p \in Ports |-> << >>]

-----------------------------------------------------------------------------
(***************************************************************************)
(* The drivers, at a negative edge.  Ports other than 0 show the length of *)
(* their queue at once.                                                    *)
(***************************************************************************)
Suspended(p) == IF p = 0 THEN suspend_ip ELSE Len(qin[p]) >= QMax

valid_ip(p) == drv[p].pc = "drive"
data_ip(p)  == drv[p].sent[Len(drv[p].sent)]

CanStart(p) == drv[p].pc = "ready" /\ Len(drv[p].sent) < Count[p] /\ ~Suspended(p)

\* target[p] is drawn for the ports whose drivers start at this edge.
Drivers(target) ==
  [p \in Ports |->
     CASE CanStart(p) ->
            [pc |-> "drive", left |-> 0,
             sent |-> Append(drv[p].sent, [src |-> p,
                                           num |-> Len(drv[p].sent) + 1,
                                           targets |-> target[p]])]
       [] drv[p].pc = "drive" /\ ~Suspended(p) ->
            [drv[p] EXCEPT !.pc = "rest", !.left = RestCycles]
       [] drv[p].pc = "rest" /\ drv[p].left > 1 ->
            [drv[p] EXCEPT !.left = @ - 1]
       [] drv[p].pc = "rest" /\ drv[p].left = 1 ->
            [drv[p] EXCEPT !.pc = "ready", !.left = 0]
       [] OTHER -> drv[p]]

Negedge ==
  /\ clock = 1 /\ clock' = 0
  /\ \E target \in [{p \in Ports : CanStart(p)} -> SUBSET Ports] :
       /\ \A p \in DOMAIN target : target[p] \in Targets(p)
       /\ drv' = Drivers(target)
  /\ UNCHANGED <<state, ring, qin, qout, suspend_ip, out, received>>

-----------------------------------------------------------------------------
(***************************************************************************)
(* The input side at a positive edge.                                      *)
(***************************************************************************)

\* Variant: a packet is pushed at the end that is popped.
PushedInFront(q, pkt) == IF Len(q) <= QMax THEN <<pkt>> \o q ELSE q

\* A bounded queue drops what is pushed when it is full.
Pushed(q, pkt) == IF Len(q) <= QMax THEN Append(q, pkt) ELSE q

Loaded(p, q) == IF valid_ip(p) THEN Pushed(q, data_ip(p)) ELSE q

\* Variant: a port injects although a packet is arriving.
InjectsAlways(p, q) == state = "shift" /\ q # << >>

\* Port p injects the head of its queue, which is q when the ring looks.
Injects(p, q) ==
  state = "shift" /\ ring[Next1(p)].targets = {} /\ q # << >>

Taken(p, q) == IF Injects(p, q) THEN Tail(q) ELSE q

\* What the ring finds in the queue of a port whose input process runs first
\* or last, and what both leave.
QinSeen(p, first)  == IF first THEN Loaded(p, qin[p]) ELSE qin[p]
QinAfter(p, first) == IF first THEN Taken(p, Loaded(p, qin[p]))
                      ELSE Loaded(p, Taken(p, qin[p]))

\* sus_check reads the length before, between or after the two.
SuspendAfter(first) ==
  {Len(q) >= QMax : q \in {qin[0], QinAfter(0, first),
                           IF first THEN Loaded(0, qin[0])
                           ELSE Taken(0, qin[0])}}

-----------------------------------------------------------------------------
(***************************************************************************)
(* The output side.                                                        *)
(***************************************************************************)

\* The packet in slot p is for port p, whose queue is q, and there is room.
Arrives(p, q) == state = "check" /\ p \in ring[p].targets /\ Len(q) < QMax

Arrived(p, q) == IF Arrives(p, q) THEN Append(q, ring[p].pkt) ELSE q

Leaves(p, q)   == out[p] = "idle" /\ q # << >>
Unloaded(p, q) == IF Leaves(p, q) THEN Tail(q) ELSE q

\* The queue as the ring and as the output process see it, when the output
\* process runs first or last.
RingSees(p, first) == IF first THEN Unloaded(p, qout[p]) ELSE qout[p]
PortSees(p, first) == IF first THEN qout[p] ELSE Arrived(p, qout[p])

\* Variant: the shift moves the packets and leaves the target bits.
ShiftedData(p) == Slot(ring[Next1(p)].pkt, ring[p].targets)

Shifted(p) == ring[Next1(p)]

RingAfter(inFirst, outFirst) ==
  [p \in Ports |->
     IF state = "check"
     THEN IF Arrives(p, RingSees(p, p \in outFirst))
          THEN Slot(ring[p].pkt, ring[p].targets \ {p}) ELSE ring[p]
     ELSE IF Injects(p, QinSeen(p, p \in inFirst))
          THEN LET pkt == Head(QinSeen(p, p \in inFirst))
               IN  Slot(pkt, pkt.targets)
          ELSE Shifted(p)]

\* The ports at which both processes use the queue at this edge, so that
\* their order matters.
InRaces  == {p \in Ports : valid_ip(p)}
OutRaces == {p \in Ports : /\ state = "check" /\ p \in ring[p].targets
                           /\ out[p] = "idle"}

Posedge ==
  /\ clock = 0 /\ clock' = 1
  /\ state' = IF state = "check" THEN "shift" ELSE "check"
  /\ \E inFirst \in SUBSET InRaces, outFirst \in SUBSET OutRaces :
       /\ ring' = RingAfter(inFirst, outFirst)
       /\ qin' = [p \in Ports |-> QinAfter(p, p \in inFirst)]
       /\ suspend_ip' \in SuspendAfter(0 \in inFirst)
       /\ qout' = [p \in Ports |->
                     IF p \in outFirst THEN Arrived(p, Unloaded(p, qout[p]))
                     ELSE Unloaded(p, Arrived(p, qout[p]))]
       /\ out' = [p \in Ports |->
                    IF Leaves(p, PortSees(p, p \in outFirst)) THEN "valid"
                    ELSE "idle"]
       /\ received' = [p \in Ports |->
                         LET q == PortSees(p, p \in outFirst)
                         IN  IF Leaves(p, q) THEN Append(received[p], Head(q))
                             ELSE received[p]]
  /\ UNCHANGED drv

Next == Negedge \/ Posedge

\* The clock generator never stops.
Spec == Init /\ [][Next]_vars /\ WF_vars(Next)

-----------------------------------------------------------------------------
(***************************************************************************)
(* Properties.                                                             *)
(***************************************************************************)
Occurrences(pkt, q) == Cardinality({i \in DOMAIN q : q[i] = pkt})

\* The packets handed over: a driver has seen a positive edge with them.
Sent == UNION {{drv[p].sent[n] : n \in {m \in DOMAIN drv[p].sent :
                 m < Len(drv[p].sent) \/ drv[p].pc # "drive"}} : p \in Ports}

\* Where packet pkt is on its way to target t, and where it has arrived.
Copies(pkt, t) ==
  (IF t \in pkt.targets THEN Occurrences(pkt, qin[pkt.src]) ELSE 0)
  + Cardinality({p \in Ports : ring[p].pkt = pkt /\ t \in ring[p].targets})
  + Occurrences(pkt, qout[t])
  + Occurrences(pkt, received[t])

\* Types; a packet on the ring has only targets it was sent to.
TypeOK ==
  /\ clock \in {0, 1} /\ state \in {"check", "shift"}
  /\ \A p \in Ports : ring[p].targets \subseteq ring[p].pkt.targets
  /\ \A p \in Ports : Len(qin[p]) <= QMax + 1 /\ Len(qout[p]) <= QMax
  /\ suspend_ip \in BOOLEAN
  /\ \A p \in Ports : out[p] \in {"idle", "valid"}

\* A packet the driver has handed over is on its way to, or has arrived at,
\* each of its targets exactly once, and goes nowhere else.
ExactlyOnce ==
  \A pkt \in Sent : \A t \in Ports :
    Copies(pkt, t) = IF t \in pkt.targets THEN 1 ELSE 0

\* Packets of one source reach a port in the order they were sent.
SourceOrder ==
  \A t \in Ports : \A i, j \in DOMAIN received[t] :
    i < j /\ received[t][i].src = received[t][j].src
      => received[t][i].num <= received[t][j].num

\* Every packet that was handed over reaches each of its targets.
Outstanding(t) == \E pkt \in Sent : /\ t \in pkt.targets
                                    /\ Occurrences(pkt, received[t]) = 0

Delivered == \A t \in Ports : Outstanding(t) ~> ~Outstanding(t)

\* A port that says "input suspended" (switch_port.sv:40) loads nothing.
SuspendedInputTakesNothing ==
  [][\A p \in Ports : Posedge /\ Suspended(p) => ~valid_ip(p)]_vars
=============================================================================
