---------------------------- MODULE SwitchProofs ----------------------------
(***************************************************************************)
(* Proofs about SwitchRing, for every number of ports of at least two,     *)
(* every queue limit, every number of packets, and every choice of target  *)
(* sets: the queues keep their bounds, and a packet gets to ports it was   *)
(* sent to only.  Both are invariants of the same kind: they hold of each  *)
(* place a packet can be in, whichever process runs first.  The last       *)
(* section counts the copies of a packet over all places and compares      *)
(* their order: each target gets it once and in order, as long as no       *)
(* driver is held with a packet that its port has already taken.           *)
(***************************************************************************)
EXTENDS SwitchRing, FiniteSetTheorems, TLAPS

Packet == [src : Ports, num : Nat, targets : SUBSET Ports]

\* The packets that may be on their way out at port t.
For(t) == {pkt \in Packet : t \in pkt.targets}

SlotType == {s \in [pkt : Packet, targets : SUBSET Ports] :
               s.targets \subseteq s.pkt.targets}

DriverType == {d \in [pc : {"ready", "drive", "rest"}, left : Int, sent : Seq(Packet)] :
                 d.pc = "drive" => d.sent # << >>}

\* What queues of at most n packets look like.
Bounded(S, n) == {q \in Seq(S) : Len(q) <= n}

IInv ==
  /\ clock \in {0, 1} /\ state \in {"check", "shift"} /\ suspend_ip \in BOOLEAN
  /\ DOMAIN ring = Ports /\ \A p \in Ports : ring[p] \in SlotType
  /\ DOMAIN drv = Ports /\ \A p \in Ports : drv[p] \in DriverType
  /\ \A p \in Ports : out[p] \in {"idle", "valid"}
  /\ DOMAIN qin = Ports /\ \A p \in Ports : qin[p] \in Bounded(Packet, QMax + 1)
  /\ DOMAIN qout = Ports /\ \A p \in Ports : qout[p] \in Bounded(For(p), QMax)
  /\ DOMAIN received = Ports /\ \A p \in Ports : received[p] \in Seq(For(p))

-----------------------------------------------------------------------------
(***************************************************************************)
(* The operators on one queue or slot.                                     *)
(***************************************************************************)

\* The port after a port is a port.
LEMMA NextPort == ASSUME NEW p \in Ports PROVE Next1(p) \in Ports
  BY SwitchAssumption DEF Ports, Next1

LEMMA NoPacketIsPacket == NoPacket \in Packet
  BY SwitchAssumption DEF NoPacket, Packet, Ports

\* A slot has only targets of its packet left.
LEMMA SlotTyped ==
  ASSUME NEW pkt \in Packet, NEW targets \in SUBSET pkt.targets
  PROVE  Slot(pkt, targets) \in SlotType
<1>1. targets \subseteq Ports
  BY DEF Packet
<1>2. [pkt |-> pkt, targets |-> targets] \in SlotType
  BY <1>1 DEF SlotType
<1>3. [pkt |-> NoPacket, targets |-> {}] \in SlotType
  BY NoPacketIsPacket DEF SlotType
<1>4. QED
  BY <1>2, <1>3 DEF Slot

\* Appending to a queue, and taking its head.
LEMMA QueueOps ==
  ASSUME NEW S, NEW q \in Seq(S), NEW s \in S
  PROVE  /\ Append(q, s) \in Seq(S) /\ Len(Append(q, s)) = Len(q) + 1
         /\ q # << >> => /\ Head(q) \in S
                         /\ Tail(q) \in Seq(S) /\ Len(Tail(q)) = Len(q) - 1
  OBVIOUS

LEMMA QueueTail ==
  ASSUME NEW S, NEW q \in Seq(S), q # << >>
  PROVE  Head(q) \in S /\ Tail(q) \in Seq(S) /\ Len(Tail(q)) = Len(q) - 1
  OBVIOUS

\* An input queue never holds more than one packet above the limit, with
\* either order of the input process and the ring.
LEMMA InputQueue ==
  ASSUME IInv, NEW p \in Ports, NEW first
  PROVE  /\ QinSeen(p, first) \in Bounded(Packet, QMax + 1)
         /\ QinAfter(p, first) \in Bounded(Packet, QMax + 1)
<1>1. ASSUME NEW q \in Bounded(Packet, QMax + 1)
      PROVE  Loaded(p, q) \in Bounded(Packet, QMax + 1)
  <2>1. CASE valid_ip(p)
    <3>1. drv[p].sent \in Seq(Packet) /\ drv[p].sent # << >>
      BY <2>1 DEF IInv, DriverType, valid_ip
    <3>2. data_ip(p) \in Packet
      BY <3>1 DEF data_ip
    <3>3. Append(q, data_ip(p)) \in Seq(Packet)
          /\ Len(Append(q, data_ip(p))) = Len(q) + 1
      BY <3>2, QueueOps DEF Bounded
    <3>4. QED
      BY <2>1, <3>3, SwitchAssumption DEF Loaded, Pushed, Bounded
  <2>2. CASE ~valid_ip(p)
    BY <2>2 DEF Loaded
  <2>3. QED
    BY <2>1, <2>2
<1>2. ASSUME NEW q \in Bounded(Packet, QMax + 1)
      PROVE  Taken(p, q) \in Bounded(Packet, QMax + 1)
  BY SwitchAssumption, QueueTail DEF Taken, Injects, Bounded
<1>3. qin[p] \in Bounded(Packet, QMax + 1)
  BY DEF IInv
<1>4. QED
  BY <1>1, <1>2, <1>3 DEF QinSeen, QinAfter

\* An output queue never holds more packets than the limit, and only packets
\* for its port, with either order of the ring and the output process.
LEMMA OutputQueue ==
  ASSUME IInv, NEW p \in Ports
  PROVE  /\ Arrived(p, qout[p]) \in Bounded(For(p), QMax)
         /\ Unloaded(p, qout[p]) \in Bounded(For(p), QMax)
         /\ Arrived(p, Unloaded(p, qout[p])) \in Bounded(For(p), QMax)
         /\ Unloaded(p, Arrived(p, qout[p])) \in Bounded(For(p), QMax)
<1>1. ASSUME NEW q \in Bounded(For(p), QMax)
      PROVE  Arrived(p, q) \in Bounded(For(p), QMax)
  <2>1. CASE Arrives(p, q)
    <3>1. ring[p].pkt \in For(p)
      BY <2>1 DEF Arrives, IInv, SlotType, For
    <3>2. Append(q, ring[p].pkt) \in Seq(For(p))
          /\ Len(Append(q, ring[p].pkt)) = Len(q) + 1
      BY <3>1, QueueOps DEF Bounded
    <3>3. QED
      BY <2>1, <3>2, SwitchAssumption DEF Arrived, Arrives, Bounded
  <2>2. CASE ~Arrives(p, q)
    BY <2>2 DEF Arrived
  <2>3. QED
    BY <2>1, <2>2
<1>2. ASSUME NEW q \in Bounded(For(p), QMax)
      PROVE  Unloaded(p, q) \in Bounded(For(p), QMax)
  BY SwitchAssumption, QueueTail DEF Unloaded, Leaves, Bounded
<1>3. qout[p] \in Bounded(For(p), QMax)
  BY DEF IInv
<1>4. QED
  BY <1>1, <1>2, <1>3

\* Every slot of the ring after an edge is a slot.
LEMMA RingTyped ==
  ASSUME IInv, NEW p \in Ports, NEW inFirst \in SUBSET Ports,
         NEW outFirst \in SUBSET Ports
  PROVE  RingAfter(inFirst, outFirst)[p] \in SlotType
<1>1. ring[p] \in SlotType /\ Shifted(p) \in SlotType
  BY NextPort DEF IInv, Shifted
<1>2. Slot(ring[p].pkt, ring[p].targets \ {p}) \in SlotType
  BY <1>1, SlotTyped DEF SlotType
<1>3. ASSUME Injects(p, QinSeen(p, p \in inFirst))
      PROVE  LET pkt == Head(QinSeen(p, p \in inFirst))
             IN  Slot(pkt, pkt.targets) \in SlotType
  <2>1. QinSeen(p, p \in inFirst) \in Seq(Packet)
        /\ QinSeen(p, p \in inFirst) # << >>
    BY <1>3, InputQueue DEF Injects, Bounded
  <2>2. Head(QinSeen(p, p \in inFirst)) \in Packet
    BY <2>1, QueueTail
  <2>3. QED
    BY <2>2, SlotTyped
<1>4. QED
  BY <1>1, <1>2, <1>3 DEF RingAfter

-----------------------------------------------------------------------------
(***************************************************************************)
(* The invariant.                                                          *)
(***************************************************************************)
LEMMA InitIInv == ASSUME Init PROVE IInv
<1>1. Empty \in SlotType
  BY SlotTyped, NoPacketIsPacket DEF Empty
<1>2. \A S : << >> \in Seq(S) /\ Len(<< >>) = 0
  OBVIOUS
<1>3. 0 <= QMax /\ 0 <= QMax + 1
  BY SwitchAssumption
<1>4. [pc |-> "ready", left |-> 0, sent |-> << >>] \in DriverType
  BY <1>2 DEF DriverType
<1>5. QED
  BY <1>1, <1>2, <1>3, <1>4 DEF Init, IInv, Bounded

\* A driver that has sent a packet waits, or is ready for the next.
LEMMA DriverRests ==
  ASSUME NEW d \in DriverType, NEW c \in {"ready", "rest"}, NEW n \in Int
  PROVE  [d EXCEPT !.pc = c, !.left = n] \in DriverType
<1>1. d \in [pc : {"ready", "drive", "rest"}, left : Int, sent : Seq(Packet)]
  BY DEF DriverType
<1>2. /\ [d EXCEPT !.pc = c, !.left = n]
           \in [pc : {"ready", "drive", "rest"}, left : Int, sent : Seq(Packet)]
      /\ [d EXCEPT !.pc = c, !.left = n].pc = c
  BY <1>1
<1>3. c # "drive"
  OBVIOUS
<1>4. QED
  BY <1>2, <1>3 DEF DriverType

LEMMA NegedgeIInv == ASSUME IInv, Negedge PROVE IInv'
<1>1. PICK target \in [{p \in Ports : CanStart(p)} -> SUBSET Ports] :
        drv' = Drivers(target)
  BY DEF Negedge
<1>2. ASSUME NEW p \in Ports PROVE Drivers(target)[p] \in DriverType
  <2>1. drv[p] \in DriverType
    BY DEF IInv
  <2>2. CASE CanStart(p)
    <3>1. target[p] \in SUBSET Ports
      BY <2>2
    <3>2. [src |-> p, num |-> Len(drv[p].sent) + 1, targets |-> target[p]] \in Packet
      BY <2>1, <3>1 DEF DriverType, Packet
    <3>3. /\ Append(drv[p].sent, [src |-> p, num |-> Len(drv[p].sent) + 1,
                                  targets |-> target[p]]) \in Seq(Packet)
          /\ Append(drv[p].sent, [src |-> p, num |-> Len(drv[p].sent) + 1,
                                  targets |-> target[p]]) # << >>
      BY <2>1, <3>2 DEF DriverType
    <3>4. Drivers(target)[p] =
            [pc |-> "drive", left |-> 0,
             sent |-> Append(drv[p].sent, [src |-> p, num |-> Len(drv[p].sent) + 1,
                                           targets |-> target[p]])]
      BY <2>2 DEF Drivers, CanStart
    <3>5. QED
      BY <3>3, <3>4 DEF DriverType
  <2>3. CASE ~CanStart(p)
    <3>1. \/ Drivers(target)[p] = [drv[p] EXCEPT !.pc = "rest", !.left = RestCycles]
          \/ Drivers(target)[p] = [drv[p] EXCEPT !.left = drv[p].left - 1]
             /\ drv[p].pc = "rest"
          \/ Drivers(target)[p] = [drv[p] EXCEPT !.pc = "ready", !.left = 0]
          \/ Drivers(target)[p] = drv[p]
      BY <2>3 DEF Drivers
    <3>2. /\ [drv[p] EXCEPT !.pc = "rest", !.left = RestCycles] \in DriverType
          /\ [drv[p] EXCEPT !.pc = "ready", !.left = 0] \in DriverType
      <4>1. RestCycles \in Int /\ 0 \in Int
        BY SwitchAssumption
      <4>2. \A c \in {"ready", "rest"}, n \in Int :
              [drv[p] EXCEPT !.pc = c, !.left = n] \in DriverType
        BY <2>1, DriverRests
      <4>3. QED
        BY <4>1, <4>2
    <3>3. drv[p].left \in Int
      BY <2>1 DEF DriverType
    <3>4. ASSUME drv[p].pc = "rest"
          PROVE  [drv[p] EXCEPT !.left = drv[p].left - 1] \in DriverType
      BY <2>1, <3>3, <3>4 DEF DriverType
    <3>5. QED
      BY <2>1, <3>1, <3>2, <3>4
  <2>4. QED
    BY <2>2, <2>3
<1>3. QED
  BY <1>1, <1>2 DEF Negedge, IInv, Drivers

LEMMA PosedgeIInv == ASSUME IInv, Posedge PROVE IInv'
<1>1. PICK inFirst \in SUBSET InRaces, outFirst \in SUBSET OutRaces :
       /\ ring' = RingAfter(inFirst, outFirst)
       /\ qin' = [p \in Ports |-> QinAfter(p, p \in inFirst)]
       /\ suspend_ip' \in SuspendAfter(0 \in inFirst)
       /\ qout' = [p \in Ports |->
                     IF p \in outFirst THEN Arrived(p, Unloaded(p, qout[p]))
                     ELSE Unloaded(p, Arrived(p, qout[p]))]
       /\ out' = [p \in Ports |->
                    IF Leaves(p, PortSees(p, p \in outFirst)) THEN "valid"
                    ELSE "idle"]
       /\ received' = [p \in Ports |->
                         LET q == PortSees(p, p \in outFirst)
                         IN  IF Leaves(p, q) THEN Append(received[p], Head(q))
                             ELSE received[p]]
  BY DEF Posedge
<1>2. inFirst \subseteq Ports /\ outFirst \subseteq Ports
  BY DEF InRaces, OutRaces
<1>3. DOMAIN ring' = Ports /\ \A p \in Ports : ring'[p] \in SlotType
  BY <1>1, <1>2, RingTyped DEF RingAfter
<1>4. DOMAIN qin' = Ports /\ \A p \in Ports : qin'[p] \in Bounded(Packet, QMax + 1)
  BY <1>1, InputQueue
<1>5. DOMAIN qout' = Ports /\ \A p \in Ports : qout'[p] \in Bounded(For(p), QMax)
  BY <1>1, OutputQueue
<1>6. DOMAIN received' = Ports /\ \A p \in Ports : received'[p] \in Seq(For(p))
  <2>1. ASSUME NEW p \in Ports, NEW q \in Bounded(For(p), QMax), Leaves(p, q)
        PROVE  Append(received[p], Head(q)) \in Seq(For(p))
    <3>1. Head(q) \in For(p)
      BY <2>1, QueueTail DEF Leaves, Bounded
    <3>2. received[p] \in Seq(For(p))
      BY DEF IInv
    <3>3. QED
      BY <3>1, <3>2
  <2>2. ASSUME NEW p \in Ports PROVE received'[p] \in Seq(For(p))
    <3>1. PortSees(p, p \in outFirst) \in Bounded(For(p), QMax)
      BY OutputQueue DEF PortSees, IInv
    <3>2. QED
      BY <1>1, <2>1, <3>1 DEF IInv
  <2>3. QED
    BY <1>1, <2>2
<1>7. suspend_ip' \in BOOLEAN
  <2>1. \E q : suspend_ip' = (Len(q) >= QMax)
    BY <1>1 DEF SuspendAfter
  <2>2. QED
    BY <2>1
<1>8. /\ clock' \in {0, 1} /\ state' \in {"check", "shift"}
      /\ \A p \in Ports : out'[p] \in {"idle", "valid"}
      /\ drv' = drv
  BY <1>1 DEF Posedge
<1>9. QED
  BY <1>3, <1>4, <1>5, <1>6, <1>7, <1>8 DEF IInv

LEMMA SpecIInv == Spec => []IInv
<1>1. Init => IInv
  BY InitIInv
<1>2. IInv /\ [Next]_vars => IInv'
  <2>1. ASSUME IInv, UNCHANGED vars PROVE IInv'
    BY <2>1 DEF vars, IInv
  <2>2. QED
    BY <2>1, NegedgeIInv, PosedgeIInv DEF Next
<1>3. QED
  BY <1>1, <1>2, PTL DEF Spec

-----------------------------------------------------------------------------

\* Types; no queue outgrows its declaration, and no packet on the ring has a
\* target it was not sent to.
THEOREM TypeCorrect == Spec => []TypeOK
<1>1. IInv => TypeOK
  BY DEF IInv, TypeOK, SlotType, Bounded
<1>2. QED
  BY <1>1, SpecIInv, PTL

\* What a port delivers was sent to that port: misrouting, the half of
\* ExactlyOnce that no count of packets is needed for.
DeliveredToTargets ==
  \A t \in Ports : \A i \in DOMAIN received[t] : t \in received[t][i].targets

THEOREM NoMisrouting == Spec => []DeliveredToTargets
<1>1. ASSUME IInv PROVE DeliveredToTargets
  <2>1. ASSUME NEW t \in Ports, NEW i \in DOMAIN received[t]
        PROVE  received[t][i] \in For(t)
    <3>1. received[t] \in Seq(For(t))
      BY <1>1 DEF IInv
    <3>2. QED
      BY <3>1
  <2>2. QED
    BY <2>1 DEF DeliveredToTargets, For
<1>2. QED
  BY <1>1, SpecIInv, PTL

-----------------------------------------------------------------------------
(***************************************************************************)
(* That every packet gets to each of its targets once and in order.        *)
(*                                                                         *)
(* A port loads its packets in order, and they enter the ring in order:    *)
(* of those it has loaded, entered[s] are past its queue and the queue     *)
(* holds the rest.  A packet goes round from slot to slot; Dist(s, q) is   *)
(* how many shifts after its injection by port s it is in slot q.  So of   *)
(* two packets of one source the later one is the nearer, a target still   *)
(* to be served lies ahead, and what a port has taken off the ring is      *)
(* older than all that is still on its way there.                          *)
(***************************************************************************)
Dist(s, q) == IF q <= s THEN s - q ELSE s - q + NumPorts

sent    == [s \in Ports |-> drv[s].sent]
loaded  == [s \in Ports |-> IF valid_ip(s) /\ clock = 0 THEN Len(drv[s].sent) - 1
                            ELSE Len(drv[s].sent)]
entered == [s \in Ports |-> loaded[s] - Len(qin[s])]

\* What has come off the ring at a port.
outs == [t \in Ports |-> received[t] \o qout[t]]

\* q holds the packets of port s that follow its first k.
Part(s, q, k) == /\ q \in Seq(Packet) /\ k \in Nat
                 /\ k + Len(q) <= Len(sent[s])
                 /\ \A i \in 1 .. Len(q) : q[i] = sent[s][k + i]

\* pkt is one of the packets that have entered the ring.
Entered(pkt, e, b) == pkt.num \in 1 .. e[pkt.src] /\ pkt = b[pkt.src][pkt.num]

\* A driver numbers its packets.
Numbered ==
  \A s \in Ports : \A i \in 1 .. Len(sent[s]) :
    sent[s][i].src = s /\ sent[s][i].num = i

\* A driver starts when there is room, and the room is there when it loads.
RoomIn ==
  \A s \in Ports :
    /\ clock = 0 /\ valid_ip(s) => Len(qin[s]) < QMax
    /\ clock = 1 /\ ~valid_ip(s) /\ ~Suspended(s) => Len(qin[s]) < QMax

\* The queue holds what is loaded and has not entered the ring.
Queued == \A s \in Ports : Part(s, qin[s], entered[s])

\* An output queue is empty when the ring checks, so nothing is refused.
RoomOut ==
  \A t \in Ports : IF state = "check" THEN qout[t] = << >>
                   ELSE Len(qout[t]) <= 1 /\ (qout[t] # << >> => out[t] = "idle")

\* The targets of a packet on the ring lie ahead of it.
OnRing ==
  \A q \in Ports : \A t \in ring[q].targets :
    /\ Entered(ring[q].pkt, entered, sent)
    /\ Dist(ring[q].pkt.src, q) <= Dist(ring[q].pkt.src, t)
    /\ state = "shift" => t # q

\* Of two packets of one source the later one is the nearer.
RingOrder ==
  \A q, r \in Ports :
    /\ ring[q].targets # {} /\ ring[r].targets # {}
    /\ ring[q].pkt.src = ring[r].pkt.src
    /\ Dist(ring[q].pkt.src, q) < Dist(ring[q].pkt.src, r)
    => ring[r].pkt.num < ring[q].pkt.num

OffRing == \A t \in Ports : \A i \in 1 .. Len(outs[t]) : Entered(outs[t][i], entered, sent)

\* Packets of one source come off the ring in order.
OutOrder ==
  \A t \in Ports : \A i, j \in 1 .. Len(outs[t]) :
    i < j /\ outs[t][i].src = outs[t][j].src => outs[t][i].num < outs[t][j].num

\* What is on its way to a port is later than what has come off there.
Behind ==
  \A t, q \in Ports : t \in ring[q].targets =>
    \A i \in 1 .. Len(outs[t]) :
      outs[t][i].src = ring[q].pkt.src => outs[t][i].num < ring[q].pkt.num

\* A packet that has entered the ring is on its way to each target, or there.
OnItsWay(pkt, t) == \E q \in Ports : t \in ring[q].targets /\ ring[q].pkt = pkt
IsOut(pkt, t)    == \E i \in 1 .. Len(outs[t]) : outs[t][i] = pkt

NoneLost ==
  \A s \in Ports : \A n \in 1 .. entered[s] : \A t \in sent[s][n].targets :
    OnItsWay(sent[s][n], t) \/ IsOut(sent[s][n], t)

Flow == /\ Numbered /\ RoomIn /\ Queued /\ RoomOut
        /\ OnRing /\ RingOrder /\ OffRing /\ OutOrder /\ Behind /\ NoneLost

\* No driver finds its port suspended when it has just loaded a packet; it
\* would keep driving it, and load it again.
NotHeld == \A s \in Ports : clock = 1 /\ valid_ip(s) => ~Suspended(s)

-----------------------------------------------------------------------------

LEMMA Distance ==
  ASSUME NEW s \in Ports, NEW q \in Ports
  PROVE  Dist(s, q) \in Nat /\ Dist(s, q) < NumPorts /\ Dist(s, s) = 0
  BY SwitchAssumption DEF Ports, Dist

LEMMA DistanceInjective ==
  ASSUME NEW s \in Ports, NEW q \in Ports, NEW r \in Ports, Dist(s, q) = Dist(s, r)
  PROVE  q = r
  BY SwitchAssumption DEF Ports, Dist

LEMMA NextPortIs ==
  ASSUME NEW p \in Ports
  PROVE  Next1(p) = IF p = NumPorts - 1 THEN 0 ELSE p + 1
  BY SwitchAssumption DEF Ports, Next1

\* A shift takes a packet one further, until it is back where it came from.
LEMMA DistanceNext ==
  ASSUME NEW s \in Ports, NEW p \in Ports
  PROVE  IF p = s THEN Dist(s, Next1(p)) = NumPorts - 1
         ELSE Dist(s, p) = Dist(s, Next1(p)) + 1
<1>1. NumPorts \in Nat /\ NumPorts >= 2 /\ s \in 0 .. NumPorts - 1 /\ p \in 0 .. NumPorts - 1
  BY SwitchAssumption DEF Ports
<1>2. CASE p = NumPorts - 1
  BY <1>1, <1>2, NextPortIs DEF Dist
<1>3. CASE p # NumPorts - 1
  BY <1>1, <1>3, NextPortIs DEF Dist
<1>4. QED
  BY <1>2, <1>3

\* Every port is the next of another.
LEMMA Before ==
  ASSUME NEW r \in Ports PROVE \E p \in Ports : Next1(p) = r
<1>1. CASE r = 0
  BY <1>1, NextPortIs, SwitchAssumption DEF Ports
<1>2. CASE r # 0
  <2>1. r - 1 \in Ports /\ Next1(r - 1) = r
    BY <1>2, NextPortIs, SwitchAssumption DEF Ports
  <2>2. QED
    BY <2>1
<1>3. QED
  BY <1>1, <1>2

\* The types of what Flow speaks of.
FlowType ==
  /\ \A s \in Ports : sent[s] \in Seq(Packet) /\ loaded[s] \in Int
                      /\ loaded[s] <= Len(sent[s]) /\ entered[s] \in Int
                      /\ entered[s] <= Len(sent[s])
  /\ \A t \in Ports : outs[t] \in Seq(Packet)
  /\ \A q \in Ports : /\ ring[q].pkt \in Packet
                      /\ ring[q].targets \subseteq ring[q].pkt.targets
                      /\ ring[q].targets \subseteq Ports

LEMMA FlowTyped == ASSUME IInv PROVE FlowType
<1>1. ASSUME NEW s \in Ports
      PROVE  /\ sent[s] \in Seq(Packet) /\ loaded[s] \in Int
             /\ loaded[s] <= Len(sent[s]) /\ entered[s] \in Int
             /\ entered[s] <= Len(sent[s])
  <2>1. sent[s] \in Seq(Packet) /\ sent[s] = drv[s].sent
    BY DEF IInv, DriverType, sent
  <2>2. Len(sent[s]) \in Nat
    BY <2>1
  <2>3. loaded[s] = Len(sent[s]) - 1 \/ loaded[s] = Len(sent[s])
    BY <2>1 DEF loaded
  <2>4. loaded[s] \in Int /\ loaded[s] <= Len(sent[s])
    BY <2>2, <2>3
  <2>5. Len(qin[s]) \in Nat
    BY DEF IInv, Bounded
  <2>6. entered[s] = loaded[s] - Len(qin[s])
    BY DEF entered
  <2>7. entered[s] \in Int /\ entered[s] <= Len(sent[s])
    BY <2>2, <2>4, <2>5, <2>6
  <2>8. QED
    BY <2>1, <2>4, <2>7
<1>2. ASSUME NEW t \in Ports PROVE outs[t] \in Seq(Packet)
  <2>1. For(t) \subseteq Packet
    BY DEF For
  <2>2. received[t] \in Seq(Packet) /\ qout[t] \in Seq(Packet)
    BY <2>1 DEF IInv, Bounded
  <2>3. QED
    BY <2>2 DEF outs
<1>3. ASSUME NEW q \in Ports
      PROVE  /\ ring[q].pkt \in Packet
             /\ ring[q].targets \subseteq ring[q].pkt.targets
             /\ ring[q].targets \subseteq Ports
  BY DEF IInv, SlotType, Packet
<1>4. QED
  BY <1>1, <1>2, <1>3 DEF FlowType

-----------------------------------------------------------------------------
(***************************************************************************)
(* The input queue at a positive edge.                                     *)
(***************************************************************************)
LEMMA LoadedPart ==
  ASSUME NEW s \in Ports, NEW q, NEW k, Part(s, q, k), valid_ip(s),
         sent[s] \in Seq(Packet), k + Len(q) = Len(sent[s]) - 1, Len(q) <= QMax
  PROVE  Part(s, Loaded(s, q), k) /\ k + Len(Loaded(s, q)) = Len(sent[s])
<1>1. Len(sent[s]) \in Nat /\ Len(q) \in Nat /\ k \in Nat
  BY DEF Part
<1>2. Len(sent[s]) \in 1 .. Len(sent[s])
  BY <1>1
<1>3. data_ip(s) = sent[s][Len(sent[s])] /\ data_ip(s) \in Packet
  BY <1>2 DEF data_ip, sent
<1>4. Loaded(s, q) = Append(q, data_ip(s))
  BY DEF Loaded, Pushed
<1>5. /\ Loaded(s, q) \in Seq(Packet) /\ Len(Loaded(s, q)) = Len(q) + 1
      /\ \A i \in 1 .. Len(q) : Loaded(s, q)[i] = q[i]
      /\ Loaded(s, q)[Len(q) + 1] = data_ip(s)
  BY <1>3, <1>4 DEF Part
<1>6. ASSUME NEW i \in 1 .. Len(Loaded(s, q))
      PROVE  Loaded(s, q)[i] = sent[s][k + i]
  <2>1. CASE i \in 1 .. Len(q)
    BY <2>1, <1>5 DEF Part
  <2>2. CASE i = Len(q) + 1
    BY <2>2, <1>1, <1>3, <1>5
  <2>3. QED
    BY <2>1, <2>2, <1>1, <1>5
<1>7. QED
  BY <1>1, <1>5, <1>6 DEF Part

LEMMA TailPart ==
  ASSUME NEW s, NEW q, NEW k, Part(s, q, k), q # << >>
  PROVE  /\ Part(s, Tail(q), k + 1) /\ Len(Tail(q)) = Len(q) - 1
         /\ Head(q) = sent[s][k + 1]
<1>1. /\ q \in Seq(Packet) /\ k \in Nat /\ Len(q) \in Nat /\ Len(q) >= 1
      /\ Tail(q) \in Seq(Packet) /\ Len(Tail(q)) = Len(q) - 1 /\ Head(q) = q[1]
      /\ \A i \in 1 .. Len(q) - 1 : Tail(q)[i] = q[i + 1]
  BY DEF Part
<1>2. ASSUME NEW i \in 1 .. Len(Tail(q)) PROVE Tail(q)[i] = sent[s][(k + 1) + i]
  <2>1. i \in 1 .. Len(q) - 1 /\ i + 1 \in 1 .. Len(q) /\ k + (i + 1) = (k + 1) + i
    BY <1>1
  <2>2. q[i + 1] = sent[s][k + (i + 1)]
    BY <2>1 DEF Part
  <2>3. QED
    BY <1>1, <2>1, <2>2
<1>3. 1 \in 1 .. Len(q) /\ k + 1 \in Nat
  BY <1>1
<1>4. k + Len(q) <= Len(sent[s]) /\ q[1] = sent[s][k + 1]
  BY <1>3 DEF Part
<1>5. (k + 1) + Len(Tail(q)) <= Len(sent[s])
  BY <1>1, <1>4
<1>6. QED
  BY <1>1, <1>2, <1>3, <1>4, <1>5 DEF Part

\* What the ring finds in the queue of port s, and what a positive edge leaves.
LEMMA QueuesPart ==
  ASSUME IInv, Flow, clock = 0, NEW s \in Ports, NEW first \in BOOLEAN
  PROVE  LET seen == QinSeen(s, first)
             k    == IF Injects(s, seen) THEN entered[s] + 1 ELSE entered[s]
         IN  /\ Part(s, seen, entered[s])
             /\ Part(s, QinAfter(s, first), k)
             /\ k + Len(QinAfter(s, first)) = Len(sent[s])
<1> DEFINE seen == QinSeen(s, first)
           k    == IF Injects(s, seen) THEN entered[s] + 1 ELSE entered[s]
<1>1. /\ sent[s] \in Seq(Packet) /\ Len(sent[s]) \in Nat /\ entered[s] \in Int
      /\ Part(s, qin[s], entered[s]) /\ qin[s] \in Seq(Packet) /\ Len(qin[s]) \in Nat
  BY FlowTyped DEF FlowType, Flow, Queued, Part
<1>2. entered[s] = loaded[s] - Len(qin[s])
  BY DEF entered
<1>3. sent[s] = drv[s].sent
  BY DEF sent
<1>4. ASSUME NEW q, NEW n, Part(s, q, n), q # << >>
      PROVE  /\ Part(s, Tail(q), n + 1) /\ (n + 1) + Len(Tail(q)) = n + Len(q)
             /\ Len(Tail(q)) <= Len(q)
  <2>1. Part(s, Tail(q), n + 1) /\ Len(Tail(q)) = Len(q) - 1
    BY <1>4, TailPart
  <2>2. n \in Nat /\ Len(q) \in Nat
    BY <1>4 DEF Part
  <2>3. (n + 1) + (Len(q) - 1) = n + Len(q) /\ Len(q) - 1 <= Len(q)
    BY <2>2
  <2>4. QED
    BY <2>1, <2>3
<1>5. CASE ~valid_ip(s)
  <2>1. entered[s] + Len(qin[s]) = Len(sent[s])
    BY <1>1, <1>2, <1>3, <1>5 DEF loaded
  <2>2. seen = qin[s] /\ QinAfter(s, first) = Taken(s, qin[s])
    BY <1>5 DEF QinSeen, QinAfter, Loaded
  <2>3. CASE Injects(s, qin[s])
    <3>1. QinAfter(s, first) = Tail(qin[s]) /\ qin[s] # << >>
      BY <2>2, <2>3 DEF Taken, Injects
    <3>2. k = entered[s] + 1
      BY <2>2, <2>3
    <3>3. QED
      BY <1>1, <1>4, <2>1, <2>2, <3>1, <3>2
  <2>4. CASE ~Injects(s, qin[s])
    BY <1>1, <2>1, <2>2, <2>4 DEF Taken
  <2>5. QED
    BY <2>3, <2>4
<1>6. CASE valid_ip(s)
  <2>1. entered[s] + Len(qin[s]) = Len(sent[s]) - 1 /\ Len(qin[s]) <= QMax
    <3>1. loaded[s] = Len(sent[s]) - 1
      BY <1>3, <1>6 DEF loaded
    <3>2. Len(qin[s]) < QMax
      BY <1>6 DEF Flow, RoomIn
    <3>3. QED
      BY <1>1, <1>2, <3>1, <3>2, SwitchAssumption
  <2>2. /\ Part(s, Loaded(s, qin[s]), entered[s])
        /\ entered[s] + Len(Loaded(s, qin[s])) = Len(sent[s])
    BY <1>1, <1>6, <2>1, LoadedPart
  <2>3. CASE first
    <3>1. seen = Loaded(s, qin[s]) /\ QinAfter(s, first) = Taken(s, seen)
      BY <2>3 DEF QinSeen, QinAfter
    <3>2. CASE Injects(s, seen)
      <4>1. QinAfter(s, first) = Tail(seen) /\ seen # << >> /\ k = entered[s] + 1
        BY <3>1, <3>2 DEF Taken, Injects
      <4>2. QED
        BY <1>4, <2>2, <3>1, <4>1
    <3>3. CASE ~Injects(s, seen)
      BY <2>2, <3>1, <3>3 DEF Taken
    <3>4. QED
      BY <3>2, <3>3
  <2>4. CASE ~first
    <3>1. seen = qin[s] /\ QinAfter(s, first) = Loaded(s, Taken(s, seen))
      BY <2>4 DEF QinSeen, QinAfter
    <3>2. CASE Injects(s, seen)
      <4>1. Taken(s, seen) = Tail(qin[s]) /\ qin[s] # << >> /\ k = entered[s] + 1
        BY <3>1, <3>2 DEF Taken, Injects
      <4>2. /\ Part(s, Tail(qin[s]), k) /\ k + Len(Tail(qin[s])) = Len(sent[s]) - 1
            /\ Len(Tail(qin[s])) <= Len(qin[s])
        BY <1>1, <1>4, <2>1, <4>1
      <4>3. Len(Tail(qin[s])) <= QMax
        BY <1>1, <2>1, <4>1, <4>2, SwitchAssumption DEF Part
      <4>4. QED
        BY <1>1, <1>6, <3>1, <4>1, <4>2, <4>3, LoadedPart
    <3>3. CASE ~Injects(s, seen)
      BY <1>1, <2>2, <3>1, <3>3 DEF Taken
    <3>4. QED
      BY <3>2, <3>3
  <2>5. QED
    BY <2>3, <2>4
<1>7. QED
  BY <1>5, <1>6

-----------------------------------------------------------------------------
(***************************************************************************)
(* A positive edge in terms of the ring, of what has entered it and of     *)
(* what has come off it.                                                   *)
(***************************************************************************)
TakesOff(t) == /\ ring'[t] = Slot(ring[t].pkt, ring[t].targets \ {t})
               /\ outs'[t] = Append(outs[t], ring[t].pkt)

CheckEdge ==
  /\ state = "check" /\ state' = "shift" /\ sent' = sent /\ entered' = entered
  /\ \A t \in Ports : IF t \in ring[t].targets THEN TakesOff(t)
                      ELSE ring'[t] = ring[t] /\ outs'[t] = outs[t]

PutsOn(s) == /\ entered'[s] = entered[s] + 1 /\ entered'[s] <= Len(sent[s])
             /\ ring[Next1(s)].targets = {}
             /\ LET pkt == sent[s][entered'[s]]
                IN  ring'[s] = Slot(pkt, pkt.targets)

ShiftEdge ==
  /\ state = "shift" /\ state' = "check" /\ sent' = sent /\ outs' = outs
  /\ DOMAIN entered' = Ports
  /\ \A s \in Ports : \/ PutsOn(s)
                      \/ ring'[s] = ring[Next1(s)] /\ entered'[s] = entered[s]

\* The queues after a positive edge at which the output process has run before
\* or after the ring.
Sides(inFirst, outFirst) ==
  /\ ring' = RingAfter(inFirst, outFirst)
  /\ qin' = [p \in Ports |-> QinAfter(p, p \in inFirst)]
  /\ suspend_ip' \in SuspendAfter(0 \in inFirst)
  /\ qout' = [p \in Ports |->
                IF p \in outFirst THEN Arrived(p, Unloaded(p, qout[p]))
                ELSE Unloaded(p, Arrived(p, qout[p]))]
  /\ out' = [p \in Ports |->
               IF Leaves(p, PortSees(p, p \in outFirst)) THEN "valid" ELSE "idle"]
  /\ received' = [p \in Ports |->
                    LET q == PortSees(p, p \in outFirst)
                    IN  IF Leaves(p, q) THEN Append(received[p], Head(q))
                        ELSE received[p]]

LEMMA PosedgeSides ==
  ASSUME Posedge
  PROVE  /\ \E inFirst \in SUBSET InRaces, outFirst \in SUBSET OutRaces :
              Sides(inFirst, outFirst)
         /\ clock = 0 /\ clock' = 1 /\ drv' = drv /\ sent' = sent
         /\ state' = IF state = "check" THEN "shift" ELSE "check"
  BY DEF Posedge, Sides, sent

\* A packet that leaves the queue, and one that joins it, at a port.
LEMMA HeadMoves ==
  ASSUME NEW S, NEW a \in Seq(S), NEW b \in Seq(S), b # << >>
  PROVE  Append(a, Head(b)) \o Tail(b) = a \o b
  OBVIOUS

LEMMA OnePasses ==
  ASSUME NEW S, NEW a \in Seq(S), NEW x \in S
  PROVE  /\ a \o << >> = a /\ a \o <<x>> = Append(a, x)
         /\ Append(a, x) \o << >> = Append(a, x)
         /\ Append(<< >>, x) = <<x>> /\ Head(<<x>>) = x /\ Tail(<<x>>) = << >>
         /\ <<x>> # << >> /\ Len(<<x>>) = 1 /\ Len(<< >>) = 0 /\ << >> \in Seq(S)
         /\ <<x>> \in Seq(S)
  OBVIOUS

LEMMA Singles ==
  ASSUME NEW S, NEW q \in Seq(S), Len(q) <= 1, q # << >>
  PROVE  Tail(q) = << >>
  OBVIOUS

\* At a check the output side takes what is for it, in either order.
LEMMA OutputCheck ==
  ASSUME IInv, Flow, state = "check", NEW inFirst, NEW outFirst,
         Sides(inFirst, outFirst), NEW t \in Ports
  PROVE  /\ IF t \in ring[t].targets THEN TakesOff(t)
            ELSE ring'[t] = ring[t] /\ outs'[t] = outs[t]
         /\ Len(qout'[t]) <= 1 /\ (qout'[t] # << >> => out'[t] = "idle")
<1>1. qout[t] = << >> /\ received[t] \in Seq(Packet) /\ ring[t].pkt \in Packet
  <2>1. For(t) \subseteq Packet
    BY DEF For
  <2>2. QED
    BY <2>1, FlowTyped DEF Flow, RoomOut, IInv, FlowType
<1>2. outs[t] = received[t] /\ outs'[t] = received'[t] \o qout'[t]
  BY <1>1, OnePasses DEF outs
<1>3. Unloaded(t, << >>) = << >> /\ ~Leaves(t, << >>)
  BY DEF Unloaded, Leaves
<1>4. Len(<< >>) < QMax
  BY SwitchAssumption, OnePasses, <1>1
<1>5. CASE t \notin ring[t].targets
  <2>1. ~Arrives(t, << >>) /\ Arrived(t, << >>) = << >>
    BY <1>5 DEF Arrives, Arrived
  <2>2. qout'[t] = << >> /\ received'[t] = received[t]
    BY <1>1, <1>3, <2>1 DEF Sides, PortSees
  <2>3. ring'[t] = ring[t]
    BY <1>1, <1>3, <1>5 DEF Sides, RingAfter, RingSees, Arrives
  <2>4. QED
    BY <1>1, <1>2, <1>5, <2>2, <2>3, OnePasses
<1>6. CASE t \in ring[t].targets
  <2>1. Arrives(t, << >>) /\ Arrived(t, << >>) = <<ring[t].pkt>>
    BY <1>1, <1>4, <1>6, OnePasses DEF Arrives, Arrived
  <2>2. ring'[t] = Slot(ring[t].pkt, ring[t].targets \ {t})
    BY <1>1, <1>3, <2>1 DEF Sides, RingAfter, RingSees, Arrives
  <2>3. /\ received'[t] \o qout'[t] = Append(received[t], ring[t].pkt)
        /\ Len(qout'[t]) <= 1 /\ (qout'[t] # << >> => out'[t] = "idle")
    <3>1. CASE t \in outFirst
      <4>1. /\ qout'[t] = <<ring[t].pkt>> /\ received'[t] = received[t]
            /\ out'[t] = "idle"
        BY <1>1, <1>3, <2>1, <3>1 DEF Sides, PortSees
      <4>2. QED
        BY <1>1, <4>1, OnePasses
    <3>2. CASE t \notin outFirst /\ out[t] = "idle"
      <4>1. Leaves(t, <<ring[t].pkt>>) /\ Unloaded(t, <<ring[t].pkt>>) = << >>
        BY <1>1, <3>2, OnePasses DEF Leaves, Unloaded
      <4>2. qout'[t] = << >> /\ received'[t] = Append(received[t], ring[t].pkt)
        BY <1>1, <2>1, <3>2, <4>1, OnePasses DEF Sides, PortSees
      <4>3. QED
        BY <1>1, <4>2, OnePasses
    <3>3. CASE t \notin outFirst /\ out[t] # "idle"
      <4>1. /\ ~Leaves(t, <<ring[t].pkt>>)
            /\ Unloaded(t, <<ring[t].pkt>>) = <<ring[t].pkt>>
        BY <3>3 DEF Leaves, Unloaded
      <4>2. /\ qout'[t] = <<ring[t].pkt>> /\ received'[t] = received[t]
            /\ out'[t] = "idle"
        BY <1>1, <2>1, <3>3, <4>1 DEF Sides, PortSees
      <4>3. QED
        BY <1>1, <4>2, OnePasses
    <3>4. QED
      BY <3>1, <3>2, <3>3
  <2>4. QED
    BY <1>2, <1>6, <2>2, <2>3 DEF TakesOff
<1>7. QED
  BY <1>5, <1>6

\* At a shift the output side delivers what it holds.
LEMMA OutputShift ==
  ASSUME IInv, Flow, state = "shift", NEW inFirst, NEW outFirst \in SUBSET OutRaces,
         Sides(inFirst, outFirst), NEW t \in Ports
  PROVE  outs'[t] = outs[t] /\ qout'[t] = << >>
<1>1. qout[t] \in Seq(Packet) /\ received[t] \in Seq(Packet)
  <2>1. For(t) \subseteq Packet
    BY DEF For
  <2>2. QED
    BY <2>1 DEF IInv, Bounded
<1>2. t \notin outFirst /\ ~Arrives(t, qout[t]) /\ Arrived(t, qout[t]) = qout[t]
  BY DEF OutRaces, Arrives, Arrived
<1>3. outs[t] = received[t] \o qout[t] /\ outs'[t] = received'[t] \o qout'[t]
  BY DEF outs
<1>4. CASE qout[t] = << >>
  <2>1. ~Leaves(t, qout[t]) /\ Unloaded(t, qout[t]) = << >>
    BY <1>4 DEF Leaves, Unloaded
  <2>2. qout'[t] = << >> /\ received'[t] = received[t]
    BY <1>2, <2>1 DEF Sides, PortSees
  <2>3. QED
    BY <1>3, <1>4, <2>2
<1>5. CASE qout[t] # << >>
  <2>1. Len(qout[t]) <= 1 /\ out[t] = "idle"
    BY <1>5 DEF Flow, RoomOut
  <2>2. Leaves(t, qout[t]) /\ Unloaded(t, qout[t]) = Tail(qout[t])
    BY <1>5, <2>1 DEF Leaves, Unloaded
  <2>3. qout'[t] = Tail(qout[t]) /\ received'[t] = Append(received[t], Head(qout[t]))
    BY <1>2, <2>2 DEF Sides, PortSees
  <2>4. QED
    BY <1>1, <1>3, <1>5, <2>1, <2>3, HeadMoves, Singles
<1>6. QED
  BY <1>4, <1>5

\* At a shift a slot moves on, or takes the head of the port's queue.
LEMMA InputShift ==
  ASSUME IInv, Flow, state = "shift", clock = 0, NEW inFirst, NEW outFirst,
         Sides(inFirst, outFirst), NEW s \in Ports
  PROVE  LET seen == QinSeen(s, s \in inFirst)
         IN  IF Injects(s, seen)
             THEN /\ ring[Next1(s)].targets = {} /\ entered[s] + 1 <= Len(sent[s])
                  /\ LET pkt == sent[s][entered[s] + 1]
                     IN  ring'[s] = Slot(pkt, pkt.targets)
             ELSE ring'[s] = ring[Next1(s)]
<1> DEFINE seen == QinSeen(s, s \in inFirst)
<1>1. Part(s, seen, entered[s])
  <2>1. (s \in inFirst) \in BOOLEAN
    OBVIOUS
  <2>2. QED
    BY <2>1, QueuesPart
<1>2. CASE Injects(s, seen)
  <2>1. seen # << >> /\ ring[Next1(s)].targets = {}
    BY <1>2 DEF Injects
  <2>2. Head(seen) = sent[s][entered[s] + 1]
    BY <1>1, <2>1, TailPart
  <2>3. entered[s] + 1 <= Len(sent[s])
    <3>1. /\ seen \in Seq(Packet) /\ entered[s] \in Nat
          /\ entered[s] + Len(seen) <= Len(sent[s])
      BY <1>1 DEF Part
    <3>2. Len(sent[s]) \in Nat /\ Len(seen) \in Nat /\ Len(seen) >= 1
      BY <2>1, <3>1, FlowTyped DEF FlowType
    <3>3. QED
      BY <3>1, <3>2
  <2>4. ring'[s] = Slot(Head(seen), Head(seen).targets)
    BY <1>2 DEF Sides, RingAfter
  <2>5. QED
    BY <1>2, <2>1, <2>2, <2>3, <2>4
<1>3. CASE ~Injects(s, seen)
  BY <1>3 DEF Sides, RingAfter, Shifted
<1>4. QED
  BY <1>2, <1>3

\* How many packets have entered the ring after an edge, and the queue then.
LEMMA InputEdge ==
  ASSUME IInv, Flow, Posedge, NEW inFirst, NEW outFirst, Sides(inFirst, outFirst),
         NEW s \in Ports
  PROVE  /\ entered'[s] = IF Injects(s, QinSeen(s, s \in inFirst))
                          THEN entered[s] + 1 ELSE entered[s]
         /\ Part(s, qin'[s], entered'[s])
<1> DEFINE seen == QinSeen(s, s \in inFirst)
           k    == IF Injects(s, seen) THEN entered[s] + 1 ELSE entered[s]
<1>1. clock = 0 /\ clock' = 1 /\ drv' = drv /\ sent' = sent
  BY PosedgeSides
<1>2. qin'[s] = QinAfter(s, s \in inFirst)
  BY DEF Sides
<1>3. Part(s, qin'[s], k) /\ k + Len(qin'[s]) = Len(sent[s])
  <2>1. (s \in inFirst) \in BOOLEAN
    OBVIOUS
  <2>2. QED
    BY <1>1, <1>2, <2>1, QueuesPart
<1>4. loaded'[s] = Len(sent[s])
  BY <1>1 DEF loaded, sent
<1>5. entered'[s] = Len(sent[s]) - Len(qin'[s])
  BY <1>4 DEF entered
<1>6. k \in Nat /\ Len(qin'[s]) \in Nat
  <2>1. k \in Nat /\ qin'[s] \in Seq(Packet)
    BY <1>3 DEF Part
  <2>2. QED
    BY <2>1
<1>7. entered'[s] = k
  <2>1. k + Len(qin'[s]) = Len(sent[s])
    BY <1>3
  <2> HIDE DEF k
  <2>2. QED
    BY <2>1, <1>5, <1>6
<1>8. QED
  BY <1>3, <1>7

\* A port that does not load and is not suspended after the edge has room.
LEMMA RoomEdge ==
  ASSUME IInv, Flow, Posedge, NEW s \in Ports, ~valid_ip(s)', ~Suspended(s)'
  PROVE  Len(qin'[s]) < QMax
<1>1. PICK inFirst \in SUBSET InRaces, outFirst \in SUBSET OutRaces :
        Sides(inFirst, outFirst)
  BY PosedgeSides
<1>2. clock = 0 /\ drv' = drv
  BY PosedgeSides
<1>3. ~valid_ip(s)
  BY <1>2 DEF valid_ip
<1>4. (s \in inFirst) = FALSE
  BY <1>3 DEF InRaces
<1>5. Loaded(s, qin[s]) = qin[s] /\ qin'[s] = Taken(s, qin[s])
  <2>1. qin'[s] = QinAfter(s, FALSE)
    BY <1>1, <1>4 DEF Sides
  <2>2. QED
    BY <1>3, <2>1 DEF QinAfter, Loaded
<1>6. /\ Len(qin[s]) \in Nat /\ Len(qin'[s]) \in Nat /\ Len(qin'[s]) <= Len(qin[s])
  <2>1. qin[s] \in Seq(Packet)
    BY DEF IInv, Bounded
  <2>2. CASE Injects(s, qin[s])
    BY <1>5, <2>1, <2>2 DEF Taken, Injects
  <2>3. CASE ~Injects(s, qin[s])
    BY <1>5, <2>1, <2>3 DEF Taken
  <2>4. QED
    BY <2>2, <2>3
<1>7. CASE s # 0
  BY <1>6, <1>7, SwitchAssumption DEF Suspended
<1>8. CASE s = 0
  <2>1. suspend_ip' = FALSE
    BY <1>8, PosedgeIInv DEF Suspended, IInv
  <2>2. PICK q \in {qin[0], qin'[0]} : suspend_ip' = (Len(q) >= QMax)
    <3>1. suspend_ip' \in SuspendAfter(FALSE)
      BY <1>1, <1>4, <1>8 DEF Sides
    <3>2. QinAfter(0, FALSE) = qin'[0] /\ Taken(0, qin[0]) = qin'[0]
      BY <1>3, <1>5, <1>8 DEF QinAfter, Loaded
    <3>3. QED
      BY <3>1, <3>2 DEF SuspendAfter
  <2>3. ~(Len(q) >= QMax)
    BY <2>1, <2>2
  <2>4. QED
    BY <1>6, <1>8, <2>3, SwitchAssumption
<1>9. QED
  BY <1>7, <1>8

\* A positive edge is a check or a shift, and keeps the queues as they should be.
LEMMA PosedgeEdges ==
  ASSUME IInv, Flow, Posedge
  PROVE  /\ CheckEdge \/ ShiftEdge
         /\ RoomIn' /\ Queued' /\ RoomOut'
<1>1. PICK inFirst \in SUBSET InRaces, outFirst \in SUBSET OutRaces :
        Sides(inFirst, outFirst)
  BY PosedgeSides
<1>2. /\ clock = 0 /\ clock' = 1 /\ drv' = drv /\ sent' = sent
      /\ state' = IF state = "check" THEN "shift" ELSE "check"
      /\ state \in {"check", "shift"}
  BY PosedgeSides DEF IInv
<1>3. Queued'
  <2>1. ASSUME NEW s \in Ports PROVE Part(s, qin[s], entered[s])'
    <3>1. Part(s, qin'[s], entered'[s])
      BY <1>1, InputEdge
    <3>2. QED
      BY <1>2, <3>1 DEF Part
  <2>2. QED
    BY <2>1 DEF Queued
<1>4. RoomIn'
  BY <1>2, RoomEdge DEF RoomIn
<1>5. CASE state = "check"
  <2>1. \A s \in Ports : entered'[s] = entered[s]
    BY <1>1, <1>5, InputEdge DEF Injects
  <2>2. entered' = entered
    BY <2>1 DEF entered
  <2>3. CheckEdge
    BY <1>1, <1>2, <1>5, <2>2, OutputCheck DEF CheckEdge
  <2>4. RoomOut'
    BY <1>1, <1>2, <1>5, OutputCheck DEF RoomOut
  <2>5. QED
    BY <1>3, <1>4, <2>3, <2>4
<1>6. CASE state = "shift"
  <2>1. outs' = outs
    <3>1. \A t \in Ports : outs'[t] = outs[t]
      BY <1>1, <1>6, OutputShift
    <3>2. QED
      BY <3>1 DEF outs
  <2>2. RoomOut'
    BY <1>1, <1>2, <1>6, OutputShift DEF RoomOut
  <2>3. ASSUME NEW s \in Ports
        PROVE  PutsOn(s) \/ (ring'[s] = ring[Next1(s)] /\ entered'[s] = entered[s])
    <3>1. CASE Injects(s, QinSeen(s, s \in inFirst))
      BY <1>1, <1>2, <1>6, <3>1, InputShift, InputEdge DEF PutsOn
    <3>2. CASE ~Injects(s, QinSeen(s, s \in inFirst))
      BY <1>1, <1>2, <1>6, <3>2, InputShift, InputEdge
    <3>3. QED
      BY <3>1, <3>2
  <2>4. DOMAIN entered' = Ports
    BY DEF entered
  <2>5. ShiftEdge
    BY <1>2, <1>6, <2>1, <2>3, <2>4 DEF ShiftEdge
  <2>6. QED
    BY <1>3, <1>4, <2>2, <2>5
<1>7. QED
  BY <1>2, <1>5, <1>6

-----------------------------------------------------------------------------
(***************************************************************************)
(* Checks and shifts keep the packets in order and lose none.              *)
(***************************************************************************)
Journey == OnRing /\ RingOrder /\ OffRing /\ OutOrder /\ Behind /\ NoneLost

LEMMA SlotIs ==
  ASSUME NEW pkt, NEW targets
  PROVE  /\ Slot(pkt, targets).targets = targets
         /\ targets # {} => Slot(pkt, targets).pkt = pkt
  BY DEF Slot

\* A check takes from a slot its own port and nothing else.
LEMMA CheckSlot ==
  ASSUME CheckEdge, NEW q \in Ports
  PROVE  /\ ring'[q].targets = ring[q].targets \ {q}
         /\ ring'[q].targets # {} => ring'[q].pkt = ring[q].pkt
<1>1. CASE q \in ring[q].targets
  <2>1. ring'[q] = Slot(ring[q].pkt, ring[q].targets \ {q})
    BY <1>1 DEF CheckEdge, TakesOff
  <2>2. QED
    BY <2>1, SlotIs
<1>2. CASE q \notin ring[q].targets
  <2>1. ring'[q] = ring[q]
    BY <1>2 DEF CheckEdge
  <2>2. QED
    BY <1>2, <2>1
<1>3. QED
  BY <1>1, <1>2

\* What a port has taken off after a check.
LEMMA CheckOut ==
  ASSUME FlowType, CheckEdge, NEW t \in Ports
  PROVE  IF t \in ring[t].targets
         THEN /\ Len(outs'[t]) = Len(outs[t]) + 1 /\ Len(outs[t]) \in Nat
              /\ \A i \in 1 .. Len(outs[t]) : outs'[t][i] = outs[t][i]
              /\ outs'[t][Len(outs[t]) + 1] = ring[t].pkt
         ELSE outs'[t] = outs[t]
<1>1. outs[t] \in Seq(Packet) /\ ring[t].pkt \in Packet
  BY DEF FlowType
<1>2. CASE t \in ring[t].targets
  <2>1. outs'[t] = Append(outs[t], ring[t].pkt)
    BY <1>2 DEF CheckEdge, TakesOff
  <2>2. QED
    BY <1>1, <1>2, <2>1
<1>3. CASE t \notin ring[t].targets
  BY <1>3 DEF CheckEdge
<1>4. QED
  BY <1>2, <1>3

\* A packet that comes off at a check is later than what has come off there.
LEMMA CheckOutIs ==
  ASSUME FlowType, CheckEdge, NEW t \in Ports, NEW i \in 1 .. Len(outs'[t])
  PROVE  \/ i \in 1 .. Len(outs[t]) /\ outs'[t][i] = outs[t][i]
         \/ t \in ring[t].targets /\ i = Len(outs[t]) + 1 /\ outs'[t][i] = ring[t].pkt
<1>1. Len(outs[t]) \in Nat
  BY DEF FlowType
<1>2. CASE t \in ring[t].targets
  <2>1. /\ Len(outs'[t]) = Len(outs[t]) + 1
        /\ \A j \in 1 .. Len(outs[t]) : outs'[t][j] = outs[t][j]
        /\ outs'[t][Len(outs[t]) + 1] = ring[t].pkt
    BY <1>2, CheckOut
  <2>2. i \in 1 .. Len(outs[t]) \/ i = Len(outs[t]) + 1
    BY <1>1, <2>1
  <2>3. QED
    BY <1>2, <2>1, <2>2
<1>3. CASE t \notin ring[t].targets
  BY <1>3, CheckOut
<1>4. QED
  BY <1>2, <1>3

LEMMA CheckJourney ==
  ASSUME FlowType, Journey, CheckEdge PROVE Journey'
<1>1. /\ sent' = sent /\ entered' = entered /\ state = "check" /\ state' = "shift"
  BY DEF CheckEdge
<1>2. OnRing'
  <2>1. ASSUME NEW q \in Ports, NEW t \in ring'[q].targets
        PROVE  /\ Entered(ring'[q].pkt, entered', sent')
               /\ Dist(ring'[q].pkt.src, q) <= Dist(ring'[q].pkt.src, t)
               /\ t # q
    <3>1. t \in ring[q].targets /\ t # q /\ ring'[q].pkt = ring[q].pkt
      BY CheckSlot
    <3>2. QED
      BY <1>1, <3>1 DEF Journey, OnRing
  <2>2. QED
    BY <2>1 DEF OnRing
<1>3. RingOrder'
  <2>1. \A q \in Ports : ring'[q].targets # {} =>
          ring'[q].pkt = ring[q].pkt /\ ring[q].targets # {}
    BY CheckSlot
  <2>2. QED
    BY <2>1 DEF Journey, RingOrder
<1>4. OffRing'
  <2>1. ASSUME NEW t \in Ports, NEW i \in 1 .. Len(outs'[t])
        PROVE  Entered(outs'[t][i], entered', sent')
    BY <1>1, CheckOutIs DEF Journey, OffRing, OnRing
  <2>2. QED
    BY <2>1 DEF OffRing
<1>5. OutOrder'
  <2>1. ASSUME NEW t \in Ports, NEW i \in 1 .. Len(outs'[t]), NEW j \in 1 .. Len(outs'[t]),
               i < j, outs'[t][i].src = outs'[t][j].src
        PROVE  outs'[t][i].num < outs'[t][j].num
    <3>1. Len(outs[t]) \in Nat
      BY DEF FlowType
    <3>2. CASE j \in 1 .. Len(outs[t]) /\ outs'[t][j] = outs[t][j]
      <4>1. i # Len(outs[t]) + 1
        BY <2>1, <3>1, <3>2
      <4>2. i \in 1 .. Len(outs[t]) /\ outs'[t][i] = outs[t][i]
        BY <4>1, CheckOutIs
      <4>3. QED
        BY <2>1, <3>2, <4>2 DEF Journey, OutOrder
    <3>3. CASE t \in ring[t].targets /\ j = Len(outs[t]) + 1 /\ outs'[t][j] = ring[t].pkt
      <4>1. i # Len(outs[t]) + 1
        BY <2>1, <3>1, <3>3
      <4>2. i \in 1 .. Len(outs[t]) /\ outs'[t][i] = outs[t][i]
        BY <4>1, CheckOutIs
      <4>3. QED
        BY <2>1, <3>3, <4>2 DEF Journey, Behind
    <3>4. QED
      BY <3>2, <3>3, CheckOutIs
  <2>2. QED
    BY <2>1 DEF OutOrder
<1>6. Behind'
  <2>1. ASSUME NEW t \in Ports, NEW q \in Ports, t \in ring'[q].targets,
               NEW i \in 1 .. Len(outs'[t]), outs'[t][i].src = ring'[q].pkt.src
        PROVE  outs'[t][i].num < ring'[q].pkt.num
    <3>1. t \in ring[q].targets /\ t # q /\ ring'[q].pkt = ring[q].pkt
      BY <2>1, CheckSlot
    <3>2. CASE i \in 1 .. Len(outs[t]) /\ outs'[t][i] = outs[t][i]
      BY <2>1, <3>1, <3>2 DEF Journey, Behind
    <3>3. CASE t \in ring[t].targets /\ outs'[t][i] = ring[t].pkt
      <4>1. ring[q].pkt.src \in Ports /\ ring[q].pkt.src = ring[t].pkt.src
        BY <2>1, <3>1, <3>3 DEF FlowType, Packet
      <4>2. Dist(ring[q].pkt.src, q) <= Dist(ring[q].pkt.src, t)
        BY <3>1 DEF Journey, OnRing
      <4>3. Dist(ring[q].pkt.src, q) # Dist(ring[q].pkt.src, t)
        BY <3>1, <4>1, DistanceInjective
      <4>4. Dist(ring[q].pkt.src, q) < Dist(ring[q].pkt.src, t)
        <5>1. /\ Dist(ring[q].pkt.src, q) \in Nat
              /\ Dist(ring[q].pkt.src, t) \in Nat
          BY <4>1, Distance
        <5>2. QED
          BY <4>2, <4>3, <5>1
      <4>5. ring[t].pkt.num < ring[q].pkt.num
        BY <3>1, <3>3, <4>1, <4>4 DEF Journey, RingOrder
      <4>6. QED
        BY <3>1, <3>3, <4>5
    <3>4. QED
      BY <3>2, <3>3, CheckOutIs
  <2>2. QED
    BY <2>1 DEF Behind
<1>7. NoneLost'
  <2>1. ASSUME NEW s \in Ports, NEW n \in 1 .. entered[s],
               NEW t \in sent[s][n].targets, t \in Ports
        PROVE  OnItsWay(sent[s][n], t)' \/ IsOut(sent[s][n], t)'
    <3>1. CASE OnItsWay(sent[s][n], t)
      <4>1. PICK q \in Ports : t \in ring[q].targets /\ ring[q].pkt = sent[s][n]
        BY <3>1 DEF OnItsWay
      <4>2. CASE t = q
        <5>1. /\ Len(outs'[t]) = Len(outs[t]) + 1 /\ Len(outs[t]) \in Nat
              /\ outs'[t][Len(outs[t]) + 1] = ring[t].pkt
          BY <2>1, <4>1, <4>2, CheckOut
        <5>2. Len(outs[t]) + 1 \in 1 .. Len(outs'[t])
          BY <5>1
        <5>3. QED
          BY <1>1, <4>1, <4>2, <5>1, <5>2 DEF IsOut
      <4>3. CASE t # q
        <5>1. t \in ring'[q].targets /\ ring'[q].pkt = ring[q].pkt
          BY <4>1, <4>3, CheckSlot
        <5>2. QED
          BY <1>1, <4>1, <5>1 DEF OnItsWay
      <4>4. QED
        BY <4>2, <4>3
    <3>2. CASE IsOut(sent[s][n], t)
      <4>1. PICK i \in 1 .. Len(outs[t]) : outs[t][i] = sent[s][n]
        BY <3>2 DEF IsOut
      <4>2. i \in 1 .. Len(outs'[t]) /\ outs'[t][i] = outs[t][i]
        <5>1. Len(outs[t]) \in Nat
          BY <2>1 DEF FlowType
        <5>2. CASE t \in ring[t].targets
          BY <2>1, <5>1, <5>2, CheckOut
        <5>3. CASE t \notin ring[t].targets
          BY <2>1, <5>3, CheckOut
        <5>4. QED
          BY <5>2, <5>3
      <4>3. QED
        BY <1>1, <4>1, <4>2 DEF IsOut
    <3>3. QED
      BY <3>1, <3>2 DEF Journey, NoneLost
  <2>2. ASSUME NEW s \in Ports, NEW n \in 1 .. entered[s], NEW t \in sent[s][n].targets
        PROVE  t \in Ports
    <3>1. n \in 1 .. Len(sent[s]) /\ sent[s] \in Seq(Packet)
      BY DEF FlowType
    <3>2. sent[s][n] \in Packet
      BY <3>1
    <3>3. QED
      BY <3>2 DEF Packet
  <2>3. QED
    BY <1>1, <2>1, <2>2 DEF NoneLost
<1>8. QED
  BY <1>2, <1>3, <1>4, <1>5, <1>6, <1>7 DEF Journey

\* Counts of packets that have entered only grow, one at a time.
LEMMA ShiftEntered ==
  ASSUME IInv, Flow, ShiftEdge, NEW s \in Ports
  PROVE  /\ entered[s] \in Nat /\ entered'[s] \in Nat /\ entered[s] <= entered'[s]
         /\ entered'[s] = entered[s] \/ entered'[s] = entered[s] + 1
<1>1. entered[s] \in Nat
  BY DEF Flow, Queued, Part
<1>2. entered'[s] = entered[s] \/ entered'[s] = entered[s] + 1
  BY DEF ShiftEdge, PutsOn
<1>3. QED
  BY <1>1, <1>2

\* A slot that is not empty after a shift has come one further, or holds the
\* packet that its port has put on.
MovesTo(q, s) == /\ ring'[q] = ring[Next1(q)] /\ ring'[q].pkt.src = s
                 /\ Dist(s, q) = Dist(s, Next1(q)) + 1

EntersAt(q, s) == /\ q = s /\ entered'[s] = entered[s] + 1
                  /\ ring'[q].pkt = sent[s][entered'[s]]
                  /\ ring'[q].pkt.src = s /\ ring'[q].pkt.num = entered'[s]

LEMMA ShiftSlot ==
  ASSUME IInv, Flow, ShiftEdge, NEW q \in Ports, NEW t \in ring'[q].targets, t \in Ports
  PROVE  \E s \in Ports : /\ Dist(s, q) <= Dist(s, t)
                          /\ MovesTo(q, s) \/ EntersAt(q, s)
<1>1. CASE PutsOn(q)
  <2> DEFINE pkt == sent[q][entered'[q]]
  <2>1. ring'[q] = Slot(pkt, pkt.targets) /\ entered'[q] = entered[q] + 1
    BY <1>1 DEF PutsOn
  <2>2. ring'[q].pkt = pkt
    BY <2>1, SlotIs
  <2>3. entered'[q] \in 1 .. Len(sent[q])
    <3>1. entered[q] \in Nat /\ entered'[q] <= Len(sent[q]) /\ Len(sent[q]) \in Nat
      BY <1>1, ShiftEntered, FlowTyped DEF PutsOn, FlowType
    <3>2. QED
      BY <2>1, <3>1
  <2>4. pkt.src = q /\ pkt.num = entered'[q]
    BY <2>3 DEF Flow, Numbered
  <2>5. EntersAt(q, q)
    BY <2>1, <2>2, <2>4 DEF EntersAt
  <2>6. Dist(q, q) <= Dist(q, t)
    <3>1. Dist(q, q) = 0 /\ Dist(q, t) \in Nat
      BY Distance
    <3>2. QED
      BY <3>1
  <2>7. QED
    BY <2>5, <2>6
<1>2. CASE ring'[q] = ring[Next1(q)]
  <2> DEFINE s == ring[Next1(q)].pkt.src
             r == Next1(q)
  <2>1. r \in Ports /\ s \in Ports
    <3>1. r \in Ports
      BY NextPort
    <3>2. ring[r].pkt \in Packet
      BY <3>1, FlowTyped DEF FlowType
    <3>3. QED
      BY <3>1, <3>2 DEF Packet
  <2>2. Dist(s, r) <= Dist(s, t) /\ t # r
    BY <1>2, <2>1 DEF Flow, OnRing, ShiftEdge
  <2>3. Dist(s, r) # Dist(s, t)
    BY <2>1, <2>2, DistanceInjective
  <2>4. Dist(s, r) \in Nat /\ Dist(s, t) \in Nat /\ Dist(s, t) < NumPorts
    BY <2>1, Distance
  <2> HIDE DEF s, r
  <2>5. Dist(s, r) + 1 <= Dist(s, t) /\ Dist(s, r) # NumPorts - 1
    BY <2>2, <2>3, <2>4, SwitchAssumption
  <2>6. Dist(s, q) = Dist(s, r) + 1
    BY <2>1, <2>5, DistanceNext DEF r
  <2>7. MovesTo(q, s)
    BY <1>2, <2>6 DEF MovesTo, s, r
  <2>8. QED
    BY <2>1, <2>5, <2>6, <2>7
<1>3. QED
  BY <1>1, <1>2 DEF ShiftEdge

LEMMA EnteredStays ==
  ASSUME IInv, Flow, ShiftEdge, NEW pkt, pkt.src \in Ports, Entered(pkt, entered, sent)
  PROVE  Entered(pkt, entered', sent') /\ pkt.num <= entered[pkt.src] /\ pkt.num \in Nat
<1>1. /\ entered[pkt.src] \in Nat /\ entered'[pkt.src] \in Nat
      /\ entered[pkt.src] <= entered'[pkt.src]
  BY ShiftEntered
<1>2. sent' = sent
  BY DEF ShiftEdge
<1>3. pkt.num \in 1 .. entered[pkt.src] /\ pkt = sent[pkt.src][pkt.num]
  BY DEF Entered
<1>4. pkt.num \in 1 .. entered'[pkt.src]
  BY <1>1, <1>3
<1>5. QED
  BY <1>1, <1>2, <1>3, <1>4 DEF Entered

LEMMA ShiftJourney ==
  ASSUME IInv, IInv', Flow, ShiftEdge PROVE Journey'
<1>1. sent' = sent /\ outs' = outs /\ state = "shift" /\ state' = "check"
  BY DEF ShiftEdge
<1>2. \A q \in Ports : ring'[q].targets \subseteq Ports
  BY DEF IInv, SlotType
<1>3. OnRing'
  <2>1. ASSUME NEW q \in Ports, NEW t \in ring'[q].targets
        PROVE  /\ Entered(ring'[q].pkt, entered', sent')
               /\ Dist(ring'[q].pkt.src, q) <= Dist(ring'[q].pkt.src, t)
    <3>1. PICK s \in Ports : /\ Dist(s, q) <= Dist(s, t)
                             /\ MovesTo(q, s) \/ EntersAt(q, s)
      BY <1>2, ShiftSlot
    <3>2. ring'[q].pkt.src = s
      BY <3>1 DEF MovesTo, EntersAt
    <3>3. CASE MovesTo(q, s)
      <4>1. /\ Entered(ring[Next1(q)].pkt, entered, sent)
            /\ ring'[q] = ring[Next1(q)]
        BY <3>3, NextPort DEF MovesTo, Flow, OnRing
      <4>2. QED
        BY <3>1, <3>2, <4>1, EnteredStays
    <3>4. CASE EntersAt(q, s)
      <4>1. entered'[s] \in 1 .. entered'[s]
        BY <3>4, ShiftEntered DEF EntersAt
      <4>2. Entered(ring'[q].pkt, entered', sent)
        BY <3>4, <4>1 DEF Entered, EntersAt
      <4>3. QED
        BY <1>1, <3>1, <3>2, <4>2
    <3>5. QED
      BY <3>1, <3>3, <3>4
  <2>2. QED
    BY <1>1, <2>1 DEF OnRing
<1>4. RingOrder'
  <2>1. ASSUME NEW q \in Ports, NEW r \in Ports, NEW t \in ring'[q].targets,
               NEW u \in ring'[r].targets, ring'[q].pkt.src = ring'[r].pkt.src,
               Dist(ring'[q].pkt.src, q) < Dist(ring'[q].pkt.src, r)
        PROVE  ring'[r].pkt.num < ring'[q].pkt.num
    <3>1. PICK s \in Ports : MovesTo(q, s) \/ EntersAt(q, s)
      BY <1>2, ShiftSlot
    <3>2. PICK s2 \in Ports : MovesTo(r, s2) \/ EntersAt(r, s2)
      BY <1>2, ShiftSlot
    <3>3. ring'[q].pkt.src = s /\ s2 = s /\ ring'[r].pkt.src = s
      BY <2>1, <3>1, <3>2 DEF MovesTo, EntersAt
    <3>4. Dist(s, q) < Dist(s, r) /\ Dist(s, s) = 0 /\ Dist(s, q) \in Nat
      BY <2>1, <3>3, Distance
    <3>5. MovesTo(r, s)
      <4>0. r # s
        BY <3>4
      <4>1. ~EntersAt(r, s)
        BY <4>0 DEF EntersAt
      <4>2. QED
        BY <3>2, <3>3, <4>1
    <3>6. Next1(q) \in Ports /\ Next1(r) \in Ports
      BY NextPort
    <3>7. CASE MovesTo(q, s)
      <4>1. /\ ring'[q] = ring[Next1(q)] /\ ring'[r] = ring[Next1(r)]
            /\ Dist(s, q) = Dist(s, Next1(q)) + 1 /\ Dist(s, r) = Dist(s, Next1(r)) + 1
        BY <3>5, <3>7 DEF MovesTo
      <4>2. Dist(s, Next1(q)) \in Nat /\ Dist(s, Next1(r)) \in Nat
        BY <3>6, Distance
      <4>3. Dist(s, Next1(q)) < Dist(s, Next1(r))
        BY <3>4, <4>1, <4>2
      <4>4. /\ ring[Next1(q)].targets # {} /\ ring[Next1(r)].targets # {}
            /\ ring[Next1(q)].pkt.src = s /\ ring[Next1(r)].pkt.src = s
        BY <2>1, <3>3, <4>1
      <4>5. ring[Next1(r)].pkt.num < ring[Next1(q)].pkt.num
        BY <3>6, <4>3, <4>4 DEF Flow, RingOrder
      <4>6. QED
        BY <4>1, <4>5
    <3>8. CASE EntersAt(q, s)
      <4>1. ring'[r].pkt.num <= entered[s] /\ ring'[r].pkt.num \in Nat
        <5>1. Entered(ring[Next1(r)].pkt, entered, sent) /\ ring'[r] = ring[Next1(r)]
          BY <2>1, <3>5, <3>6 DEF MovesTo, Flow, OnRing
        <5>2. QED
          BY <3>3, <5>1, EnteredStays
      <4>2. ring'[q].pkt.num = entered[s] + 1 /\ entered[s] \in Nat
        BY <3>8, ShiftEntered DEF EntersAt
      <4>3. QED
        BY <4>1, <4>2
    <3>9. QED
      BY <3>1, <3>7, <3>8
  <2>2. QED
    BY <2>1 DEF RingOrder
<1>5. OffRing'
  <2>1. ASSUME NEW t \in Ports, NEW i \in 1 .. Len(outs[t])
        PROVE  Entered(outs[t][i], entered', sent')
    <3>1. outs[t][i].src \in Ports
      <4>1. outs[t] \in Seq(Packet)
        BY FlowTyped DEF FlowType
      <4>2. outs[t][i] \in Packet
        BY <4>1
      <4>3. QED
        BY <4>2 DEF Packet
    <3>2. QED
      BY <3>1, EnteredStays DEF Flow, OffRing
  <2>2. QED
    BY <1>1, <2>1 DEF OffRing
<1>6. OutOrder'
  BY <1>1 DEF Flow, OutOrder
<1>7. Behind'
  <2>1. ASSUME NEW t \in Ports, NEW q \in Ports, t \in ring'[q].targets,
               NEW i \in 1 .. Len(outs[t]), outs[t][i].src = ring'[q].pkt.src
        PROVE  outs[t][i].num < ring'[q].pkt.num
    <3>1. PICK s \in Ports : MovesTo(q, s) \/ EntersAt(q, s)
      BY <2>1, ShiftSlot
    <3>2. CASE MovesTo(q, s)
      BY <2>1, <3>2, NextPort DEF MovesTo, Flow, Behind
    <3>3. CASE EntersAt(q, s)
      <4>1. outs[t][i].src = s
        BY <2>1, <3>3 DEF EntersAt
      <4>2. outs[t][i].num <= entered[s] /\ outs[t][i].num \in Nat
        BY <4>1, EnteredStays DEF Flow, OffRing
      <4>3. ring'[q].pkt.num = entered[s] + 1 /\ entered[s] \in Nat
        BY <3>3, ShiftEntered DEF EntersAt
      <4>4. QED
        BY <4>2, <4>3
    <3>4. QED
      BY <3>1, <3>2, <3>3
  <2>2. QED
    BY <1>1, <2>1 DEF Behind
<1>8. NoneLost'
  <2>1. ASSUME NEW s \in Ports, NEW n \in 1 .. entered'[s], NEW t \in sent[s][n].targets
        PROVE  OnItsWay(sent[s][n], t)' \/ IsOut(sent[s][n], t)'
    <3>1. CASE n \in 1 .. entered[s]
      <4>1. CASE OnItsWay(sent[s][n], t)
        <5>1. PICK r \in Ports : t \in ring[r].targets /\ ring[r].pkt = sent[s][n]
          BY <4>1 DEF OnItsWay
        <5>2. PICK q \in Ports : Next1(q) = r
          BY Before
        <5>3. ring'[q] = ring[r]
          BY <5>1, <5>2 DEF ShiftEdge, PutsOn
        <5>4. QED
          BY <1>1, <5>1, <5>3 DEF OnItsWay
      <4>2. CASE IsOut(sent[s][n], t)
        BY <1>1, <4>2 DEF IsOut
      <4>3. QED
        BY <3>1, <4>1, <4>2 DEF Flow, NoneLost
    <3>2. CASE n \notin 1 .. entered[s]
      <4>1. n = entered'[s] /\ entered'[s] # entered[s]
        BY <3>2, ShiftEntered
      <4>2. ring'[s] = Slot(sent[s][n], sent[s][n].targets)
        BY <4>1 DEF ShiftEdge, PutsOn
      <4>3. t \in ring'[s].targets /\ ring'[s].pkt = sent[s][n]
        BY <4>2, SlotIs
      <4>4. QED
        BY <1>1, <4>3 DEF OnItsWay
    <3>3. QED
      BY <3>1, <3>2
  <2>2. QED
    BY <1>1, <2>1 DEF NoneLost
<1>9. QED
  BY <1>3, <1>4, <1>5, <1>6, <1>7, <1>8 DEF Journey

-----------------------------------------------------------------------------
(***************************************************************************)
(* The drivers hand packets over one by one.                               *)
(***************************************************************************)

\* A driver starts on its next packet, or has the packets it had.
LEMMA DriverStep ==
  ASSUME IInv, Negedge, NEW s \in Ports
  PROVE  \/ \E targets \in SUBSET Ports :
              /\ CanStart(s) /\ valid_ip(s)'
              /\ sent'[s] = Append(sent[s], [src |-> s, num |-> Len(sent[s]) + 1,
                                             targets |-> targets])
         \/ /\ ~CanStart(s) /\ sent'[s] = sent[s]
            /\ IF valid_ip(s) /\ Suspended(s) THEN valid_ip(s)' ELSE ~valid_ip(s)'
<1>1. PICK target \in [{p \in Ports : CanStart(p)} -> SUBSET Ports] :
        drv' = Drivers(target)
  BY DEF Negedge
<1>2. sent[s] = drv[s].sent /\ sent'[s] = drv'[s].sent
  BY DEF sent
<1>3. drv[s] \in [pc : {"ready", "drive", "rest"}, left : Int, sent : Seq(Packet)]
  BY DEF IInv, DriverType
<1>4. CASE CanStart(s)
  <2>1. target[s] \in SUBSET Ports
    BY <1>4
  <2>2. drv'[s] = [pc |-> "drive", left |-> 0,
                   sent |-> Append(drv[s].sent, [src |-> s,
                                                 num |-> Len(drv[s].sent) + 1,
                                                 targets |-> target[s]])]
    BY <1>1, <1>4 DEF Drivers, CanStart
  <2>3. valid_ip(s)' /\ sent'[s] = Append(sent[s], [src |-> s, num |-> Len(sent[s]) + 1,
                                                   targets |-> target[s]])
    BY <1>2, <2>2 DEF valid_ip
  <2>4. QED
    BY <1>4, <2>1, <2>3
<1>5. CASE ~CanStart(s)
  <2>1. CASE valid_ip(s) /\ ~Suspended(s)
    <3>1. drv'[s] = [drv[s] EXCEPT !.pc = "rest", !.left = RestCycles]
      BY <1>1, <1>5, <2>1 DEF Drivers, CanStart, valid_ip
    <3>2. drv'[s].pc = "rest" /\ drv'[s].sent = drv[s].sent
      BY <1>3, <3>1
    <3>3. QED
      BY <1>2, <1>5, <2>1, <3>2 DEF valid_ip
  <2>2. CASE valid_ip(s) /\ Suspended(s)
    <3>1. drv'[s] = drv[s]
      BY <1>1, <1>5, <2>2 DEF Drivers, CanStart, valid_ip
    <3>2. QED
      BY <1>2, <1>5, <2>2, <3>1 DEF valid_ip
  <2>3. CASE ~valid_ip(s)
    <3>1. \/ drv'[s] = [drv[s] EXCEPT !.left = drv[s].left - 1]
          \/ drv'[s] = [drv[s] EXCEPT !.pc = "ready", !.left = 0]
          \/ drv'[s] = drv[s]
      <4>1. drv[s].pc # "drive"
        BY <2>3 DEF valid_ip
      <4>2. \/ Drivers(target)[s] = [drv[s] EXCEPT !.pc = "rest", !.left = RestCycles]
               /\ drv[s].pc = "drive"
            \/ Drivers(target)[s] = [drv[s] EXCEPT !.left = drv[s].left - 1]
            \/ Drivers(target)[s] = [drv[s] EXCEPT !.pc = "ready", !.left = 0]
            \/ Drivers(target)[s] = drv[s]
        BY <1>5 DEF Drivers
      <4>3. QED
        BY <1>1, <4>1, <4>2
    <3>2. drv'[s].pc # "drive" /\ drv'[s].sent = drv[s].sent
      BY <1>3, <2>3, <3>1 DEF valid_ip
    <3>3. QED
      BY <1>2, <1>5, <2>3, <3>2 DEF valid_ip
  <2>4. QED
    BY <2>1, <2>2, <2>3
<1>6. QED
  BY <1>4, <1>5

\* The packet that is appended is numbered, and the others stay.
LEMMA SentStep ==
  ASSUME IInv, Numbered, Negedge, NEW s \in Ports
  PROVE  /\ Len(sent'[s]) \in Nat /\ Len(sent[s]) \in Nat /\ Len(sent[s]) <= Len(sent'[s])
         /\ \A i \in 1 .. Len(sent[s]) : sent'[s][i] = sent[s][i]
         /\ \A i \in 1 .. Len(sent'[s]) : sent'[s][i].src = s /\ sent'[s][i].num = i
         /\ CanStart(s) => Len(sent'[s]) = Len(sent[s]) + 1
         /\ ~CanStart(s) => sent'[s] = sent[s]
<1>1. sent[s] \in Seq(Packet) /\ Len(sent[s]) \in Nat
  BY FlowTyped DEF FlowType
<1>2. \A i \in 1 .. Len(sent[s]) : sent[s][i].src = s /\ sent[s][i].num = i
  BY DEF Numbered
<1>3. ASSUME NEW targets \in SUBSET Ports,
             sent'[s] = Append(sent[s], [src |-> s, num |-> Len(sent[s]) + 1,
                                         targets |-> targets])
      PROVE  /\ Len(sent'[s]) = Len(sent[s]) + 1
             /\ \A i \in 1 .. Len(sent[s]) : sent'[s][i] = sent[s][i]
             /\ sent'[s][Len(sent[s]) + 1].src = s
             /\ sent'[s][Len(sent[s]) + 1].num = Len(sent[s]) + 1
  <2> DEFINE pkt == [src |-> s, num |-> Len(sent[s]) + 1, targets |-> targets]
  <2>1. pkt \in Packet /\ pkt.src = s /\ pkt.num = Len(sent[s]) + 1
    BY <1>1 DEF Packet
  <2> HIDE DEF pkt
  <2>2. sent'[s] = Append(sent[s], pkt)
    BY <1>3 DEF pkt
  <2>3. QED
    BY <1>1, <2>1, <2>2
<1>4. CASE CanStart(s)
  <2>1. /\ Len(sent'[s]) = Len(sent[s]) + 1
        /\ \A i \in 1 .. Len(sent[s]) : sent'[s][i] = sent[s][i]
        /\ sent'[s][Len(sent[s]) + 1].src = s
        /\ sent'[s][Len(sent[s]) + 1].num = Len(sent[s]) + 1
    BY <1>3, <1>4, DriverStep
  <2>2. \A i \in 1 .. Len(sent'[s]) : i \in 1 .. Len(sent[s]) \/ i = Len(sent[s]) + 1
    BY <1>1, <2>1
  <2>3. Len(sent'[s]) \in Nat /\ Len(sent[s]) <= Len(sent'[s])
    BY <1>1, <2>1
  <2>4. QED
    BY <1>1, <1>2, <1>4, <2>1, <2>2, <2>3
<1>5. CASE ~CanStart(s)
  <2>1. sent'[s] = sent[s]
    BY <1>5, DriverStep
  <2>2. QED
    BY <1>1, <1>2, <1>5, <2>1
<1>6. QED
  BY <1>4, <1>5

LEMMA NegedgeFlow == ASSUME IInv, Flow, NotHeld, Negedge PROVE Flow'
<1>1. /\ clock = 1 /\ clock' = 0 /\ outs' = outs
      /\ UNCHANGED <<state, ring, qin, qout, suspend_ip, out, received>>
  BY DEF Negedge, outs
<1>2. entered' = entered
  <2>1. ASSUME NEW s \in Ports PROVE loaded'[s] = loaded[s]
    <3>1. loaded[s] = Len(sent[s])
      BY <1>1 DEF loaded, sent
    <3>2. loaded'[s] = IF valid_ip(s)' THEN Len(sent'[s]) - 1 ELSE Len(sent'[s])
      BY <1>1 DEF loaded, sent, valid_ip
    <3>3. CASE CanStart(s)
      <4>1. valid_ip(s)' /\ Len(sent'[s]) = Len(sent[s]) + 1 /\ Len(sent[s]) \in Nat
        BY <3>3, DriverStep, SentStep DEF Flow
      <4>2. Len(sent'[s]) - 1 = Len(sent[s])
        BY <4>1
      <4>3. QED
        BY <3>1, <3>2, <4>1, <4>2
    <3>4. CASE ~CanStart(s)
      <4>1. ~valid_ip(s)' /\ sent'[s] = sent[s]
        BY <1>1, <3>4, DriverStep DEF NotHeld
      <4>2. QED
        BY <3>1, <3>2, <4>1
    <3>5. QED
      BY <3>3, <3>4
  <2>2. QED
    BY <1>1, <2>1 DEF entered
<1>3. ASSUME NEW s \in Ports
      PROVE  /\ Len(sent'[s]) \in Nat /\ Len(sent[s]) \in Nat
             /\ Len(sent[s]) <= Len(sent'[s]) /\ entered[s] <= Len(sent[s])
             /\ entered[s] \in Nat
             /\ \A i \in 1 .. Len(sent[s]) : sent'[s][i] = sent[s][i]
  BY SentStep, FlowTyped DEF Flow, FlowType, Queued, Part
<1>4. \A s \in Ports : \A n \in 1 .. entered[s] : sent'[s][n] = sent[s][n]
  <2>1. \A s \in Ports : \A n \in 1 .. entered[s] : n \in 1 .. Len(sent[s])
    BY <1>3
  <2>2. QED
    BY <1>3, <2>1
<1>5. ASSUME NEW pkt, pkt.src \in Ports, Entered(pkt, entered, sent)
      PROVE  Entered(pkt, entered', sent')
  BY <1>2, <1>4, <1>5 DEF Entered
<1>6. Numbered'
  BY SentStep DEF Flow, Numbered
<1>7. RoomIn'
  <2>1. ASSUME NEW s \in Ports, valid_ip(s)' PROVE Len(qin[s]) < QMax
    <3>1. CanStart(s)
      BY <1>1, <2>1, DriverStep DEF NotHeld
    <3>2. QED
      BY <1>1, <3>1 DEF CanStart, valid_ip, Flow, RoomIn
  <2>2. QED
    BY <1>1, <2>1 DEF RoomIn
<1>8. Queued'
  <2>1. ASSUME NEW s \in Ports PROVE Part(s, qin[s], entered[s])'
    <3>1. /\ qin[s] \in Seq(Packet) /\ entered[s] + Len(qin[s]) <= Len(sent[s])
          /\ \A i \in 1 .. Len(qin[s]) : qin[s][i] = sent[s][entered[s] + i]
      BY DEF Flow, Queued, Part
    <3>2. \A i \in 1 .. Len(qin[s]) : entered[s] + i \in 1 .. Len(sent[s])
      <4>1. Len(qin[s]) \in Nat
        BY <3>1
      <4>2. entered[s] + Len(qin[s]) <= Len(sent[s])
        BY <3>1
      <4>3. QED
        BY <1>3, <4>1, <4>2
    <3>3. entered[s] + Len(qin[s]) <= Len(sent'[s])
      <4>1. Len(qin[s]) \in Nat
        BY <3>1
      <4>2. QED
        BY <1>3, <3>1, <4>1
    <3>4. \A i \in 1 .. Len(qin[s]) : qin[s][i] = sent'[s][entered[s] + i]
      BY <1>3, <3>1, <3>2
    <3>5. QED
      BY <1>1, <1>2, <1>3, <3>1, <3>3, <3>4 DEF Part
  <2>2. QED
    BY <2>1 DEF Queued
<1>9. RoomOut' /\ RingOrder' /\ OutOrder' /\ Behind'
  BY <1>1 DEF Flow, RoomOut, RingOrder, OutOrder, Behind
<1>10. OnRing'
  <2>1. \A q \in Ports : ring[q].pkt.src \in Ports
    BY FlowTyped DEF FlowType, Packet
  <2>2. QED
    BY <1>1, <1>5, <2>1 DEF Flow, OnRing
<1>11. OffRing'
  <2>1. ASSUME NEW t \in Ports, NEW i \in 1 .. Len(outs[t])
        PROVE  Entered(outs[t][i], entered', sent')
    <3>1. outs[t] \in Seq(Packet)
      BY FlowTyped DEF FlowType
    <3>2. outs[t][i] \in Packet
      BY <3>1
    <3>3. outs[t][i].src \in Ports
      BY <3>2 DEF Packet
    <3>4. QED
      BY <1>5, <3>3 DEF Flow, OffRing
  <2>2. QED
    BY <1>1, <2>1 DEF OffRing
<1>12. NoneLost'
  <2>1. ASSUME NEW s \in Ports, NEW n \in 1 .. entered[s], NEW t \in sent[s][n].targets
        PROVE  OnItsWay(sent[s][n], t)' \/ IsOut(sent[s][n], t)'
    <3>1. sent'[s][n] = sent[s][n]
      BY <1>4
    <3>2. OnItsWay(sent[s][n], t) \/ IsOut(sent[s][n], t)
      BY DEF Flow, NoneLost
    <3>3. QED
      BY <1>1, <3>1, <3>2 DEF OnItsWay, IsOut
  <2>2. QED
    BY <1>2, <1>4, <2>1 DEF NoneLost
<1>13. QED
  BY <1>6, <1>7, <1>8, <1>9, <1>10, <1>11, <1>12 DEF Flow

-----------------------------------------------------------------------------

LEMMA PosedgeFlow == ASSUME IInv, IInv', Flow, Posedge PROVE Flow'
<1>1. (CheckEdge \/ ShiftEdge) /\ RoomIn' /\ Queued' /\ RoomOut'
  BY PosedgeEdges
<1>2. Numbered'
  BY PosedgeSides DEF Flow, Numbered
<1>3. Journey'
  BY <1>1, CheckJourney, ShiftJourney, FlowTyped DEF Flow, Journey
<1>4. QED
  BY <1>1, <1>2, <1>3 DEF Flow, Journey

LEMMA InitFlow == ASSUME Init PROVE Flow
<1>1. IInv
  BY InitIInv
<1>2. ASSUME NEW s \in Ports
      PROVE  /\ drv[s].sent = << >> /\ ~valid_ip(s) /\ qin[s] = << >> /\ qout[s] = << >>
             /\ received[s] = << >> /\ ring[s].targets = {}
  BY SlotIs DEF Init, Empty, valid_ip
<1>3. Len(<< >>) = 0 /\ << >> \in Seq(Packet) /\ << >> \o << >> = << >>
  OBVIOUS
<1>4. ASSUME NEW s \in Ports
      PROVE  sent[s] = << >> /\ loaded[s] = 0 /\ entered[s] = 0 /\ outs[s] = << >>
  <2>1. sent[s] = << >> /\ loaded[s] = 0 /\ outs[s] = << >>
    BY <1>2, <1>3 DEF sent, loaded, outs
  <2>2. entered[s] = 0
    BY <1>2, <1>3, <2>1 DEF entered
  <2>3. QED
    BY <2>1, <2>2
<1>5. clock = 0 /\ state = "check"
  BY DEF Init
<1>6. \A i : i \notin 1 .. 0
  OBVIOUS
<1>7. Numbered /\ OffRing /\ OutOrder /\ Behind /\ NoneLost
  BY <1>3, <1>4, <1>6 DEF Numbered, OffRing, OutOrder, Behind, NoneLost
<1>8. RoomIn /\ RoomOut /\ OnRing /\ RingOrder
  BY <1>2, <1>5 DEF RoomIn, RoomOut, OnRing, RingOrder
<1>9. Queued
  <2>1. ASSUME NEW s \in Ports PROVE Part(s, qin[s], entered[s])
    <3>1. qin[s] = << >> /\ entered[s] = 0 /\ sent[s] = << >>
      BY <1>2, <1>4
    <3>2. 0 + Len(<< >>) <= Len(<< >>) /\ 0 \in Nat
      BY <1>3
    <3>3. QED
      BY <1>3, <1>6, <3>1, <3>2 DEF Part
  <2>2. QED
    BY <2>1 DEF Queued
<1>10. QED
  BY <1>7, <1>8, <1>9 DEF Flow

LEMMA FlowStep == IInv /\ Flow /\ NotHeld /\ [Next]_vars => Flow'
<1>1. ASSUME IInv, Flow, Negedge, NotHeld PROVE Flow'
  BY <1>1, NegedgeFlow
<1>2. ASSUME IInv, Flow, Posedge PROVE Flow'
  BY <1>2, PosedgeIInv, PosedgeFlow
<1>3. ASSUME Flow, UNCHANGED vars PROVE Flow'
  <2>1. sent' = sent /\ loaded' = loaded /\ outs' = outs
    BY <1>3 DEF vars, sent, loaded, outs, valid_ip
  <2>2. entered' = entered
    BY <1>3, <2>1 DEF vars, entered
  <2>3. (Numbered /\ OnRing /\ RingOrder /\ OffRing /\ OutOrder /\ Behind)'
    BY <1>3, <2>1, <2>2 DEF vars, Flow, Numbered, OnRing, RingOrder, OffRing, OutOrder,
                            Behind
  <2>4. (RoomIn /\ RoomOut)'
    BY <1>3 DEF vars, Flow, RoomIn, RoomOut, valid_ip, Suspended
  <2>5. Queued'
    BY <1>3, <2>1, <2>2 DEF vars, Flow, Queued, Part
  <2>6. NoneLost'
    BY <1>3, <2>1, <2>2 DEF vars, Flow, NoneLost, OnItsWay, IsOut
  <2>7. QED
    BY <2>3, <2>4, <2>5, <2>6 DEF Flow
<1>4. QED
  BY <1>1, <1>2, <1>3 DEF Next

-----------------------------------------------------------------------------
(***************************************************************************)
(* What follows for the copies of a packet.                                *)
(***************************************************************************)
LEMMA OccursNowhere ==
  ASSUME NEW q, NEW pkt, \A i \in DOMAIN q : q[i] # pkt
  PROVE  Occurrences(pkt, q) = 0
<1>1. {i \in DOMAIN q : q[i] = pkt} = {}
  OBVIOUS
<1>2. QED
  BY <1>1, FS_EmptySet DEF Occurrences

LEMMA OccursOnce ==
  ASSUME NEW q, NEW pkt, NEW n \in DOMAIN q, q[n] = pkt,
         \A i \in DOMAIN q : q[i] = pkt => i = n
  PROVE  Occurrences(pkt, q) = 1
<1>1. {i \in DOMAIN q : q[i] = pkt} = {n}
  OBVIOUS
<1>2. QED
  BY <1>1, FS_Singleton DEF Occurrences

\* The elements of a concatenation are those of its parts.
LEMMA Concatenation ==
  ASSUME NEW S, NEW a \in Seq(S), NEW b \in Seq(S)
  PROVE  /\ Len(a) \in Nat /\ Len(b) \in Nat /\ Len(a \o b) = Len(a) + Len(b)
         /\ \A i \in 1 .. Len(a) : (a \o b)[i] = a[i]
         /\ \A i \in 1 .. Len(b) : (a \o b)[Len(a) + i] = b[i]
         /\ DOMAIN a = 1 .. Len(a) /\ DOMAIN b = 1 .. Len(b)
  OBVIOUS

\* A packet that was handed over is one of those its port has loaded.
LEMMA SentIsLoaded ==
  ASSUME IInv, Flow, NEW pkt \in Sent
  PROVE  /\ pkt \in Packet /\ pkt.num \in 1 .. loaded[pkt.src]
         /\ pkt = sent[pkt.src][pkt.num]
<1>1. PICK s \in Ports : pkt \in {drv[s].sent[n] : n \in {m \in DOMAIN drv[s].sent :
                 m < Len(drv[s].sent) \/ drv[s].pc # "drive"}}
  BY DEF Sent
<1>2. PICK n \in DOMAIN drv[s].sent : /\ n < Len(drv[s].sent) \/ drv[s].pc # "drive"
                                      /\ pkt = drv[s].sent[n]
  BY <1>1
<1>3. sent[s] \in Seq(Packet) /\ sent[s] = drv[s].sent
  BY FlowTyped DEF FlowType, sent
<1>4. DOMAIN sent[s] = 1 .. Len(sent[s]) /\ Len(sent[s]) \in Nat
  BY <1>3
<1>5. n \in 1 .. Len(sent[s]) /\ pkt = sent[s][n] /\ pkt \in Packet
  BY <1>2, <1>3, <1>4
<1>6. pkt.src = s /\ pkt.num = n
  BY <1>5 DEF Flow, Numbered
<1>7. n \in 1 .. loaded[s]
  <2>1. CASE n < Len(sent[s])
    <3>1. loaded[s] = Len(sent[s]) - 1 \/ loaded[s] = Len(sent[s])
      BY <1>3 DEF loaded
    <3>2. QED
      BY <1>4, <1>5, <2>1, <3>1
  <2>2. CASE drv[s].pc # "drive"
    BY <1>3, <1>5, <2>2 DEF loaded, valid_ip
  <2>3. QED
    BY <1>2, <1>3, <2>1, <2>2
<1>8. QED
  BY <1>5, <1>6, <1>7

\* A packet on the ring is in one slot.
LEMMA OneSlot ==
  ASSUME IInv, Flow, NEW q \in Ports, NEW r \in Ports, NEW t \in ring[q].targets,
         t \in ring[r].targets, ring[q].pkt = ring[r].pkt
  PROVE  q = r
<1> DEFINE s == ring[q].pkt.src
<1>1. s \in Ports /\ ring[q].pkt.num \in Nat
  BY FlowTyped DEF FlowType, Packet
<1>2. ~(Dist(s, q) < Dist(s, r)) /\ ~(Dist(s, r) < Dist(s, q))
  BY <1>1 DEF Flow, RingOrder
<1>3. Dist(s, q) \in Nat /\ Dist(s, r) \in Nat
  BY <1>1, Distance
<1>4. Dist(s, q) = Dist(s, r)
  BY <1>2, <1>3
<1>5. QED
  BY <1>1, <1>4, DistanceInjective

\* The two halves of what has come off the ring at a port.
LEMMA Halves ==
  ASSUME IInv, NEW t \in Ports
  PROVE  /\ received[t] \in Seq(Packet) /\ qout[t] \in Seq(Packet)
         /\ outs[t] = received[t] \o qout[t]
<1>1. For(t) \subseteq Packet
  BY DEF For
<1>2. QED
  BY <1>1 DEF IInv, Bounded, outs

LEMMA InNeitherHalf ==
  ASSUME IInv, NEW t \in Ports, NEW pkt, \A i \in 1 .. Len(outs[t]) : outs[t][i] # pkt
  PROVE  Occurrences(pkt, received[t]) = 0 /\ Occurrences(pkt, qout[t]) = 0
<1> DEFINE a == received[t]
           b == qout[t]
<1>0. a \in Seq(Packet) /\ b \in Seq(Packet) /\ outs[t] = a \o b
  BY Halves
<1> HIDE DEF a, b
<1>1. \A i \in 1 .. Len(a) : i \in 1 .. Len(outs[t])
  BY <1>0, Concatenation
<1>2. \A i \in 1 .. Len(b) : Len(a) + i \in 1 .. Len(outs[t])
  BY <1>0, Concatenation
<1>3. \A i \in DOMAIN a : a[i] # pkt
  BY <1>1, <1>0, Concatenation
<1>4. ASSUME NEW i \in DOMAIN b PROVE b[i] # pkt
  <2>1. i \in 1 .. Len(b)
    BY <1>0, Concatenation
  <2>2. Len(a) + i \in 1 .. Len(outs[t]) /\ outs[t][Len(a) + i] = b[i]
    BY <1>2, <2>1, <1>0, Concatenation
  <2>3. QED
    BY <2>2
<1>5. QED
  BY <1>3, <1>4, OccursNowhere DEF a, b

LEMMA InOneHalf ==
  ASSUME IInv, NEW t \in Ports, NEW pkt, NEW n \in 1 .. Len(outs[t]), outs[t][n] = pkt,
         \A i \in 1 .. Len(outs[t]) : outs[t][i] = pkt => i = n
  PROVE  \/ Occurrences(pkt, received[t]) = 1 /\ Occurrences(pkt, qout[t]) = 0
         \/ Occurrences(pkt, received[t]) = 0 /\ Occurrences(pkt, qout[t]) = 1
<1> DEFINE a == received[t]
           b == qout[t]
<1>0. a \in Seq(Packet) /\ b \in Seq(Packet) /\ outs[t] = a \o b
  BY Halves
<1> HIDE DEF a, b
<1>1. /\ Len(a) \in Nat /\ Len(b) \in Nat /\ n \in 1 .. Len(a) + Len(b)
      /\ DOMAIN a = 1 .. Len(a) /\ DOMAIN b = 1 .. Len(b)
  BY <1>0, Concatenation
<1>2. \A i \in DOMAIN a : a[i] = pkt => i = n
  <2>1. \A i \in 1 .. Len(a) : i \in 1 .. Len(outs[t])
    BY <1>0, Concatenation
  <2>2. QED
    BY <1>1, <2>1, <1>0, Concatenation
<1>3. ASSUME NEW i \in DOMAIN b, b[i] = pkt PROVE Len(a) + i = n
  <2>1. i \in 1 .. Len(b)
    BY <1>1
  <2>2. Len(a) + i \in 1 .. Len(outs[t]) /\ outs[t][Len(a) + i] = b[i]
    BY <2>1, <1>0, Concatenation
  <2>3. QED
    BY <1>3, <2>2
<1>4. ASSUME n \in 1 .. Len(a)
      PROVE  Occurrences(pkt, a) = 1 /\ Occurrences(pkt, b) = 0
  <2>1. a[n] = pkt
    BY <1>4, <1>0, Concatenation
  <2>2. \A i \in 1 .. Len(b) : Len(a) + i # n
    BY <1>1, <1>4
  <2>3. QED
    BY <1>1, <1>2, <1>3, <1>4, <2>1, <2>2, OccursNowhere, OccursOnce
<1>5. ASSUME n \notin 1 .. Len(a)
      PROVE  Occurrences(pkt, a) = 0 /\ Occurrences(pkt, b) = 1
  <2> DEFINE m == n - Len(a)
  <2>1. m \in 1 .. Len(b) /\ n = Len(a) + m
    BY <1>1, <1>5
  <2>2. \A i \in 1 .. Len(b) : Len(a) + i = n => i = m
    BY <1>1, <2>1
  <2> HIDE DEF m
  <2>3. b[m] = pkt
    BY <2>1, <1>0, Concatenation
  <2>4. \A i \in DOMAIN a : a[i] # pkt
    BY <1>1, <1>2, <1>5
  <2>5. \A i \in DOMAIN b : b[i] = pkt => i = m
    BY <1>1, <1>3, <2>2
  <2>6. Occurrences(pkt, b) = 1
    BY <1>1, <2>1, <2>3, <2>5, OccursOnce
  <2>7. QED
    BY <2>4, <2>6, OccursNowhere
<1>6. QED
  BY <1>4, <1>5 DEF a, b

LEMMA FlowExactlyOnce == ASSUME IInv, Flow PROVE ExactlyOnce
<1> SUFFICES ASSUME NEW pkt \in Sent, NEW t \in Ports
             PROVE  Copies(pkt, t) = IF t \in pkt.targets THEN 1 ELSE 0
  BY DEF ExactlyOnce
<1> DEFINE s      == pkt.src
           slots  == {p \in Ports : ring[p].pkt = pkt /\ t \in ring[p].targets}
           inQin  == Occurrences(pkt, qin[s])
           inQout == Occurrences(pkt, qout[t])
           isHere == Occurrences(pkt, received[t])
<1>1. /\ pkt \in Packet /\ s \in Ports /\ pkt.num \in 1 .. loaded[s]
      /\ pkt = sent[s][pkt.num]
  BY SentIsLoaded DEF Packet
<1>2. /\ received[t] \in Seq(Packet) /\ qout[t] \in Seq(Packet)
      /\ outs[t] = received[t] \o qout[t]
  BY Halves
<1>3. /\ entered[s] \in Nat /\ loaded[s] \in Int /\ pkt.num \in Nat
      /\ qin[s] \in Seq(Packet) /\ Len(qin[s]) \in Nat /\ DOMAIN qin[s] = 1 .. Len(qin[s])
      /\ loaded[s] = entered[s] + Len(qin[s])
      /\ \A i \in 1 .. Len(qin[s]) : qin[s][i] = sent[s][entered[s] + i]
  <2>1. /\ entered[s] \in Nat /\ qin[s] \in Seq(Packet) /\ loaded[s] \in Int
        /\ \A i \in 1 .. Len(qin[s]) : qin[s][i] = sent[s][entered[s] + i]
    BY <1>1, FlowTyped DEF FlowType, Flow, Queued, Part
  <2>2. entered[s] = loaded[s] - Len(qin[s])
    BY <1>1 DEF entered
  <2>3. Len(qin[s]) \in Nat /\ DOMAIN qin[s] = 1 .. Len(qin[s])
    BY <2>1
  <2>4. loaded[s] = entered[s] + Len(qin[s])
    BY <2>1, <2>2, <2>3
  <2>5. pkt.num \in Nat
    BY <1>1 DEF Packet
  <2>6. QED
    BY <2>1, <2>3, <2>4, <2>5
<1>4. \A i \in 1 .. Len(qin[s]) : qin[s][i].num = entered[s] + i
  <2>1. ASSUME NEW i \in 1 .. Len(qin[s]) PROVE qin[s][i].num = entered[s] + i
    <3>1. entered[s] + i \in 1 .. Len(sent[s])
      <4>1. loaded[s] <= Len(sent[s]) /\ Len(sent[s]) \in Nat
        BY <1>1, FlowTyped DEF FlowType
      <4>2. QED
        BY <1>3, <4>1
    <3>2. sent[s][entered[s] + i].num = entered[s] + i
      BY <1>1, <3>1 DEF Flow, Numbered
    <3>3. QED
      BY <1>3, <3>2
  <2>2. QED
    BY <2>1
<1>5. \A q \in Ports : ring[q].pkt = pkt /\ t \in ring[q].targets => pkt.num <= entered[s]
  BY <1>3 DEF Flow, OnRing, Entered
<1>6. \A i \in 1 .. Len(outs[t]) : outs[t][i] = pkt => pkt.num <= entered[s]
  BY <1>3 DEF Flow, OffRing, Entered
<1>7. slots = {} => Cardinality(slots) = 0
  BY FS_EmptySet
<1>8. Copies(pkt, t) = (IF t \in pkt.targets THEN inQin ELSE 0)
                       + Cardinality(slots) + inQout + isHere
  BY DEF Copies
<1>9. CASE t \notin pkt.targets
  <2>1. slots = {}
    BY <1>9, FlowTyped DEF FlowType
  <2>2. \A i \in 1 .. Len(outs[t]) : outs[t][i] # pkt
    <3>1. \A i \in DOMAIN received[t] : received[t][i] \in For(t)
      BY DEF IInv
    <3>2. \A i \in DOMAIN qout[t] : qout[t][i] \in For(t)
      BY DEF IInv, Bounded
    <3>3. ASSUME NEW i \in 1 .. Len(outs[t]) PROVE outs[t][i] \in For(t)
      <4>1. received[t] \in Seq(For(t)) /\ qout[t] \in Seq(For(t))
        BY DEF IInv, Bounded
      <4>2. outs[t] \in Seq(For(t))
        BY <1>2, <4>1
      <4>3. QED
        BY <4>2
    <3>4. QED
      BY <1>9, <3>3 DEF For
  <2>3. inQout = 0 /\ isHere = 0
    BY <2>2, InNeitherHalf
  <2>4. QED
    BY <1>7, <1>8, <1>9, <2>1, <2>3
<1>10. CASE t \in pkt.targets /\ pkt.num > entered[s]
  <2>1. slots = {}
    BY <1>3, <1>5, <1>10
  <2>2. inQout = 0 /\ isHere = 0
    <3>1. \A i \in 1 .. Len(outs[t]) : outs[t][i] # pkt
      BY <1>3, <1>6, <1>10
    <3>2. QED
      BY <3>1, InNeitherHalf
  <2>3. inQin = 1
    <3> DEFINE m == pkt.num - entered[s]
    <3>1. m \in 1 .. Len(qin[s]) /\ entered[s] + m = pkt.num
      BY <1>1, <1>3, <1>10
    <3>2. \A i \in 1 .. Len(qin[s]) : entered[s] + i = pkt.num => i = m
      BY <1>3, <3>1
    <3> HIDE DEF m
    <3>3. qin[s][m] = pkt
      BY <1>1, <1>3, <3>1
    <3>4. \A i \in DOMAIN qin[s] : qin[s][i] = pkt => i = m
      BY <1>3, <1>4, <3>2
    <3>5. m \in DOMAIN qin[s]
      BY <1>3, <3>1
    <3>6. QED
      BY <3>3, <3>4, <3>5, OccursOnce
  <2>4. QED
    BY <1>7, <1>8, <1>10, <2>1, <2>2, <2>3
<1>11. CASE t \in pkt.targets /\ ~(pkt.num > entered[s])
  <2>1. inQin = 0
    <3>1. \A i \in 1 .. Len(qin[s]) : entered[s] + i # pkt.num
      BY <1>3, <1>11
    <3>2. \A i \in DOMAIN qin[s] : qin[s][i] # pkt
      BY <1>3, <1>4, <3>1
    <3>3. QED
      BY <3>2, OccursNowhere
  <2>2. pkt.num \in 1 .. entered[s]
    BY <1>1, <1>3, <1>11
  <2>3. \A q \in Ports : ring[q].pkt = pkt /\ t \in ring[q].targets =>
          \A i \in 1 .. Len(outs[t]) : outs[t][i] # pkt
    <3>1. ~(pkt.num < pkt.num)
      BY <1>3
    <3>2. QED
      BY <3>1 DEF Flow, Behind
  <2>4. CASE OnItsWay(pkt, t)
    <3>1. PICK q \in Ports : t \in ring[q].targets /\ ring[q].pkt = pkt
      BY <2>4 DEF OnItsWay
    <3>2. slots = {q}
      BY <3>1, OneSlot
    <3>3. Cardinality(slots) = 1
      BY <3>2, FS_Singleton
    <3>4. inQout = 0 /\ isHere = 0
      BY <2>3, <3>1, InNeitherHalf
    <3>5. QED
      BY <1>8, <1>11, <2>1, <3>3, <3>4
  <2>5. CASE IsOut(pkt, t)
    <3>1. PICK n \in 1 .. Len(outs[t]) : outs[t][n] = pkt
      BY <2>5 DEF IsOut
    <3>2. slots = {}
      BY <2>3, <3>1
    <3>3. \A i \in 1 .. Len(outs[t]) : outs[t][i] = pkt => i = n
      <4>1. ASSUME NEW i \in 1 .. Len(outs[t]), outs[t][i] = pkt
            PROVE  ~(i < n) /\ ~(n < i)
        <5>1. ~(pkt.num < pkt.num)
          BY <1>3
        <5>2. QED
          BY <3>1, <4>1, <5>1 DEF Flow, OutOrder
      <4>2. Len(outs[t]) \in Nat
        BY FlowTyped DEF FlowType
      <4>3. QED
        BY <4>1, <4>2
    <3>4. \/ isHere = 1 /\ inQout = 0
          \/ isHere = 0 /\ inQout = 1
      BY <3>1, <3>3, InOneHalf
    <3>5. QED
      BY <1>7, <1>8, <1>11, <2>1, <3>2, <3>4
  <2>6. QED
    BY <1>1, <1>11, <2>2, <2>4, <2>5 DEF Flow, NoneLost
<1>12. QED
  BY <1>9, <1>10, <1>11

LEMMA FlowSourceOrder == ASSUME IInv, Flow PROVE SourceOrder
<1> SUFFICES ASSUME NEW t \in Ports, NEW i \in DOMAIN received[t],
                    NEW j \in DOMAIN received[t],
                    i < j, received[t][i].src = received[t][j].src
             PROVE  received[t][i].num <= received[t][j].num
  BY DEF SourceOrder
<1>1. /\ received[t] \in Seq(Packet) /\ qout[t] \in Seq(Packet)
      /\ outs[t] = received[t] \o qout[t]
  BY Halves
<1>2. /\ i \in 1 .. Len(outs[t]) /\ outs[t][i] = received[t][i]
      /\ j \in 1 .. Len(outs[t]) /\ outs[t][j] = received[t][j]
  <2> DEFINE a == received[t]
             b == qout[t]
  <2>1. a \in Seq(Packet) /\ b \in Seq(Packet) /\ i \in DOMAIN a /\ j \in DOMAIN a
    BY <1>1
  <2> HIDE DEF a, b
  <2>2. \A k \in DOMAIN a : k \in 1 .. Len(a \o b) /\ (a \o b)[k] = a[k]
    BY <2>1, Concatenation
  <2>3. outs[t] = a \o b
    BY <1>1 DEF a, b
  <2>4. QED
    BY <2>1, <2>2, <2>3 DEF a
<1>3. received[t][i].num < received[t][j].num
  BY <1>2 DEF Flow, OutOrder
<1>4. received[t][i] \in Packet /\ received[t][j] \in Packet
  BY <1>1
<1>5. received[t][i].num \in Nat /\ received[t][j].num \in Nat
  BY <1>4 DEF Packet
<1>6. QED
  BY <1>3, <1>5

-----------------------------------------------------------------------------

LEMMA FlowCorrect == Spec /\ []NotHeld => []Flow
<1>1. Init => Flow
  BY InitFlow
<1>2. IInv /\ Flow /\ NotHeld /\ [Next]_vars => Flow'
  BY FlowStep
<1>3. QED
  BY <1>1, <1>2, SpecIInv, PTL DEF Spec

\* As long as no driver is held with a packet that its port has taken, every
\* packet handed over gets to each of its targets exactly once and nowhere else.
THEOREM ExactlyOnceUnlessHeld == Spec /\ []NotHeld => []ExactlyOnce
<1>1. IInv /\ Flow => ExactlyOnce
  BY FlowExactlyOnce
<1>2. QED
  BY <1>1, FlowCorrect, SpecIInv, PTL

\* And the packets of one source reach every port in the order they were sent.
THEOREM SourceOrderUnlessHeld == Spec /\ []NotHeld => []SourceOrder
<1>1. IInv /\ Flow => SourceOrder
  BY FlowSourceOrder
<1>2. QED
  BY <1>1, FlowCorrect, SpecIInv, PTL

-----------------------------------------------------------------------------
(***************************************************************************)
(* A port whose driver sends fewer packets than suspend it never holds its *)
(* driver: this is the test the switch passes.                             *)
(***************************************************************************)
FewPackets == \A s \in Ports : Count[s] < QMax

Few == suspend_ip = FALSE /\ \A s \in Ports : Len(sent[s]) <= Count[s]

\* An input queue is never long enough to suspend its port.
LEMMA FewQueued ==
  ASSUME FewPackets, IInv, Flow, Few, NEW s \in Ports
  PROVE  /\ Len(qin[s]) \in Nat /\ Len(qin[s]) <= Len(sent[s]) /\ Len(sent[s]) \in Nat
         /\ Len(sent[s]) < QMax /\ ~Suspended(s)
<1>1. /\ qin[s] \in Seq(Packet) /\ entered[s] \in Nat
      /\ entered[s] + Len(qin[s]) <= Len(sent[s]) /\ sent[s] \in Seq(Packet)
  BY FlowTyped DEF FlowType, Flow, Queued, Part
<1>2. Len(qin[s]) \in Nat /\ Len(sent[s]) \in Nat
  BY <1>1
<1>3. Len(qin[s]) <= Len(sent[s])
  BY <1>1, <1>2
<1>4. Len(sent[s]) <= Count[s] /\ Count[s] < QMax /\ Count[s] \in Nat /\ QMax \in Nat
  BY SwitchAssumption DEF Few, FewPackets
<1>5. Len(sent[s]) < QMax /\ ~(Len(qin[s]) >= QMax)
  BY <1>2, <1>3, <1>4
<1>6. ~Suspended(s)
  BY <1>5 DEF Suspended, Few
<1>7. QED
  BY <1>2, <1>3, <1>5, <1>6

LEMMA FewStep == ASSUME FewPackets, IInv, Flow, Few, [Next]_vars PROVE Few'
<1>1. CASE Negedge
  <2>1. suspend_ip' = FALSE
    BY <1>1 DEF Negedge, Few
  <2>2. ASSUME NEW s \in Ports PROVE Len(sent'[s]) <= Count[s]
    <3>1. CASE CanStart(s)
      <4>1. Len(sent[s]) < Count[s]
        BY <3>1 DEF CanStart, sent
      <4>2. Len(sent'[s]) = Len(sent[s]) + 1 /\ Len(sent[s]) \in Nat /\ Count[s] \in Nat
        BY <1>1, <3>1, SentStep, SwitchAssumption DEF Flow
      <4>3. QED
        BY <4>1, <4>2
    <3>2. CASE ~CanStart(s)
      BY <1>1, <3>2, SentStep DEF Flow, Few
    <3>3. QED
      BY <3>1, <3>2
  <2>3. QED
    BY <2>1, <2>2 DEF Few
<1>2. CASE Posedge
  <2>1. PICK inFirst \in SUBSET InRaces, outFirst \in SUBSET OutRaces :
          Sides(inFirst, outFirst)
    BY <1>2, PosedgeSides
  <2>2. clock = 0 /\ sent' = sent
    BY <1>2, PosedgeSides
  <2>3. 0 \in Ports /\ (0 \in inFirst) \in BOOLEAN
    BY SwitchAssumption DEF Ports
  <2>4. ASSUME NEW q, NEW k, Part(0, q, k) PROVE ~(Len(q) >= QMax)
    <3>1. k \in Nat /\ q \in Seq(Packet) /\ k + Len(q) <= Len(sent[0])
      BY <2>4 DEF Part
    <3>2. Len(sent[0]) < QMax /\ Len(sent[0]) \in Nat
      BY <2>3, FewQueued
    <3>3. Len(q) \in Nat
      BY <3>1
    <3>4. QED
      BY <3>1, <3>2, <3>3, SwitchAssumption
  <2>5. ~(Len(qin[0]) >= QMax)
    BY <2>3, <2>4 DEF Flow, Queued
  <2>6. ~(Len(QinAfter(0, 0 \in inFirst)) >= QMax)
    BY <2>2, <2>3, <2>4, QueuesPart
  <2>7. ~(Len(IF 0 \in inFirst THEN Loaded(0, qin[0]) ELSE Taken(0, qin[0])) >= QMax)
    <3>1. CASE 0 \in inFirst
      <4>1. Part(0, QinSeen(0, TRUE), entered[0])
        BY <2>2, <2>3, QueuesPart
      <4>2. QinSeen(0, TRUE) = Loaded(0, qin[0])
        BY DEF QinSeen
      <4>3. QED
        BY <2>4, <3>1, <4>1, <4>2
    <3>2. CASE 0 \notin inFirst
      <4>1. CASE Injects(0, qin[0])
        <5>1. Taken(0, qin[0]) = Tail(qin[0]) /\ qin[0] # << >>
          BY <4>1 DEF Taken, Injects
        <5>2. Part(0, Tail(qin[0]), entered[0] + 1)
          BY <2>3, <5>1, TailPart DEF Flow, Queued
        <5>3. QED
          BY <2>4, <3>2, <5>1, <5>2
      <4>2. CASE ~Injects(0, qin[0])
        BY <2>5, <3>2, <4>2 DEF Taken
      <4>3. QED
        BY <4>1, <4>2
    <3>3. QED
      BY <3>1, <3>2
  <2>8. suspend_ip' = FALSE
    <3>1. PICK q \in {qin[0], QinAfter(0, 0 \in inFirst),
                      IF 0 \in inFirst THEN Loaded(0, qin[0]) ELSE Taken(0, qin[0])} :
            suspend_ip' = (Len(q) >= QMax)
      BY <2>1 DEF Sides, SuspendAfter
    <3>2. (Len(q) >= QMax) = FALSE
      <4>1. ~(Len(q) >= QMax)
        BY <2>5, <2>6, <2>7
      <4>2. QED
        BY <4>1
    <3>3. QED
      BY <3>1, <3>2
  <2>9. QED
    BY <2>2, <2>8 DEF Few
<1>3. CASE UNCHANGED vars
  BY <1>3 DEF vars, Few, sent
<1>4. QED
  BY <1>1, <1>2, <1>3 DEF Next

LEMMA FewCorrect == ASSUME FewPackets PROVE Spec => [](IInv /\ Flow /\ Few)
<1>1. ASSUME Init PROVE Flow /\ Few
  <2>1. \A s \in Ports : Len(sent[s]) <= Count[s]
    <3>1. \A s \in Ports : sent[s] = << >>
      BY <1>1 DEF Init, sent
    <3>2. Len(<< >>) = 0
      OBVIOUS
    <3>3. \A s \in Ports : 0 <= Count[s]
      BY SwitchAssumption
    <3>4. QED
      BY <3>1, <3>2, <3>3
  <2>2. QED
    BY <1>1, <2>1, InitFlow DEF Few, Init
<1>2. ASSUME IInv, Flow, Few PROVE NotHeld
  BY <1>2, FewQueued DEF NotHeld
<1>3. IInv /\ Flow /\ Few /\ [Next]_vars => Flow' /\ Few'
  BY <1>2, FlowStep, FewStep
<1>4. QED
  BY <1>1, <1>3, SpecIInv, PTL DEF Spec

\* Every packet handed over is on its way to, or has arrived at, each of its
\* targets exactly once, and goes nowhere else, in every interleaving of the
\* switch's processes.
THEOREM ExactlyOnceCorrect == ASSUME FewPackets PROVE Spec => []ExactlyOnce
<1>1. IInv /\ Flow => ExactlyOnce
  BY FlowExactlyOnce
<1>2. QED
  BY <1>1, FewCorrect, PTL

\* Packets of one source reach a port in the order they were sent.
THEOREM SourceOrderCorrect == ASSUME FewPackets PROVE Spec => []SourceOrder
<1>1. IInv /\ Flow => SourceOrder
  BY FlowSourceOrder
<1>2. QED
  BY <1>1, FewCorrect, PTL
=============================================================================
