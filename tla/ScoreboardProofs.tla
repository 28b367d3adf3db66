-------------------------- MODULE ScoreboardProofs --------------------------
(***************************************************************************)
(* Proofs about the checkers of RouterTb: what the monitors collect is     *)
(* what was sent, the response delay that is measured is the one that was  *)
(* applied, the scoreboard finds nothing to complain about, and the second *)
(* scoreboard comes to the same result.  They rest on the flow of bytes    *)
(* proved in RouterProofs and on its two hypotheses, the scoreboard on a   *)
(* third, that the reference model is told the limit and the enable the    *)
(* router works with, and the second scoreboard on a fourth, that this     *)
(* holds of its own copy of them.                                          *)
(***************************************************************************)
EXTENDS RouterProofs, Recursions

\* All bytes of packet p, as a monitor collects them.
Whole(p) == [i \in 1 .. p.length + 2 |-> ByteOf(p, i - 1)]

MonType == [pc : {"idle", "header", "payload", "parity", "done"},
            got : Seq(Slot), length : Int]

\* Monitor m waits for byte n of packet p and has the ones before it.
Has(m, p, n) ==
  /\ m \in MonType /\ Len(m.got) = n /\ Run(m.got, p, n - 1)
  /\ m.pc = IF n = 0 THEN "header" ELSE IF n <= p.length THEN "payload" ELSE "parity"
  /\ n > 0 => m.length = p.length

-----------------------------------------------------------------------------
(***************************************************************************)
(* The monitors.                                                           *)
(***************************************************************************)

\* The router takes the byte on the bus at the edge that comes next, and the
\* monitor took it at the one before.
Taken == clock = 1 /\ ~in_suspend

InputMonitor ==
  IF drv.pc = "idle" \/ (drv.pc = "release" /\ clock = 1) THEN ymon = YmonIdle
  ELSE Has(ymon, drv.pkt, IF Taken THEN in_data.pos + 1 ELSE in_data.pos)

\* A packet is on its way through channel c until its monitor has all of it.
Delivering(c) == Loading(c) \/ Count(queue[c]) > 0 \/ cmon[c].pc = "parity"

\* The bytes of packet p that went into the buffer, and those that left it.
Written(c, p) == IF Loading(c) THEN in_data.pos ELSE p.length + 2
BytesRead(c, p) == Written(c, p) - Count(queue[c])

\* The monitor of channel c is one byte behind the buffer, and the router
\* shows that byte: the first it will see if nothing was read yet.
Follows(c, p, n) ==
  /\ suspend[c] /\ cmon[c].pc # "parity" => n = 0 /\ cmon[c] = CmonIdle
  /\ suspend[c] /\ cmon[c].pc = "parity" =>
       /\ clock = 0 /\ ~Loading(c) /\ data_vld[c] = FALSE /\ n = p.length + 2
       /\ Has(cmon[c], p, n - 1) /\ data[c] = ByteOf(p, n - 1)
  /\ suspend[c] = FALSE /\ clock = 1 => Has(cmon[c], p, n) /\ data[c] = ByteOf(p, n)
  /\ suspend[c] = FALSE /\ clock = 0 =>
       \/ n = 0 /\ cmon[c] = CmonIdle
       \/ n >= 1 /\ Has(cmon[c], p, n - 1) /\ data[c] = ByteOf(p, n - 1)

Carries(c, p) ==
  /\ p.addr = c
  /\ Loading(c) => drv.pkt = p
  /\ Run(Contents(queue[c]), p, Written(c, p) - 1)
  /\ BytesRead(c, p) \in Nat
  /\ Follows(c, p, BytesRead(c, p))

\* collect_response has counted the edges that the receiver has let pass.
Response(c) ==
  cresp[c] =
    IF rx[c].pc = "respond"
    THEN [pc |-> "count", delay |-> rx[c].delay - rx[c].left - (1 - clock)]
    ELSE IF rx[c].pc = "wait" /\ cmon[c].pc # "parity" THEN CrespIdle
    ELSE [pc |-> "count", delay |-> rx[c].delay]

-----------------------------------------------------------------------------
(***************************************************************************)
(* The reference model and the scoreboard.  ReferenceMirrors: both start   *)
(* with the limit of the router, which is enabled in the reference model   *)
(* as it always is in the router, no write disables it, and the limits     *)
(* mean the same in six bits.                                              *)
(***************************************************************************)
SixBitsSuffice(max) == \A k \in Kinds : TooLong(k.length, max) <=> k.length > max

ReferenceMirrors ==
  /\ RefMaxPkt = DefMaxPkt /\ RefEnable \in Nat \ {0}
  /\ SixBitsSuffice(DefMaxPkt)
  /\ \A w \in HostWrites : IF w.haddr = MAX_PKT_ADDR THEN SixBitsSuffice(w.hdata)
                           ELSE w.hdata # 0

RefType == [max_pktsize_reg : Int, router_enable_reg : Int,
            packets_dropped : Int, packets_forwarded : Int,
            jumbo_packets : Int, bad_addr_packets : Int]

SbType == [queue : Seq(Seq(Slot)), packets : Int, compare : Int,
           miscompare : Int, dropped : Int]

RefState ==
  /\ ref \in RefType
  /\ ref.router_enable_reg # 0
  /\ ref.max_pktsize_reg = max_pkt_reg
  /\ SixBitsSuffice(max_pkt_reg)

\* The FSM's state tells how the header was judged.
Verdict ==
  /\ state_r = "DATA_LOAD" => ~TooLong(drv.pkt.length, max_pkt_reg)
  /\ state_r = "DUMP_PKT" => \/ drv.pkt.addr = IllegalAddr
                             \/ TooLong(drv.pkt.length, max_pkt_reg)

\* The packet is expected from the time the input monitor has collected it.
Expected(c, p) ==
  sb[c].queue = IF Loading(c) /\ ~(drv.pc = "release" /\ clock = 1)
                THEN << >> ELSE <<Whole(p)>>

Delivery(c) ==
  IF Delivering(c)
  THEN \E p \in Packets : /\ Carries(c, p)
                          /\ ReferenceMirrors => Expected(c, p)
  ELSE /\ cmon[c] = CmonIdle
       /\ ReferenceMirrors => sb[c].queue = << >>

SbTyped == sb \in [Chan -> SbType]

Clean(c) == sb[c].miscompare = 0 /\ sb[c].dropped = 0

Checkers ==
  /\ InputMonitor
  /\ Verdict
  /\ ReferenceMirrors => RefState /\ SbTyped
  /\ \A c \in Chan : /\ Response(c) /\ Delivery(c)
                     /\ ReferenceMirrors => Clean(c)

-----------------------------------------------------------------------------
(***************************************************************************)
(* Sequences of bytes.                                                     *)
(***************************************************************************)

\* The next byte of a packet makes a longer run.
LEMMA GotNext ==
  ASSUME NEW m, NEW p, NEW n \in Nat, Has(m, p, n), ByteOf(p, n) \in Slot
  PROVE  /\ Append(m.got, ByteOf(p, n)) \in Seq(Slot)
         /\ Len(Append(m.got, ByteOf(p, n))) = n + 1
         /\ Run(Append(m.got, ByteOf(p, n)), p, n)
<1>1. m.got \in Seq(Slot) /\ Len(m.got) = n /\ Run(m.got, p, n - 1)
  BY DEF Has, MonType
<1>2. Run(Append(m.got, ByteOf(p, n)), p, n)
  BY <1>1, RunAppend
<1>3. QED
  BY <1>1, <1>2

\* A run as long as the packet is the packet.
LEMMA WholeRun ==
  ASSUME NEW p \in Packets, NEW q \in Seq(Slot), Len(q) = p.length + 2,
         Run(q, p, p.length + 1)
  PROVE  q = Whole(p)
<1>1. p.length \in Nat
  BY PacketFacts
<1>2. \A i \in 1 .. p.length + 2 : q[i] = ByteOf(p, (p.length + 1) - (p.length + 2) + i)
  BY DEF Run
<1>3. \A i \in 1 .. p.length + 2 : (p.length + 1) - (p.length + 2) + i = i - 1
  BY <1>1
<1>4. \A i \in 1 .. p.length + 2 : q[i] = ByteOf(p, i - 1)
  BY <1>2, <1>3
<1>5. DOMAIN q = 1 .. p.length + 2 /\ q = [i \in DOMAIN q |-> q[i]]
  OBVIOUS
<1>6. QED
  BY <1>4, <1>5 DEF Whole

\* A monitor takes the next byte before the last one.
LEMMA MonitorTakes ==
  ASSUME NEW m, NEW p \in Packets, NEW n \in 0 .. p.length, Has(m, p, n), NEW next,
         n = 0 => next = [pc |-> "payload", got |-> <<ByteOf(p, n)>>,
                          length |-> p.length],
         n > 0 => next = [m EXCEPT !.got = Append(@, ByteOf(p, n)),
                                   !.pc = IF Len(m.got) = m.length
                                          THEN "parity" ELSE "payload"]
  PROVE  Has(next, p, n + 1)
<1>1. p.length \in Nat /\ p.length >= 1 /\ n \in Nat /\ (n + 1) - 1 = n
  BY PacketFacts
<1>2. ByteOf(p, n) \in Slot
  BY <1>1, BytesTyped DEF Slot
<1>3. /\ m \in MonType /\ Len(m.got) = n /\ m.got \in Seq(Slot)
      /\ n > 0 => m.length = p.length
  BY DEF Has, MonType
<1>4. /\ Append(m.got, ByteOf(p, n)) \in Seq(Slot)
      /\ Len(Append(m.got, ByteOf(p, n))) = n + 1
      /\ Run(Append(m.got, ByteOf(p, n)), p, n)
  BY <1>1, <1>2, GotNext
<1>5. CASE n = 0
  <2>1. m.got = << >>
    BY <1>3, <1>5
  <2>2. Append(m.got, ByteOf(p, n)) = <<ByteOf(p, n)>>
    BY <2>1
  <2>3. next = [pc |-> "payload", got |-> Append(m.got, ByteOf(p, n)),
                length |-> p.length]
    BY <1>5, <2>2
  <2>4. next.got = Append(m.got, ByteOf(p, n)) /\ next.pc = "payload"
        /\ next.length = p.length
    BY <2>3
  <2>5. next \in MonType
    BY <1>1, <1>4, <2>3 DEF MonType
  <2>6. QED
    BY <1>1, <1>4, <1>5, <2>4, <2>5 DEF Has
<1>6. CASE n > 0
  <2>1. next = [m EXCEPT !.got = Append(@, ByteOf(p, n)),
                         !.pc = IF n = p.length THEN "parity" ELSE "payload"]
    BY <1>3, <1>6
  <2>2. next.got = Append(m.got, ByteOf(p, n)) /\ next.length = p.length
        /\ next.pc = IF n = p.length THEN "parity" ELSE "payload"
    BY <1>3, <1>6, <2>1 DEF MonType
  <2>3. next \in MonType
    BY <1>3, <1>4, <2>1 DEF MonType
  <2>4. next.pc = IF n + 1 <= p.length THEN "payload" ELSE "parity"
    BY <1>1, <1>6, <2>2
  <2>5. QED
    BY <1>1, <1>4, <2>2, <2>3, <2>4 DEF Has
<1>7. QED
  BY <1>5, <1>6, <1>1

\* The parity byte makes the packet complete.
LEMMA MonitorCompletes ==
  ASSUME NEW m, NEW p \in Packets, Has(m, p, p.length + 1)
  PROVE  Append(m.got, ByteOf(p, p.length + 1)) = Whole(p)
<1>1. p.length \in Nat /\ p.length + 1 \in Nat /\ (p.length + 1) + 1 = p.length + 2
  BY PacketFacts
<1>2. ByteOf(p, p.length + 1) \in Slot
  BY <1>1, BytesTyped DEF Slot
<1>3. QED
  BY <1>1, <1>2, GotNext, WholeRun

LEMMA WholeFacts ==
  ASSUME NEW p \in Packets
  PROVE  Whole(p) \in Seq(Slot) /\ Whole(p)[1].pkt = p
<1>1. p.length \in Nat
  BY PacketFacts
<1>2. \A i \in 1 .. p.length + 2 : ByteOf(p, i - 1) \in Slot
  BY <1>1, BytesTyped DEF Slot
<1>3. Whole(p) \in Seq(Slot)
  BY <1>1, <1>2 DEF Whole
<1>4. Whole(p)[1] = ByteOf(p, 1 - 1)
  BY <1>1 DEF Whole
<1>5. QED
  BY <1>3, <1>4 DEF ByteOf

-----------------------------------------------------------------------------
(***************************************************************************)
(* The input monitor.                                                      *)
(***************************************************************************)
LEMMA MonRecord ==
  ASSUME NEW pc \in {"idle", "header", "payload", "parity", "done"},
         NEW got \in Seq(Slot), NEW n \in Int
  PROVE  [pc |-> pc, got |-> got, length |-> n] \in MonType
  BY DEF MonType

LEMMA NothingGot == << >> \in Seq(Slot)
  OBVIOUS

LEMMA StartsEmpty ==
  ASSUME NEW p, NEW m, NEW g \in Seq(Slot), g = << >>,
         m = [pc |-> "header", got |-> g, length |-> 0]
  PROVE  Has(m, p, 0)
<1>1. m \in MonType
  <2>1. "header" \in {"idle", "header", "payload", "parity", "done"} /\ 0 \in Int
    OBVIOUS
  <2>2. [pc |-> "header", got |-> g, length |-> 0] \in MonType
    BY <2>1, MonRecord, Zenon
  <2>3. QED
    BY <2>2, Zenon
<1>2. m.pc = "header" /\ m.got = g
  OBVIOUS
<1>3. Len(m.got) = 0 /\ Run(m.got, p, 0 - 1)
  BY <1>2 DEF Run
<1>4. QED
  BY <1>1, <1>2, <1>3 DEF Has

LEMMA InputNegedge ==
  ASSUME IInv, Flow, InputMonitor, Negedge
  PROVE  InputMonitor'
<1>1. /\ DrvNegedge(in_suspend) /\ YmonNegedge /\ clock = 1 /\ clock' = 0
  BY DEF Negedge
<1>2. ymon' = IF ymon.pc = "idle" /\ ~in_data_vld /\ in_data_vld'
              THEN [ymon EXCEPT !.pc = "header"] ELSE ymon
  BY <1>1 DEF YmonNegedge
<1>3. Taken' = FALSE
  BY <1>1 DEF Taken
<1>4. CASE drv.pc = "idle"
  <2>1. ymon = YmonIdle /\ in_data_vld = FALSE
    BY <1>4 DEF InputMonitor, IInv, AtIdle
  <2>2. CASE DrvIdle
    <3>1. drv' = drv /\ in_data_vld' = FALSE
      BY <2>1, <2>2 DEF DrvIdle
    <3>2. QED
      BY <1>2, <1>4, <2>1, <3>1 DEF InputMonitor
  <2>3. CASE DrvHeader(in_suspend)
    <3>1. PICK k \in Kinds :
            /\ drv' = [pc |-> "payload", pkt |-> Packet(num_sent + 1, k), pos |-> 1]
            /\ in_data' = Header(Packet(num_sent + 1, k))
      BY <2>3 DEF DrvHeader
    <3>2. in_data_vld' = TRUE
      BY <2>3 DEF DrvHeader
    <3>3. drv'.pc = "payload" /\ in_data'.pos = 0
      BY <3>1 DEF Header, ByteOf
    <3>4. Has(ymon', drv'.pkt, 0)
      <4>1. ymon' = [pc |-> "header", got |-> << >>, length |-> 0]
        BY <1>2, <2>1, <3>2 DEF YmonIdle
      <4>2. QED
        BY <4>1, StartsEmpty, NothingGot
    <3>5. QED
      BY <1>3, <3>3, <3>4 DEF InputMonitor
  <2>4. QED
    BY <1>1, <1>4, <2>2, <2>3
       DEF DrvNegedge, DrvPayload, DrvParity, DrvBlocked, DrvRelease
<1>5. CASE drv.pc \in {"payload", "parity"}
  <2>1. in_data_vld = TRUE /\ in_suspend \in BOOLEAN
    BY <1>5, FlagsOfWires DEF IInv, AtByte
  <2>2. ymon' = ymon
    BY <1>2, <2>1
  <2>3. /\ drv'.pc # "idle" /\ drv'.pkt = drv.pkt
        /\ in_data' = IF in_suspend THEN in_data ELSE ByteOf(drv.pkt, in_data.pos + 1)
    BY <1>1, <2>1, NextByte
  <2>4. Has(ymon, drv.pkt, IF in_suspend THEN in_data.pos ELSE in_data.pos + 1)
    BY <1>1, <1>5, <2>1 DEF InputMonitor, Taken
  <2>5. Has(ymon', drv'.pkt, in_data'.pos)
    BY <2>1, <2>2, <2>3, <2>4 DEF ByteOf
  <2>6. QED
    BY <1>1, <1>3, <2>3, <2>5 DEF InputMonitor
<1>6. CASE drv.pc = "release"
  <2>1. ymon = YmonIdle /\ in_data_vld = FALSE
    BY <1>1, <1>6 DEF InputMonitor, IInv, AtParity
  <2>2. DrvRelease
    BY <1>1, <1>6 DEF DrvNegedge, DrvIdle, DrvHeader, DrvPayload, DrvParity, DrvBlocked
  <2>3. drv'.pc = "idle" /\ in_data_vld' = FALSE
    BY <2>1, <2>2 DEF DrvRelease
  <2>4. QED
    BY <1>2, <2>1, <2>3 DEF InputMonitor
<1>7. QED
  BY <1>4, <1>5, <1>6 DEF IInv, Types, DrvType

\* A positive edge leaves the wires between driver and router alone.
LEMMA PosedgeKeeps ==
  ASSUME IInv, Posedge
  PROVE  /\ drv' = drv /\ in_data' = in_data /\ in_data_vld' = in_data_vld
         /\ state_r' = state_r /\ dest_chan_r' = dest_chan_r
         /\ queue' = queue /\ max_pkt_reg' = max_pkt_reg /\ suspend' = suspend
         /\ clock = 0 /\ clock' = 1 /\ in_suspend' = in_suspend
<1>1. /\ drv' = drv /\ in_data' = in_data /\ in_data_vld' = in_data_vld
      /\ state_r' = state_r /\ dest_chan_r' = dest_chan_r
      /\ queue' = queue /\ max_pkt_reg' = max_pkt_reg /\ suspend' = suspend
      /\ clock = 0 /\ clock' = 1
  BY DEF Posedge, RxPosedges, DutPosedge, dutVars
<1>2. in_suspend' = in_suspend
  BY <1>1 DEF in_suspend, fifo_empty, hold, dest_chan, HeaderValid
<1>3. QED
  BY <1>1, <1>2

\* The input monitor collects the packet at the edge before the release.
LEMMA InputCollects ==
  ASSUME IInv, Flow, ParityFits, InputMonitor, clock = 0
  PROVE  /\ YmonCollects(in_suspend) <=> drv.pc = "release"
         /\ drv.pc = "release" =>
              /\ drv.pkt \in Packets
              /\ YmonPacket = Whole(drv.pkt) /\ ymon.length = drv.pkt.length
<1>1. in_suspend \in BOOLEAN
  BY FlagsOfWires
<1>2. CASE drv.pc = "idle"
  BY <1>2 DEF InputMonitor, YmonCollects, YmonIdle
<1>3. CASE drv.pc \in {"payload", "parity"}
  <2>1. Has(ymon, drv.pkt, in_data.pos)
    BY <1>3 DEF InputMonitor, Taken
  <2>2. /\ drv.pkt \in Packets /\ drv.pos \in 1 .. drv.pkt.length + 1
        /\ in_data = ByteOf(drv.pkt, drv.pos - 1)
    BY <1>3 DEF IInv, AtByte
  <2>3. in_data.pos <= drv.pkt.length
    BY <2>2, PacketFacts DEF ByteOf
  <2>4. ymon.pc # "parity"
    BY <2>1, <2>3 DEF Has
  <2>5. QED
    BY <1>3, <2>4 DEF YmonCollects
<1>4. CASE drv.pc = "release"
  <2>1. Has(ymon, drv.pkt, in_data.pos)
    BY <1>4 DEF InputMonitor, Taken
  <2>2. drv.pkt \in Packets /\ in_data = ByteOf(drv.pkt, drv.pkt.length + 1)
    BY <1>4 DEF IInv, AtParity, ParityByte
  <2>3. in_data.pos = drv.pkt.length + 1 /\ drv.pkt.length \in Nat
    BY <2>2, PacketFacts DEF ByteOf
  <2>4. ymon.pc = "parity" /\ ymon.length = drv.pkt.length
    BY <2>1, <2>3 DEF Has
  <2>5. in_suspend = FALSE
    BY <1>4, ReleaseUnheld
  <2>6. YmonPacket = Whole(drv.pkt)
    BY <2>1, <2>2, <2>3, MonitorCompletes DEF YmonPacket
  <2>7. QED
    BY <1>4, <2>2, <2>4, <2>5, <2>6 DEF YmonCollects
<1>5. QED
  BY <1>2, <1>3, <1>4 DEF IInv, Types, DrvType

LEMMA InputPosedge ==
  ASSUME IInv, Flow, ParityFits, InputMonitor, Posedge
  PROVE  InputMonitor'
<1> DEFINE p == drv.pkt
           n == in_data.pos
<1>1. /\ drv' = drv /\ in_data' = in_data /\ clock = 0 /\ clock' = 1
      /\ in_suspend' = in_suspend /\ in_suspend \in BOOLEAN
  BY PosedgeKeeps, FlagsOfWires
<1>2. YmonPosedge(in_suspend)
  BY DEF Posedge
<1>3. CASE drv.pc = "idle"
  <2>1. ymon = YmonIdle
    BY <1>3 DEF InputMonitor
  <2>2. ymon' = ymon
    BY <1>2, <2>1 DEF YmonPosedge, YmonIdle
  <2>3. QED
    BY <1>1, <1>3, <2>1, <2>2 DEF InputMonitor
<1>4. CASE drv.pc = "release"
  <2>1. ymon.pc = "parity" /\ in_suspend = FALSE
    BY <1>1, <1>4, InputCollects DEF YmonCollects
  <2>2. ymon' = YmonIdle
    BY <1>2, <2>1 DEF YmonPosedge
  <2>3. QED
    BY <1>1, <1>4, <2>2 DEF InputMonitor
<1>5. CASE drv.pc \in {"payload", "parity"}
  <2>1. Has(ymon, p, n)
    BY <1>1, <1>5 DEF InputMonitor, Taken
  <2>2. /\ p \in Packets /\ drv.pos \in 1 .. p.length + 1
        /\ in_data = ByteOf(p, drv.pos - 1)
    BY <1>5 DEF IInv, AtByte
  <2>3. n \in 0 .. p.length /\ in_data = ByteOf(p, n) /\ p.length \in Nat
    BY <2>2, PacketFacts DEF ByteOf
  <2>4. ymon.pc = IF n = 0 THEN "header" ELSE "payload"
    BY <2>1, <2>3 DEF Has
  <2>5. CASE in_suspend = TRUE
    <3>1. ymon' = ymon
      BY <1>2, <2>5 DEF YmonPosedge
    <3>2. Taken' = FALSE
      BY <1>1, <2>5 DEF Taken
    <3>3. QED
      BY <1>1, <1>5, <2>1, <3>1, <3>2 DEF InputMonitor
  <2>6. CASE in_suspend = FALSE
    <3>1. n = 0 => ymon' = [pc |-> "payload", got |-> <<ByteOf(p, n)>>,
                            length |-> p.length]
      <4>1. n = 0 => LengthField(in_data) = {p.length}
        BY <2>3 DEF LengthField, IsHeader, ByteOf
      <4>2. SUFFICES ASSUME n = 0
                     PROVE  ymon' = [pc |-> "payload", got |-> <<in_data>>,
                                     length |-> p.length]
        BY <2>3
      <4>3. ymon.pc = "header"
        BY <2>4, <4>2
      <4>4. PICK x \in LengthField(in_data) :
              ymon' = [pc |-> "payload", got |-> <<in_data>>, length |-> x]
        BY <1>2, <2>6, <4>3 DEF YmonPosedge
      <4>5. QED
        BY <4>1, <4>2, <4>4
    <3>2. n > 0 => ymon' = [ymon EXCEPT !.got = Append(@, ByteOf(p, n)),
                                        !.pc = IF Len(ymon.got) = ymon.length
                                               THEN "parity" ELSE "payload"]
      <4>1. SUFFICES ASSUME n > 0
                     PROVE  ymon' = [ymon EXCEPT !.got = Append(@, in_data),
                                                 !.pc = IF Len(ymon.got) = ymon.length
                                                        THEN "parity" ELSE "payload"]
        BY <2>3
      <4>2. ymon.pc = "payload"
        BY <2>3, <2>4, <4>1
      <4>3. QED
        BY <1>2, <2>6, <4>2 DEF YmonPosedge
    <3>3. Has(ymon', p, n + 1)
      BY <2>1, <2>2, <2>3, <3>1, <3>2, MonitorTakes
    <3>4. Taken' = TRUE
      BY <1>1, <2>6 DEF Taken
    <3>5. QED
      BY <1>1, <1>5, <3>3, <3>4 DEF InputMonitor
  <2>7. QED
    BY <1>1, <2>5, <2>6
<1>6. QED
  BY <1>3, <1>4, <1>5 DEF IInv, Types, DrvType

-----------------------------------------------------------------------------
(***************************************************************************)
(* The verdict on the header, and the reference model.                     *)
(***************************************************************************)
LEMMA VerdictNegedge ==
  ASSUME IInv, Flow, WritesHarmless, Verdict, Negedge
  PROVE  Verdict'
<1>1. DutNegedge /\ DrvNegedge(in_suspend)
  BY DEF Negedge
<1>2. PICK m \in {max_pkt_reg, max_pkt_reg'} : FsmUpdate(m)
  BY <1>1 DEF DutNegedge
<1>3. in_data_vld \in BOOLEAN
  BY DEF IInv, Types
<1>4. CASE in_data_vld = FALSE
  <2>1. state_r' = "HEADER_WAIT"
    BY <1>1, <1>4, FsmStep
  <2>2. QED
    BY <2>1 DEF Verdict
<1>5. CASE in_data_vld = TRUE
  <2> DEFINE p == drv.pkt
  <2>1. drv'.pkt = p
    BY <1>1, <1>5, NextByte
  <2>2. drv.pc # "idle" /\ p \in Packets /\ in_data.pkt = p
    BY <1>5, ValidByte
  <2>3. p.length \in 1 .. MaxLength
    BY <2>2, PacketFacts
  <2>4. HeaderValid \in BOOLEAN /\ Illegal(m) \in BOOLEAN /\ fifo_empty \in BOOLEAN
    BY DEF HeaderValid, Illegal, fifo_empty
  <2>5. CASE HeaderValid
    <3>1. TooLong(p.length, m) <=> TooLong(p.length, max_pkt_reg')
      BY <1>1, <2>2, SameLimit
    <3>2. dest_chan = p.addr
      BY <2>2, <2>5 DEF dest_chan
    <3>3. Illegal(m) <=> p.addr = IllegalAddr \/ TooLong(p.length, m)
      <4>1. (in_data.pkt.length < 1) = FALSE
        BY <2>2, <2>3, MaxLengthAssumption
      <4>2. QED
        BY <2>2, <3>2, <4>1, Zenon DEF Illegal, TooLong
    <3>4. /\ state_r' = "DATA_LOAD" => ~Illegal(m)
          /\ state_r' = "DUMP_PKT" => Illegal(m)
      BY <1>2, <1>3, <2>4, <2>5 DEF FsmUpdate, next_state
    <3>5. QED
      BY <2>1, <3>1, <3>3, <3>4 DEF Verdict
  <2>6. CASE ~HeaderValid
    <3>1. state_r' = state_r
      BY <1>2, <1>5, <2>4, <2>6 DEF FsmUpdate, next_state
    <3>2. TooLong(p.length, max_pkt_reg) <=> TooLong(p.length, max_pkt_reg')
      BY <1>1, <2>2, SameLimit
    <3>3. QED
      BY <2>1, <3>1, <3>2 DEF Verdict
  <2>7. QED
    BY <2>4, <2>5, <2>6
<1>6. QED
  BY <1>3, <1>4, <1>5

\* The mirrored register follows the router's.
LEMMA RefNegedge ==
  ASSUME IInv, Flow, ReferenceMirrors, RefState, Negedge
  PROVE  RefState'
<1>1. HostCtl /\ MirrorNegedge /\ HostState /\ hbus \in BusType
  BY DEF Negedge, DutNegedge, Flow, IInv, Types
<1>2. CASE hbus.hen = FALSE
  <2>1. ref' = ref /\ max_pkt_reg' = max_pkt_reg
    BY <1>1, <1>2 DEF MirrorNegedge, HostCtl, sbVars
  <2>2. QED
    BY <2>1 DEF RefState
<1>3. CASE hbus.hen = TRUE
  <2>1. PICK w \in HostWrites : w.haddr = hbus.haddr /\ w.hdata = hbus.hdata
    BY <1>1, <1>3 DEF HostState
  <2>2. hbus.hdata \in Int /\ hbus.haddr \in {MAX_PKT_ADDR, ENABLE_ADDR}
    BY <1>1 DEF BusType
  <2>3. ref' = [ref EXCEPT
                  !.max_pktsize_reg = IF hbus.haddr = MAX_PKT_ADDR
                                      THEN hbus.hdata ELSE @,
                  !.router_enable_reg = IF hbus.haddr = ENABLE_ADDR
                                        THEN hbus.hdata ELSE @]
    BY <1>1, <1>3 DEF MirrorNegedge, WriteHbus
  <2>4. MAX_PKT_ADDR # ENABLE_ADDR
    BY DEF MAX_PKT_ADDR, ENABLE_ADDR
  <2>5. ref \in RefType
    BY DEF RefState
  <2>6. CASE hbus.haddr = MAX_PKT_ADDR
    <3>1. ref' = [ref EXCEPT !.max_pktsize_reg = hbus.hdata]
      BY <2>3, <2>4, <2>5, <2>6 DEF RefType
    <3>2. ref' \in RefType /\ ref'.max_pktsize_reg = hbus.hdata
          /\ ref'.router_enable_reg = ref.router_enable_reg
      BY <2>2, <2>5, <3>1 DEF RefType
    <3>3. max_pkt_reg' = hbus.hdata
      BY <1>1, <1>3, <2>6 DEF HostCtl
    <3>4. SixBitsSuffice(hbus.hdata)
      BY <2>1, <2>6 DEF ReferenceMirrors
    <3>5. QED
      BY <3>2, <3>3, <3>4 DEF RefState
  <2>7. CASE hbus.haddr = ENABLE_ADDR
    <3>1. ref' = [ref EXCEPT !.router_enable_reg = hbus.hdata]
      BY <2>3, <2>4, <2>5, <2>7 DEF RefType
    <3>2. ref' \in RefType /\ ref'.max_pktsize_reg = ref.max_pktsize_reg
          /\ ref'.router_enable_reg = hbus.hdata
      BY <2>2, <2>5, <3>1 DEF RefType
    <3>3. max_pkt_reg' = max_pkt_reg
      BY <1>1, <2>4, <2>7 DEF HostCtl
    <3>4. hbus.hdata # 0
      BY <2>1, <2>4, <2>7 DEF ReferenceMirrors
    <3>5. QED
      BY <3>2, <3>3, <3>4 DEF RefState
  <2>8. QED
    BY <2>2, <2>6, <2>7
<1>4. QED
  BY <1>1, <1>2, <1>3 DEF BusType

-----------------------------------------------------------------------------
(***************************************************************************)
(* A negative edge, one channel.                                           *)
(***************************************************************************)
Reads(c) == IF suspend[c] THEN 0 ELSE 1

\* What the edge has to show of the buffer: it holds bytes of the same
\* packet, and one more is read unless the receiver holds the channel.
ByteMoves(c, p) ==
  /\ Run(Contents(queue'[c]), p, Written(c, p)' - 1)
  /\ BytesRead(c, p)' = BytesRead(c, p) + Reads(c)
  /\ Loading(c)' => Loading(c) /\ drv'.pkt = p

LEMMA WriteMoves ==
  ASSUME IInv, Flow, WritesHarmless, ParityFits, Negedge, NEW c \in Chan,
         NEW p \in Packets, Carries(c, p), Loading(c),
         in_data_vld => ~queue[c].tmp_full
  PROVE  ByteMoves(c, p)
<1> DEFINE n == in_data.pos
           k == Count(queue[c])
<1>1. /\ drv.pc # "idle" /\ drv.pkt = p /\ k \in 1 .. n
      /\ Run(Contents(queue[c]), p, n - 1) /\ Written(c, p) = n
  BY QueueFacts DEF BufferLoading, Carries, Written
<1>2. /\ n \in 0 .. p.length + 1 /\ in_data = ByteOf(p, n) /\ in_data \in Slot
      /\ p.length \in Nat /\ in_data_vld \in BOOLEAN
      /\ in_data_vld = FALSE => n = p.length + 1
  BY <1>1, BusByte, PacketFacts DEF Slot, IInv, Types
<1>3. ~queue[c].tmp_full
  BY RoomForParity
<1>4. /\ queue'[c] \in FifoState /\ FlagsExact(queue'[c])
      /\ Loading(c)' <=> in_data_vld
      /\ in_suspend = FALSE
      /\ Contents(queue'[c]) = Append(Kept(c), in_data)
  BY <1>3, QueueEdge, FlagsOfWires
<1>5. in_data_vld => drv'.pkt = p /\ in_data' = ByteOf(p, n + 1)
  BY <1>1, <1>4, NextByte DEF Negedge
<1>6. Written(c, p)' = n + 1
  <2>1. CASE in_data_vld = TRUE
    <3>1. in_data'.pos = n + 1
      BY <1>5, <2>1 DEF ByteOf
    <3>2. QED
      BY <1>4, <2>1, <3>1 DEF Written
  <2>2. CASE in_data_vld = FALSE
    <3>1. n + 1 = p.length + 2
      BY <1>2, <2>2
    <3>2. Written(c, p)' = p.length + 2
      BY <1>4, <2>2 DEF Written
    <3>3. QED
      BY <3>1, <3>2
  <2>3. QED
    BY <1>2, <2>1, <2>2
<1>7. /\ Kept(c) \in Seq(Slot) /\ Run(Kept(c), p, n - 1)
      /\ Len(Kept(c)) = k - Reads(c)
  <2>1. ~queue[c].tmp_empty
    BY <1>1, <1>2, QueueFacts
  <2>2. QED
    BY <1>1, <1>2, <2>1, KeptFacts DEF Reads
<1>8. Run(Contents(queue'[c]), p, n)
  BY <1>2, <1>4, <1>7, RunAppend
<1>9. Count(queue'[c]) = k - Reads(c) + 1
  <2>1. Len(Append(Kept(c), in_data)) = Len(Kept(c)) + 1
    BY <1>2, <1>7
  <2>2. Len(Contents(queue'[c])) = Count(queue'[c])
    BY <1>4, ContentsFacts
  <2>3. QED
    BY <1>4, <1>7, <2>1, <2>2
<1>10. BytesRead(c, p)' = BytesRead(c, p) + Reads(c)
  <2>1. BytesRead(c, p)' = (n + 1) - Count(queue'[c]) /\ BytesRead(c, p) = n - k
    BY <1>1, <1>6 DEF BytesRead
  <2>2. Reads(c) \in {0, 1} /\ k \in Int /\ n \in Int
    BY <1>1, <1>2 DEF Reads
  <2>3. QED
    BY <1>9, <2>1, <2>2
<1>11. (n + 1) - 1 = n
  BY <1>2
<1>12. QED
  BY <1>4, <1>5, <1>6, <1>8, <1>10, <1>11 DEF ByteMoves

LEMMA HeldMoves ==
  ASSUME IInv, Flow, WritesHarmless, Negedge, NEW c \in Chan,
         NEW p \in Packets, Carries(c, p), Loading(c),
         in_data_vld, queue[c].tmp_full
  PROVE  ByteMoves(c, p)
<1> DEFINE n == in_data.pos
           k == Count(queue[c])
<1>1. /\ drv.pc # "idle" /\ drv.pkt = p /\ k \in 1 .. n
      /\ Run(Contents(queue[c]), p, n - 1) /\ Written(c, p) = n
  BY QueueFacts DEF BufferLoading, Carries, Written
<1>2. n \in 0 .. p.length + 1 /\ p.length \in Nat
  BY <1>1, BusByte, PacketFacts
<1>3. /\ queue'[c] \in FifoState /\ FlagsExact(queue'[c]) /\ Loading(c)'
      /\ in_suspend = TRUE /\ Contents(queue'[c]) = Kept(c)
  BY QueueEdge, FlagsOfWires
<1>4. drv'.pkt = p /\ in_data' = in_data
  BY <1>1, <1>3, NextByte DEF Negedge
<1>5. Written(c, p)' = n
  BY <1>3, <1>4 DEF Written
<1>6. Run(Kept(c), p, n - 1) /\ Len(Kept(c)) = k - Reads(c)
  <2>1. ~queue[c].tmp_empty
    BY <1>1, <1>2, QueueFacts
  <2>2. QED
    BY <1>1, <1>2, <2>1, KeptFacts DEF Reads
<1>7. Count(queue'[c]) = k - Reads(c)
  BY <1>3, <1>6, ContentsFacts
<1>8. BytesRead(c, p)' = BytesRead(c, p) + Reads(c)
  <2>1. BytesRead(c, p)' = n - Count(queue'[c]) /\ BytesRead(c, p) = n - k
    BY <1>1, <1>5 DEF BytesRead
  <2>2. Reads(c) \in {0, 1} /\ k \in Int /\ n \in Int
    BY <1>1, <1>2 DEF Reads
  <2>3. QED
    BY <1>7, <2>1, <2>2
<1>9. QED
  BY <1>3, <1>4, <1>5, <1>6, <1>8 DEF ByteMoves

LEMMA ReadMoves ==
  ASSUME IInv, Flow, WritesHarmless, Negedge, NEW c \in Chan,
         NEW p \in Packets, Carries(c, p), ~Loading(c), Count(queue[c]) > 0
  PROVE  ByteMoves(c, p)
<1> DEFINE k == Count(queue[c])
<1>1. /\ Run(Contents(queue[c]), p, (p.length + 2) - 1)
      /\ Written(c, p) = p.length + 2
  BY DEF Carries, Written
<1>2. p.length \in Nat /\ k \in Int /\ (p.length + 2) - 1 \in Int
  BY PacketFacts, QueueFacts, DepthAssumption
<1>3. ~queue[c].tmp_empty
  BY QueueFacts, DepthAssumption
<1>4. ~Loading(c)'
  BY <1>3, QueueEdge
<1>5. /\ queue'[c] \in FifoState /\ FlagsExact(queue'[c])
      /\ Contents(queue'[c]) = Kept(c)
  BY <1>4, QueueEdge
<1>6. Written(c, p)' = p.length + 2
  BY <1>4 DEF Written
<1>7. Run(Kept(c), p, (p.length + 2) - 1) /\ Len(Kept(c)) = k - Reads(c)
  BY <1>1, <1>2, <1>3, KeptFacts DEF Reads
<1>8. Count(queue'[c]) = k - Reads(c)
  BY <1>5, <1>7, ContentsFacts
<1>9. BytesRead(c, p)' = BytesRead(c, p) + Reads(c)
  <2>1. BytesRead(c, p)' = (p.length + 2) - Count(queue'[c])
    BY <1>6, Zenon DEF BytesRead
  <2>2. BytesRead(c, p) = (p.length + 2) - k
    BY <1>1, Zenon DEF BytesRead
  <2>3. Reads(c) \in {0, 1}
    BY DEF Reads
  <2>4. QED
    BY <1>2, <1>8, <2>1, <2>2, <2>3
<1>10. QED
  BY <1>4, <1>5, <1>6, <1>7, <1>9 DEF ByteMoves

LEMMA DeliveryMoves ==
  ASSUME IInv, Flow, WritesHarmless, ParityFits, Negedge, NEW c \in Chan,
         NEW p \in Packets, Carries(c, p), Loading(c) \/ Count(queue[c]) > 0
  PROVE  ByteMoves(c, p)
<1>1. in_data_vld \in BOOLEAN /\ queue[c].tmp_full \in BOOLEAN
  BY QueueFacts DEF IInv, Types, FifoState
<1>2. QED
  BY <1>1, WriteMoves, HeldMoves, ReadMoves

\* The receiver takes back the channel when the parity byte is all there is.
LEMMA LastByte ==
  ASSUME IInv, Flow, NEW c \in Chan, NEW p \in Packets, Carries(c, p),
         rx[c].pc = "finish"
  PROVE  /\ clock = 1 /\ suspend[c] = FALSE /\ data_vld[c] = FALSE
         /\ ~Loading(c) /\ Count(queue[c]) = 1
         /\ BytesRead(c, p) = p.length + 1
         /\ cmon[c].pc = "parity"
<1>1. /\ clock = 1 /\ suspend[c] = FALSE /\ data_vld[c] = FALSE
      /\ ~Loading(c) /\ Count(queue[c]) = 1
  BY QueueFacts DEF Receiver
<1>2. p.length \in Nat
  BY PacketFacts
<1>3. BytesRead(c, p) = p.length + 1
  <2>1. BytesRead(c, p) = (p.length + 2) - 1
    BY <1>1, Zenon DEF BytesRead, Written
  <2>2. QED
    BY <1>2, <2>1
<1>4. Has(cmon[c], p, p.length + 1)
  BY <1>1, <1>3 DEF Carries, Follows
<1>5. QED
  BY <1>1, <1>2, <1>3, <1>4 DEF Has

\* A negative edge does not disturb the monitor of the channel.
LEMMA FollowsNegedge ==
  ASSUME IInv, Flow, WritesHarmless, Negedge, NEW c \in Chan,
         NEW p \in Packets, Carries(c, p), ByteMoves(c, p)
  PROVE  Follows(c, p, BytesRead(c, p))'
<1> DEFINE r == BytesRead(c, p)
<1>1. /\ clock = 1 /\ clock' = 0
      /\ cmon' = cmon /\ data' = data /\ data_vld' = data_vld
  BY DEF Negedge, DutNegedge
<1>2. /\ r \in Nat /\ Follows(c, p, r) /\ suspend[c] \in BOOLEAN
      /\ suspend'[c] \in BOOLEAN /\ BytesRead(c, p)' = r + Reads(c)
  BY QueueFacts, NegedgeIInv DEF Carries, ByteMoves, IInv, Types
<1>3. CASE suspend[c] = TRUE
  <2>1. r = 0 /\ cmon[c] = CmonIdle
    BY <1>1, <1>2, <1>3 DEF Follows
  <2>2. BytesRead(c, p)' = 0
    BY <1>2, <1>3, <2>1 DEF Reads
  <2>3. cmon[c].pc # "parity"
    BY <2>1 DEF CmonIdle
  <2>4. QED
    BY <1>1, <1>2, <2>1, <2>2, <2>3 DEF Follows
<1>4. CASE suspend[c] = FALSE
  <2>1. Has(cmon[c], p, r) /\ data[c] = ByteOf(p, r)
    BY <1>1, <1>2, <1>4 DEF Follows
  <2>2. BytesRead(c, p)' = r + 1 /\ r + 1 >= 1 /\ (r + 1) - 1 = r
    BY <1>2, <1>4 DEF Reads
  <2>3. CASE suspend'[c] = FALSE
    BY <1>1, <2>1, <2>2, <2>3 DEF Follows
  <2>4. CASE suspend'[c] = TRUE
    <3>1. rx[c].pc \in {"drain", "finish"}
      BY <1>4, QueueFacts DEF Receiver, RxType
    <3>2. suspend'[c] = CASE rx[c].pc = "respond" -> rx[c].left > 0
                          [] rx[c].pc = "finish"  -> TRUE
                          [] OTHER                -> suspend[c]
      BY DEF Negedge, RxNegedges
    <3>3. rx[c].pc = "finish"
      BY <1>4, <2>4, <3>1, <3>2
    <3>4. /\ ~Loading(c) /\ Count(queue[c]) = 1 /\ data_vld[c] = FALSE
          /\ r = p.length + 1 /\ cmon[c].pc = "parity"
      BY <3>3, LastByte
    <3>5. r + 1 = p.length + 2
      BY <3>4, PacketFacts
    <3>6. ~Loading(c)'
      BY <3>4 DEF ByteMoves
    <3>7. QED
      BY <1>1, <2>1, <2>2, <2>4, <3>4, <3>5, <3>6 DEF Follows
  <2>5. QED
    BY <1>2, <2>3, <2>4
<1>5. QED
  BY <1>2, <1>3, <1>4

\* A header that is taken starts a delivery.
LEMMA HeaderCarries ==
  ASSUME IInv, Flow, WritesHarmless, Negedge, NEW c \in Chan,
         ~Loading(c), Loading(c)', cmon[c] = CmonIdle, NEW p, p = drv.pkt
  PROVE  p \in Packets /\ Carries(c, p)'
<1>1. /\ queue'[c] \in FifoState /\ FlagsExact(queue'[c])
      /\ HeaderValid /\ in_data.pkt.addr = c /\ in_suspend = FALSE
      /\ Contents(queue'[c]) = Append(<< >>, in_data)
  BY QueueEdge
<1>2. in_data_vld /\ drv.pc # "idle" /\ in_data.pkt = p /\ p \in Packets
  BY <1>1, ValidByte DEF HeaderValid
<1>3. in_data = ByteOf(p, 0) /\ in_data.pos = 0 /\ in_data \in Slot
  BY <1>1, <1>2, BusByte DEF Slot
<1>4. drv'.pkt = p /\ in_data' = ByteOf(p, 1)
  BY <1>1, <1>2, <1>3, NextByte DEF Negedge
<1>5. in_data'.pos = 1
  BY <1>4 DEF ByteOf
<1>6. Run(Append(<< >>, in_data), p, 0)
  <2>1. << >> \in Seq(Slot) /\ Run(<< >>, p, 0 - 1)
    BY DEF Run
  <2>2. QED
    BY <1>3, <2>1, RunAppend
<1>7. Count(queue'[c]) = 1
  <2>1. Len(Append(<< >>, in_data)) = 1
    OBVIOUS
  <2>2. QED
    BY <1>1, <2>1, ContentsFacts
<1>8. Written(c, p)' = 1
  BY <1>4, <1>5 DEF Written
<1>9. BytesRead(c, p)' = 0
  BY <1>7, <1>8 DEF BytesRead
<1>10. Follows(c, p, BytesRead(c, p))'
  <2>1. clock' = 0 /\ cmon' = cmon
    BY DEF Negedge
  <2>2. cmon[c].pc # "parity"
    BY DEF CmonIdle
  <2>3. QED
    BY <1>9, <2>1, <2>2 DEF Follows
<1>11. Run(Contents(queue'[c]), p, Written(c, p)' - 1)
  BY <1>1, <1>6, <1>8
<1>12. QED
  BY <1>1, <1>2, <1>4, <1>9, <1>10, <1>11 DEF Carries

\* At a positive edge a delivery is still in the router.
LEMMA InRouter ==
  ASSUME IInv, Flow, NEW c \in Chan, NEW p \in Packets, Carries(c, p),
         clock = 1, Delivering(c)
  PROVE  Loading(c) \/ Count(queue[c]) > 0
<1>1. CASE cmon[c].pc = "parity"
  <2>1. suspend[c] = FALSE
    BY <1>1, QueueFacts DEF Carries, Follows
  <2>2. rx[c].pc \in {"drain", "finish"}
    BY <2>1, QueueFacts DEF Receiver, RxType
  <2>3. Count(queue[c]) > 0 \/ Count(queue[c]) = 1
    BY <2>2, QueueFacts DEF Receiver
  <2>4. QED
    BY <2>3
<1>2. QED
  BY <1>1 DEF Delivering

\* The monitor is not done when the buffer is.
LEMMA NotDone ==
  ASSUME NEW c \in Chan, NEW p \in Packets, Carries(c, p)', clock' = 0,
         suspend'[c] \in BOOLEAN, ~Loading(c)', Count(queue'[c]) = 0
  PROVE  cmon'[c].pc = "parity"
<1>1. p.length \in Nat
  BY PacketFacts
<1>2. BytesRead(c, p)' = p.length + 2
  <2>1. BytesRead(c, p)' = (p.length + 2) - 0
    BY Zenon DEF BytesRead, Written
  <2>2. QED
    BY <1>1, <2>1
<1>3. Follows(c, p, p.length + 2)'
  BY <1>2 DEF Carries
<1>4. (p.length + 2) # 0 /\ (p.length + 2) - 1 = p.length + 1
      /\ p.length + 1 # 0 /\ ~(p.length + 1 <= p.length)
  BY <1>1
<1>5. CASE suspend'[c] = TRUE
  BY <1>3, <1>4, <1>5 DEF Follows
<1>6. CASE suspend'[c] = FALSE
  <2>1. Has(cmon'[c], p, p.length + 1)
    BY <1>3, <1>4, <1>6 DEF Follows
  <2>2. QED
    BY <1>4, <2>1 DEF Has
<1>7. QED
  BY <1>5, <1>6
LEMMA DeliveryNegedge ==
  ASSUME IInv, Flow, WritesHarmless, ParityFits, Negedge, NEW c \in Chan,
         Delivery(c)
  PROVE  Delivery(c)'
<1>1. clock = 1 /\ clock' = 0 /\ cmon' = cmon /\ sb' = sb
  BY DEF Negedge, MirrorNegedge, WriteHbus, sbVars
<1>2. suspend'[c] \in BOOLEAN /\ in_data_vld \in BOOLEAN
  BY NegedgeIInv DEF IInv, Types
<1>3. CASE Delivering(c)
  <2>1. PICK p \in Packets : Carries(c, p) /\ (ReferenceMirrors => Expected(c, p))
    BY <1>3 DEF Delivery
  <2>2. ByteMoves(c, p)
    BY <1>1, <1>3, <2>1, InRouter, DeliveryMoves
  <2>3. Carries(c, p)'
    <3>1. BytesRead(c, p)' \in Nat
      BY <2>1, <2>2 DEF Carries, ByteMoves, Reads
    <3>2. Follows(c, p, BytesRead(c, p))'
      BY <2>1, <2>2, FollowsNegedge
    <3>3. QED
      BY <2>1, <2>2, <3>1, <3>2 DEF Carries, ByteMoves
  <2>4. Delivering(c)'
    <3>1. Count(queue'[c]) \in Nat
      <4>1. queue'[c] \in FifoState /\ FlagsExact(queue'[c])
        BY QueueEdge
      <4>2. Count(queue'[c]) \in 0 .. Depth
        BY <4>1, CountFacts
      <4>3. QED
        BY <4>2, DepthAssumption
    <3>2. QED
      BY <1>1, <1>2, <2>3, <3>1, NotDone DEF Delivering
  <2>5. ASSUME ReferenceMirrors PROVE Expected(c, p)'
    <3>1. CASE Loading(c) /\ in_data_vld
      <4>1. drv.pc # "release"
        BY <3>1, ValidByte
      <4>2. Loading(c)'
        BY <3>1, QueueEdge
      <4>3. QED
        BY <1>1, <2>1, <2>5, <3>1, <4>1, <4>2 DEF Expected
    <3>2. CASE Loading(c) /\ ~in_data_vld
      <4>1. drv.pc = "release"
        BY <3>2, QueueFacts DEF BufferLoading, IInv, AtByte, Types, DrvType
      <4>2. ~Loading(c)'
        BY <3>2, QueueEdge
      <4>3. QED
        BY <1>1, <2>1, <2>5, <4>1, <4>2 DEF Expected
    <3>3. CASE ~Loading(c)
      BY <1>1, <2>1, <2>2, <2>5, <3>3 DEF Expected, ByteMoves
    <3>4. QED
      BY <3>1, <3>2, <3>3
  <2>6. QED
    BY <2>3, <2>4, <2>5 DEF Delivery
<1>4. CASE ~Delivering(c)
  <2>1. /\ ~Loading(c) /\ cmon[c] = CmonIdle
        /\ ReferenceMirrors => sb[c].queue = << >>
    BY <1>4 DEF Delivery, Delivering
  <2>2. Count(queue[c]) = 0
    BY <1>4, QueueFacts, DepthAssumption DEF Delivering
  <2>3. CASE Loading(c)'
    <3>1. PICK p : p = drv.pkt
      OBVIOUS
    <3>2. p \in Packets /\ Carries(c, p)'
      BY <2>1, <2>3, <3>1, HeaderCarries
    <3>3. ReferenceMirrors => Expected(c, p)'
      BY <1>1, <2>1, <2>3 DEF Expected
    <3>4. QED
      BY <2>3, <3>2, <3>3 DEF Delivery, Delivering
  <2>4. CASE ~Loading(c)'
    <3>1. /\ queue'[c] \in FifoState /\ FlagsExact(queue'[c])
          /\ Contents(queue'[c]) = Kept(c)
      BY <2>1, <2>4, QueueEdge
    <3>2. queue[c].tmp_empty
      BY <2>2, QueueFacts
    <3>3. Count(queue'[c]) = 0
      BY <2>2, <3>1, <3>2, KeptFacts, ContentsFacts
    <3>4. ~Delivering(c)'
      BY <1>1, <2>1, <2>4, <3>3 DEF Delivering, CmonIdle
    <3>5. QED
      BY <1>1, <2>1, <3>4 DEF Delivery
  <2>5. QED
    BY <2>3, <2>4
<1>5. QED
  BY <1>3, <1>4

\* A negative edge of the receiver, case by case.
LEMMA RxNegedge ==
  ASSUME IInv, Flow, RxNegedges, NEW c \in Chan
  PROVE  /\ rx[c] \in RxType
         /\ rx[c].pc = "wait" => rx'[c] = rx[c]
         /\ rx[c].pc = "respond" /\ rx[c].left > 0 =>
              rx'[c] = [rx[c] EXCEPT !.left = @ - 1]
         /\ rx[c].pc = "respond" /\ rx[c].left = 0 => rx'[c] = [rx[c] EXCEPT !.pc = "drain"]
         /\ rx[c].pc = "drain" => rx'[c] = rx[c]
         /\ rx[c].pc = "finish" => rx'[c] = [rx[c] EXCEPT !.pc = "wait"]
<1>1. rx[c] \in RxType /\ (rx[c].pc = "respond" => data_vld[c])
  BY QueueFacts DEF Receiver
<1>2. rx'[c] = CASE rx[c].pc = "respond" /\ rx[c].left > 0 ->
                      [rx[c] EXCEPT !.left = @ - 1]
                 [] rx[c].pc = "respond" /\ rx[c].left = 0 ->
                      [rx[c] EXCEPT !.pc = IF data_vld[c] THEN "drain" ELSE "finish"]
                 [] rx[c].pc = "finish" -> [rx[c] EXCEPT !.pc = "wait"]
                 [] OTHER -> rx[c]
  BY DEF RxNegedges
<1>3. rx[c].left > 0 <=> ~(rx[c].left = 0)
  BY <1>1 DEF RxType
<1>4. rx[c].pc = "wait" => rx'[c] = rx[c]
  BY <1>2
<1>5. rx[c].pc = "respond" /\ rx[c].left > 0 => rx'[c] = [rx[c] EXCEPT !.left = @ - 1]
  BY <1>2, <1>3
<1>6. ASSUME rx[c].pc = "respond", rx[c].left = 0
      PROVE  rx'[c] = [rx[c] EXCEPT !.pc = "drain"]
  <2>1. (rx[c].left > 0) = FALSE /\ data_vld[c]
    BY <1>1, <1>3, <1>6
  <2>2. QED
    BY <1>2, <1>6, <2>1
<1>7. rx[c].pc = "drain" => rx'[c] = rx[c]
  BY <1>2
<1>8. rx[c].pc = "finish" => rx'[c] = [rx[c] EXCEPT !.pc = "wait"]
  BY <1>2
<1>9. QED
  BY <1>1, <1>4, <1>5, <1>6, <1>7, <1>8

LEMMA ResponseNegedge ==
  ASSUME IInv, Flow, Negedge, NEW c \in Chan, Response(c), Delivery(c)
  PROVE  Response(c)'
<1>1. /\ clock = 1 /\ clock' = 0 /\ cmon' = cmon /\ cresp' = cresp
      /\ RxNegedges /\ rx[c] \in RxType
  BY RxNegedge DEF Negedge
<1>2. /\ rx[c].left \in Nat /\ rx[c].delay \in Nat
      /\ rx[c].pc \in {"wait", "respond", "drain", "finish"}
  BY <1>1 DEF RxType
<1>3. CASE rx[c].pc = "wait"
  <2>1. rx'[c] = rx[c]
    BY <1>1, <1>3, RxNegedge
  <2>2. suspend[c] = TRUE
    BY <1>3, QueueFacts DEF Receiver
  <2>3. cmon[c].pc # "parity"
    BY <1>1, <2>2 DEF Delivery, Delivering, Carries, Follows, CmonIdle
  <2>4. QED
    BY <1>1, <1>3, <2>1, <2>3 DEF Response
<1>4. CASE rx[c].pc = "respond" /\ rx[c].left > 0
  <2>1. rx'[c] = [rx[c] EXCEPT !.left = @ - 1]
    BY <1>1, <1>4, RxNegedge
  <2>2. /\ rx'[c].pc = "respond" /\ rx'[c].delay = rx[c].delay
        /\ rx'[c].left = rx[c].left - 1
    BY <1>1, <1>4, <2>1 DEF RxType
  <2>3. rx'[c].delay - rx'[c].left - (1 - clock') = rx[c].delay - rx[c].left - (1 - clock)
    BY <1>1, <1>2, <2>2
  <2>4. cresp'[c] = [pc |-> "count",
                     delay |-> rx'[c].delay - rx'[c].left - (1 - clock')]
    BY <1>1, <1>4, <2>3 DEF Response
  <2>5. QED
    BY <2>2, <2>4 DEF Response
<1>5. CASE rx[c].pc = "respond" /\ rx[c].left = 0
  <2>1. rx'[c] = [rx[c] EXCEPT !.pc = "drain"]
    BY <1>1, <1>5, RxNegedge
  <2>2. rx'[c].pc = "drain" /\ rx'[c].delay = rx[c].delay
    BY <1>1, <2>1 DEF RxType
  <2>3. rx[c].delay - rx[c].left - (1 - clock) = rx[c].delay
    BY <1>1, <1>2, <1>5
  <2>4. cresp'[c] = [pc |-> "count", delay |-> rx'[c].delay]
    BY <1>1, <1>5, <2>2, <2>3 DEF Response
  <2>5. QED
    BY <2>2, <2>4 DEF Response
<1>6. CASE rx[c].pc = "drain"
  <2>1. rx'[c] = rx[c]
    BY <1>1, <1>6, RxNegedge
  <2>2. QED
    BY <1>1, <1>6, <2>1 DEF Response
<1>7. CASE rx[c].pc = "finish"
  <2>1. rx'[c] = [rx[c] EXCEPT !.pc = "wait"]
    BY <1>1, <1>7, RxNegedge
  <2>2. rx'[c].pc = "wait" /\ rx'[c].delay = rx[c].delay
    BY <1>1, <2>1 DEF RxType
  <2>3. Delivering(c)
    <3>1. Count(queue[c]) = 1
      BY <1>7, QueueFacts DEF Receiver
    <3>2. QED
      BY <3>1 DEF Delivering
  <2>4. cmon'[c].pc = "parity"
    BY <1>1, <1>7, <2>3, LastByte DEF Delivery
  <2>5. QED
    BY <1>1, <1>7, <2>2, <2>4 DEF Response
<1>8. QED
  <2>1. rx[c].left > 0 \/ rx[c].left = 0
    BY <1>2
  <2>2. QED
    BY <1>2, <1>3, <1>4, <1>5, <1>6, <1>7, <2>1

-----------------------------------------------------------------------------
(***************************************************************************)
(* A positive edge, one channel.                                           *)
(***************************************************************************)

\* The monitor before it waits for the parity byte: nothing moves, data_vld
\* is seen, the header or a byte of the payload is taken.
CmonNext(c) ==
  /\ suspend[c] = TRUE \/ (cmon[c].pc = "idle" /\ data_vld[c] = FALSE) =>
       cmon'[c] = cmon[c]
  /\ suspend[c] = FALSE /\ cmon[c].pc = "idle" /\ data_vld[c] = TRUE =>
       cmon'[c] = [cmon[c] EXCEPT !.pc = "header"]
  /\ suspend[c] = FALSE /\ cmon[c].pc = "header" =>
       \E x \in LengthField(data[c]) :
         cmon'[c] = [pc |-> "payload", got |-> <<data[c]>>, length |-> x]
  /\ suspend[c] = FALSE /\ cmon[c].pc = "payload" =>
       cmon'[c] = [cmon[c] EXCEPT !.got = Append(@, data[c]),
                                  !.pc = IF Len(cmon[c].got) = cmon[c].length
                                         THEN "parity" ELSE "payload"]

LEMMA CmonPosedge ==
  ASSUME MonitorPosedges, NEW c \in Chan, suspend[c] \in BOOLEAN,
         data_vld[c] \in BOOLEAN, cmon[c] \in MonType,
         cmon[c].pc \in {"idle", "header", "payload"}
  PROVE  CmonNext(c) /\ cresp'[c] = CrespStep(c)
<1>1. PICK n \in [{x \in Chan : CmonReadsHeader(x)} -> 1 .. MaxLength] :
        /\ \A x \in DOMAIN n : n[x] \in LengthField(data[x])
        /\ cmon' = [x \in Chan |->
                      IF CmonStep(x, n).pc = "done" /\ CrespStep(x).pc = "done"
                      THEN CmonIdle ELSE CmonStep(x, n)]
        /\ cresp' = [x \in Chan |->
                       IF CmonStep(x, n).pc = "done" /\ CrespStep(x).pc = "done"
                       THEN CrespIdle ELSE CrespStep(x)]
  BY DEF MonitorPosedges
<1> DEFINE s == CmonStep(c, n)
<1>2. s.pc # "done" => cmon'[c] = s /\ cresp'[c] = CrespStep(c)
  BY <1>1
<1>3. CASE suspend[c] = TRUE \/ (cmon[c].pc = "idle" /\ data_vld[c] = FALSE)
  <2>1. s = cmon[c]
    BY <1>3 DEF CmonStep, CmonReadsHeader
  <2>2. s.pc # "done"
    BY <2>1
  <2>3. QED
    BY <1>2, <1>3, <2>1, <2>2 DEF CmonNext
<1>4. CASE suspend[c] = FALSE /\ cmon[c].pc = "idle" /\ data_vld[c] = TRUE
  <2>1. s = [cmon[c] EXCEPT !.pc = "header"]
    BY <1>4 DEF CmonStep, CmonReadsHeader
  <2>2. s.pc # "done"
    BY <2>1 DEF MonType
  <2>3. QED
    BY <1>2, <1>4, <2>1, <2>2 DEF CmonNext
<1>5. CASE suspend[c] = FALSE /\ cmon[c].pc = "header"
  <2>1. CmonReadsHeader(c)
    BY <1>5 DEF CmonReadsHeader
  <2>2. n[c] \in LengthField(data[c])
    BY <1>1, <2>1
  <2>3. s = [pc |-> "payload", got |-> <<data[c]>>, length |-> n[c]]
    BY <1>5, <2>1 DEF CmonStep
  <2>4. s.pc # "done"
    BY <2>3
  <2>5. QED
    BY <1>2, <1>5, <2>2, <2>3, <2>4 DEF CmonNext
<1>6. CASE suspend[c] = FALSE /\ cmon[c].pc = "payload"
  <2>1. s = [cmon[c] EXCEPT !.got = Append(@, data[c]),
                            !.pc = IF Len(cmon[c].got) = cmon[c].length
                                   THEN "parity" ELSE "payload"]
    BY <1>6 DEF CmonStep, CmonReadsHeader
  <2>2. s.pc # "done"
    BY <2>1 DEF MonType
  <2>3. QED
    BY <1>2, <1>6, <2>1, <2>2 DEF CmonNext
<1>7. QED
  BY <1>3, <1>4, <1>5, <1>6

\* The two tasks end together.
LEMMA CmonJoins ==
  ASSUME MonitorPosedges, NEW c \in Chan, cmon[c].pc = "parity",
         CrespStep(c).pc = "done"
  PROVE  cmon'[c] = CmonIdle /\ cresp'[c] = CrespIdle
<1>1. PICK n \in [{x \in Chan : CmonReadsHeader(x)} -> 1 .. MaxLength] :
        /\ cmon' = [x \in Chan |->
                      IF CmonStep(x, n).pc = "done" /\ CrespStep(x).pc = "done"
                      THEN CmonIdle ELSE CmonStep(x, n)]
        /\ cresp' = [x \in Chan |->
                       IF CmonStep(x, n).pc = "done" /\ CrespStep(x).pc = "done"
                       THEN CrespIdle ELSE CrespStep(x)]
  BY DEF MonitorPosedges
<1>2. CmonStep(c, n) = [CmonIdle EXCEPT !.pc = "done"]
  BY DEF CmonStep, CmonReadsHeader
<1>3. CmonStep(c, n).pc = "done"
  BY <1>2 DEF CmonIdle
<1>4. QED
  BY <1>1, <1>3

LEMMA CmonIdleType == CmonIdle \in MonType /\ CmonIdle.pc = "idle"
<1>1. "idle" \in {"idle", "header", "payload", "parity", "done"} /\ 0 \in Int
  OBVIOUS
<1>2. CmonIdle \in MonType
  BY <1>1, NothingGot, MonRecord, Zenon DEF CmonIdle
<1>3. QED
  BY <1>2 DEF CmonIdle

\* While the receiver drains the channel the parity byte is still to come.
LEMMA DrainShape ==
  ASSUME IInv, Flow, NEW c \in Chan, NEW p \in Packets, Carries(c, p),
         clock = 0, suspend[c] = FALSE
  PROVE  /\ rx[c].pc = "drain" /\ data_vld[c] = TRUE /\ Count(queue[c]) > 0
         /\ \/ BytesRead(c, p) = 0 /\ cmon[c] = CmonIdle
            \/ /\ BytesRead(c, p) - 1 \in 0 .. p.length
               /\ Has(cmon[c], p, BytesRead(c, p) - 1)
               /\ data[c] = ByteOf(p, BytesRead(c, p) - 1)
         /\ cmon[c] \in MonType /\ cmon[c].pc \in {"idle", "header", "payload"}
<1> DEFINE r == BytesRead(c, p)
           k == Count(queue[c])
<1>1. rx[c].pc = "drain"
  BY QueueFacts DEF Receiver, RxType
<1>2. data_vld[c] = TRUE /\ k > 0 /\ k \in Nat
  BY <1>1, QueueFacts, DepthAssumption DEF Receiver, IInv, Types
<1>3. r \in Nat /\ p.length \in Nat
  BY PacketFacts DEF Carries
<1>4. r <= p.length + 1
  <2>1. CASE Loading(c)
    <3>1. drv.pc # "idle" /\ drv.pkt = p
      BY <2>1, QueueFacts DEF BufferLoading, Carries
    <3>2. in_data.pos \in 0 .. p.length + 1
      BY <3>1, BusByte
    <3>3. r = in_data.pos - k
      BY <2>1 DEF BytesRead, Written
    <3>4. QED
      BY <1>2, <1>3, <3>2, <3>3
  <2>2. CASE ~Loading(c)
    <3>1. r = (p.length + 2) - k
      BY <2>2, Zenon DEF BytesRead, Written
    <3>2. QED
      BY <1>2, <1>3, <3>1
  <2>3. QED
    BY <2>1, <2>2
<1>5. Follows(c, p, r)
  BY DEF Carries
<1>6. CASE r = 0 /\ cmon[c] = CmonIdle
  BY <1>1, <1>2, <1>6, CmonIdleType
<1>7. CASE r >= 1 /\ Has(cmon[c], p, r - 1) /\ data[c] = ByteOf(p, r - 1)
  <2>1. r - 1 \in 0 .. p.length
    BY <1>3, <1>4, <1>7
  <2>2. cmon[c] \in MonType /\ cmon[c].pc \in {"header", "payload"}
    BY <1>7, <2>1 DEF Has
  <2>3. QED
    BY <1>1, <1>2, <1>7, <2>1, <2>2
<1>8. QED
  BY <1>5, <1>6, <1>7 DEF Follows

\* A monitor that waits for the parity byte gets it at the next edge.
LEMMA ParityShape ==
  ASSUME IInv, Flow, NEW c \in Chan, Delivery(c), clock = 0,
         cmon[c].pc = "parity"
  PROVE  /\ suspend[c] = TRUE /\ data_vld[c] = FALSE /\ rx[c].pc = "wait"
         /\ ~Loading(c) /\ Count(queue[c]) = 0
         /\ \E p \in Packets : /\ p.addr = c /\ CmonPacket(c) = Whole(p)
                               /\ ReferenceMirrors => Expected(c, p)
<1>1. PICK p \in Packets : Carries(c, p) /\ (ReferenceMirrors => Expected(c, p))
  BY DEF Delivery, Delivering
<1>2. suspend[c] = TRUE
  BY <1>1, DrainShape, QueueFacts
<1>3. /\ ~Loading(c) /\ data_vld[c] = FALSE /\ BytesRead(c, p) = p.length + 2
      /\ Has(cmon[c], p, BytesRead(c, p) - 1)
      /\ data[c] = ByteOf(p, BytesRead(c, p) - 1)
  BY <1>1, <1>2 DEF Carries, Follows
<1>4. p.length \in Nat /\ (p.length + 2) - 1 = p.length + 1
  BY PacketFacts
<1>5. CmonPacket(c) = Whole(p)
  BY <1>3, <1>4, MonitorCompletes DEF CmonPacket
<1>6. Count(queue[c]) = 0
  <2>1. BytesRead(c, p) = (p.length + 2) - Count(queue[c])
    BY <1>3, Zenon DEF BytesRead, Written
  <2>2. Count(queue[c]) \in Nat
    BY QueueFacts, DepthAssumption
  <2>3. QED
    BY <1>3, <1>4, <2>1, <2>2
<1>7. rx[c].pc = "wait"
  <2>1. rx[c].pc # "respond"
    BY <1>3, QueueFacts DEF Receiver
  <2>2. QED
    BY <1>2, <2>1, QueueFacts DEF Receiver
<1>8. QED
  BY <1>1, <1>2, <1>3, <1>5, <1>6, <1>7 DEF Carries

\* A held channel's monitor waits for data_vld.
LEMMA HeldShape ==
  ASSUME NEW c \in Chan, Delivery(c), suspend[c] = TRUE, cmon[c].pc # "parity"
  PROVE  cmon[c] = CmonIdle /\ cmon[c] \in MonType /\ cmon[c].pc = "idle"
<1>1. cmon[c] = CmonIdle
  BY DEF Delivery, Carries, Follows
<1>2. QED
  BY <1>1, CmonIdleType

\* The router shows the byte that is read next.
LEMMA DataShown ==
  ASSUME IInv, Flow, Posedge, NEW c \in Chan, NEW p \in Packets, Carries(c, p),
         Count(queue[c]) > 0
  PROVE  data'[c] = ByteOf(p, BytesRead(c, p))
<1> DEFINE f == queue[c]
           q == Contents(f)
           last == Written(c, p) - 1
<1>1. f \in FifoState /\ FlagsExact(f) /\ ~f.tmp_empty
  BY QueueFacts, DepthAssumption
<1>2. q \in Seq(Slot) /\ Len(q) = Count(f) /\ Head(q) = f.ram[f.read_ptr]
  BY <1>1, ContentsFacts
<1>3. Run(q, p, last)
  BY DEF Carries
<1>4. q[1] = ByteOf(p, last - Len(q) + 1)
  BY <1>2, <1>3, DepthAssumption DEF Run
<1>5. Head(q) = q[1]
  BY <1>2
<1>6. last - Len(q) + 1 = BytesRead(c, p)
  <2>1. Written(c, p) \in Int
    <3>1. p.length \in Nat
      BY PacketFacts
    <3>2. ASSUME Loading(c) PROVE in_data.pos \in Int
      <4>1. drv.pc # "idle"
        BY <3>2, QueueFacts DEF BufferLoading
      <4>2. drv.pkt \in Packets /\ in_data.pos \in 0 .. drv.pkt.length + 1
        BY <4>1, BusByte
      <4>3. QED
        BY <4>2, PacketFacts
    <3>3. QED
      BY <3>1, <3>2 DEF Written
  <2>2. Count(f) \in Int
    BY QueueFacts, DepthAssumption
  <2>3. BytesRead(c, p) = Written(c, p) - Count(f)
    BY DEF BytesRead
  <2>4. QED
    BY <1>2, <2>1, <2>2, <2>3
<1>7. data'[c] = f.ram[f.read_ptr]
  BY DEF Posedge, DutPosedge
<1>8. QED
  BY <1>2, <1>4, <1>5, <1>6, <1>7

LEMMA CarriesPosedge ==
  ASSUME IInv, Flow, Posedge, NEW c \in Chan, NEW p \in Packets, Carries(c, p),
         Delivery(c), cmon[c].pc # "parity"
  PROVE  Carries(c, p)'
<1> DEFINE r == BytesRead(c, p)
<1>1. /\ drv' = drv /\ in_data' = in_data /\ queue' = queue /\ suspend' = suspend
      /\ state_r' = state_r /\ dest_chan_r' = dest_chan_r
      /\ clock = 0 /\ clock' = 1 /\ MonitorPosedges
  BY PosedgeKeeps DEF Posedge
<1>2. (Loading(c)' <=> Loading(c)) /\ Written(c, p)' = Written(c, p)
      /\ BytesRead(c, p)' = r
  BY <1>1 DEF Loading, Written, BytesRead
<1>3. suspend[c] \in BOOLEAN /\ data_vld[c] \in BOOLEAN /\ r \in Nat
  BY DEF IInv, Types, Carries
<1>4. CASE suspend[c] = TRUE
  <2>1. r = 0 /\ cmon[c] = CmonIdle
    BY <1>4 DEF Carries, Follows
  <2>2. cmon'[c] = cmon[c]
    BY <1>1, <1>3, <1>4, HeldShape, CmonPosedge DEF CmonNext
  <2>3. Follows(c, p, r)'
    BY <1>1, <1>2, <1>4, <2>1, <2>2, CmonIdleType DEF Follows
  <2>4. QED
    BY <1>1, <1>2, <1>3, <2>3 DEF Carries
<1>5. CASE suspend[c] = FALSE
  <2>1. /\ data_vld[c] = TRUE /\ Count(queue[c]) > 0
        /\ cmon[c] \in MonType /\ cmon[c].pc \in {"idle", "header", "payload"}
        /\ \/ r = 0 /\ cmon[c] = CmonIdle
           \/ /\ r - 1 \in 0 .. p.length
              /\ Has(cmon[c], p, r - 1)
              /\ data[c] = ByteOf(p, r - 1)
    BY <1>1, <1>5, DrainShape
  <2>2. data'[c] = ByteOf(p, r)
    BY <2>1, DataShown
  <2>3. CmonNext(c)
    BY <1>1, <1>3, <2>1, CmonPosedge
  <2>4. ASSUME r = 0, cmon[c] = CmonIdle PROVE Has(cmon'[c], p, r)
    <3>1. cmon'[c] = [CmonIdle EXCEPT !.pc = "header"]
      BY <1>5, <2>1, <2>3, <2>4, CmonIdleType DEF CmonNext
    <3>2. cmon'[c] = [pc |-> "header", got |-> << >>, length |-> 0]
      BY <3>1 DEF CmonIdle
    <3>3. Has(cmon'[c], p, 0)
      BY <3>2, StartsEmpty, NothingGot
    <3>4. QED
      BY <2>4, <3>3
  <2>5. ASSUME r - 1 \in 0 .. p.length, Has(cmon[c], p, r - 1),
               data[c] = ByteOf(p, r - 1)
        PROVE  Has(cmon'[c], p, r)
    <3> DEFINE n == r - 1
    <3>1. cmon[c].pc = IF n = 0 THEN "header" ELSE "payload"
      BY <2>5 DEF Has
    <3>2. ASSUME n = 0
          PROVE  cmon'[c] = [pc |-> "payload", got |-> <<ByteOf(p, n)>>,
                             length |-> p.length]
      <4>1. PICK x \in LengthField(data[c]) :
              cmon'[c] = [pc |-> "payload", got |-> <<data[c]>>, length |-> x]
        BY <1>5, <2>3, <3>1, <3>2 DEF CmonNext
      <4>2. x = p.length
        BY <2>5, <3>2 DEF LengthField, IsHeader, ByteOf
      <4>3. QED
        BY <2>5, <4>1, <4>2
    <3>3. ASSUME n > 0
          PROVE  cmon'[c] = [cmon[c] EXCEPT !.got = Append(@, ByteOf(p, n)),
                               !.pc = IF Len(cmon[c].got) = cmon[c].length
                                      THEN "parity" ELSE "payload"]
      <4>1. cmon[c].pc = "payload"
        BY <1>3, <3>1, <3>3
      <4>2. cmon'[c] = [cmon[c] EXCEPT !.got = Append(@, data[c]),
                               !.pc = IF Len(cmon[c].got) = cmon[c].length
                                      THEN "parity" ELSE "payload"]
        BY <1>5, <2>3, <4>1 DEF CmonNext
      <4>3. QED
        BY <2>5, <4>2
    <3>4. Has(cmon'[c], p, n + 1)
      <4> HIDE DEF n
      <4>1. n \in 0 .. p.length /\ Has(cmon[c], p, n)
        BY <2>5 DEF n
      <4>2. QED
        BY <3>2, <3>3, <4>1, MonitorTakes
    <3>5. QED
      <4>1. n + 1 = r
        BY <1>3
      <4>2. QED
        BY <3>4, <4>1
  <2>6. Has(cmon'[c], p, r)
    BY <2>1, <2>4, <2>5
  <2>7. Follows(c, p, r)'
    BY <1>1, <1>2, <1>5, <2>2, <2>6 DEF Follows
  <2>8. QED
    BY <1>1, <1>2, <1>3, <2>7 DEF Carries
<1>6. QED
  BY <1>3, <1>4, <1>5

LEMMA MonitorTyped ==
  ASSUME IInv, Flow, NEW c \in Chan, Delivery(c), clock = 0, cmon[c].pc # "parity"
  PROVE  /\ cmon[c] \in MonType /\ cmon[c].pc \in {"idle", "header", "payload"}
         /\ suspend[c] \in BOOLEAN /\ data_vld[c] \in BOOLEAN
<1>1. suspend[c] \in BOOLEAN /\ data_vld[c] \in BOOLEAN
  BY DEF IInv, Types
<1>2. CASE suspend[c] = TRUE
  BY <1>1, <1>2, HeldShape
<1>3. CASE suspend[c] = FALSE
  <2>1. rx[c].pc = "drain"
    BY <1>3, QueueFacts DEF Receiver, RxType
  <2>2. Count(queue[c]) > 0
    BY <2>1, QueueFacts DEF Receiver
  <2>3. PICK p \in Packets : Carries(c, p)
    BY <2>2 DEF Delivery, Delivering
  <2>4. QED
    BY <1>1, <1>3, <2>3, DrainShape
<1>4. QED
  BY <1>1, <1>2, <1>3

\* A positive edge of the receiver, case by case.
LEMMA RxPosedge ==
  ASSUME RxPosedges, NEW c \in Chan, rx[c] \in RxType
  PROVE  /\ rx[c].pc = "wait" /\ data_vld[c] =>
              \E d \in Nat : rx'[c] = [pc |-> "respond", left |-> d, delay |-> d]
         /\ rx[c].pc = "wait" /\ ~data_vld[c] => rx'[c] = rx[c]
         /\ rx[c].pc = "respond" => rx'[c] = rx[c]
         /\ rx[c].pc = "drain" => /\ rx'[c].pc \in {"drain", "finish"}
                                  /\ rx'[c].delay = rx[c].delay
<1>1. PICK delay \in [{x \in Chan : RxWakes(x)} -> RespDelays] :
        rx'[c] = CASE RxWakes(c) ->
                        [pc |-> "respond", left |-> delay[c], delay |-> delay[c]]
                   [] rx[c].pc = "drain" /\ ~data_vld'[c] ->
                        [rx[c] EXCEPT !.pc = "finish"]
                   [] OTHER -> rx[c]
  BY DEF RxPosedges
<1>2. ASSUME rx[c].pc = "wait", data_vld[c]
      PROVE  \E d \in Nat : rx'[c] = [pc |-> "respond", left |-> d, delay |-> d]
  <2>1. RxWakes(c)
    BY <1>2 DEF RxWakes
  <2>2. delay[c] \in Nat
    BY <2>1, RespDelaysAssumption
  <2>3. rx'[c] = [pc |-> "respond", left |-> delay[c], delay |-> delay[c]]
    BY <1>1, <1>2, <2>1
  <2>4. QED
    BY <2>2, <2>3
<1>3. rx[c].pc = "wait" /\ ~data_vld[c] => rx'[c] = rx[c]
  BY <1>1 DEF RxWakes
<1>4. rx[c].pc = "respond" => rx'[c] = rx[c]
  BY <1>1 DEF RxWakes
<1>5. ASSUME rx[c].pc = "drain"
      PROVE  rx'[c].pc \in {"drain", "finish"} /\ rx'[c].delay = rx[c].delay
  <2>1. rx'[c] = rx[c] \/ rx'[c] = [rx[c] EXCEPT !.pc = "finish"]
    BY <1>1, <1>5 DEF RxWakes
  <2>2. QED
    BY <1>5, <2>1 DEF RxType
<1>6. QED
  BY <1>2, <1>3, <1>4, <1>5

\* collect_response counts one edge of the delay, ends, or waits.
LEMMA ResponsePosedge ==
  ASSUME IInv, Flow, Posedge, NEW c \in Chan, Response(c), Delivery(c)
  PROVE  /\ Response(c)' /\ (cmon[c].pc = "parity" => cmon'[c] = CmonIdle)
         /\ CrespCollects(c) => CrespStep(c).delay = rx[c].delay
<1> DEFINE seen == cresp[c].delay + (IF suspend[c] THEN 1 ELSE 0)
<1>1. /\ clock = 0 /\ clock' = 1 /\ MonitorPosedges /\ RxPosedges
      /\ rx[c] \in RxType /\ data_vld[c] \in BOOLEAN
      /\ rx[c].pc # "finish" /\ (suspend[c] <=> rx[c].pc \in {"wait", "respond"})
      /\ rx[c].pc \in {"respond", "drain"} => data_vld[c] = TRUE
  BY QueueFacts DEF Posedge, Receiver, IInv, Types
<1>2. /\ rx[c].left \in Nat /\ rx[c].delay \in Nat
      /\ rx[c].pc \in {"wait", "respond", "drain"}
  BY <1>1 DEF RxType
<1>3. CASE cmon[c].pc = "parity"
  <2>1. suspend[c] = TRUE /\ data_vld[c] = FALSE /\ rx[c].pc = "wait"
    BY <1>1, <1>3, ParityShape
  <2>2. cresp[c] = [pc |-> "count", delay |-> rx[c].delay]
    BY <1>3, <2>1 DEF Response
  <2>3. cresp[c].pc = "count" /\ cresp[c].delay = rx[c].delay
    BY <2>2
  <2>4. seen # 0 /\ seen - 1 = rx[c].delay
    BY <1>2, <2>1, <2>3
  <2>5. CrespStep(c) = [pc |-> "done", delay |-> IF seen = 0 THEN 0 ELSE seen - 1]
    BY <2>1, <2>3 DEF CrespStep
  <2>6. CrespStep(c).pc = "done" /\ CrespStep(c).delay = rx[c].delay
    BY <2>4, <2>5
  <2>7. cmon'[c] = CmonIdle /\ cresp'[c] = CrespIdle
    BY <1>1, <1>3, <2>6, CmonJoins
  <2>8. rx'[c] = rx[c]
    BY <1>1, <2>1, RxPosedge
  <2>9. QED
    BY <2>1, <2>6, <2>7, <2>8, CmonIdleType DEF Response
<1>4. CASE cmon[c].pc # "parity"
  <2>1. cresp'[c] = CrespStep(c) /\ CmonNext(c)
    BY <1>1, <1>4, MonitorTyped, CmonPosedge
  <2>2. CASE rx[c].pc = "wait"
    <3>1. cresp[c] = CrespIdle /\ suspend[c] = TRUE
      BY <1>1, <1>4, <2>2 DEF Response
    <3>2. cmon'[c].pc # "parity"
      BY <1>4, <2>1, <3>1 DEF CmonNext
    <3>3. cresp[c].pc = "idle"
      BY <3>1 DEF CrespIdle
    <3>4. CASE data_vld[c] = TRUE
      <4>1. cresp'[c] = [pc |-> "count", delay |-> 0]
        BY <2>1, <3>3, <3>4 DEF CrespStep
      <4>2. PICK d \in Nat : rx'[c] = [pc |-> "respond", left |-> d, delay |-> d]
        BY <1>1, <2>2, <3>4, RxPosedge
      <4>3. rx'[c].pc = "respond" /\ rx'[c].left = d /\ rx'[c].delay = d
        BY <4>2
      <4>4. rx'[c].delay - rx'[c].left - (1 - clock') = 0
        BY <1>1, <4>3
      <4>5. QED
        BY <3>3, <4>1, <4>3, <4>4 DEF Response, CrespCollects
    <3>5. CASE data_vld[c] = FALSE
      <4>1. cresp'[c] = CrespIdle
        BY <2>1, <3>1, <3>3, <3>5 DEF CrespStep
      <4>2. rx'[c] = rx[c]
        BY <1>1, <2>2, <3>5, RxPosedge
      <4>3. QED
        BY <2>2, <3>2, <3>3, <4>1, <4>2 DEF Response, CrespCollects
    <3>6. QED
      BY <1>1, <3>4, <3>5
  <2>3. CASE rx[c].pc = "respond"
    <3>1. cresp[c] = [pc |-> "count", delay |-> rx[c].delay - rx[c].left - (1 - clock)]
          /\ suspend[c] = TRUE /\ data_vld[c] = TRUE
      BY <1>1, <2>3 DEF Response
    <3>2. cresp[c].pc = "count" /\ cresp[c].delay = rx[c].delay - rx[c].left - 1
      BY <1>1, <1>2, <3>1
    <3>3. cresp'[c] = [cresp[c] EXCEPT !.delay = seen]
      BY <2>1, <3>1, <3>2 DEF CrespStep
    <3>4. rx'[c] = rx[c]
      BY <1>1, <2>3, RxPosedge
    <3>5. seen = rx'[c].delay - rx'[c].left - (1 - clock')
      BY <1>1, <1>2, <3>1, <3>2, <3>4
    <3>6. cresp'[c] = [pc |-> "count", delay |-> seen]
      <4> HIDE DEF seen
      <4> QED
        BY <3>1, <3>3
    <3>7. QED
      BY <1>4, <2>3, <3>1, <3>4, <3>5, <3>6 DEF Response, CrespCollects
  <2>4. CASE rx[c].pc = "drain"
    <3>1. cresp[c] = [pc |-> "count", delay |-> rx[c].delay]
          /\ suspend[c] = FALSE /\ data_vld[c] = TRUE
      BY <1>1, <2>4, QueueFacts DEF Response
    <3>2. cresp[c].pc = "count" /\ seen = rx[c].delay
      BY <1>2, <3>1
    <3>3. cresp'[c] = [cresp[c] EXCEPT !.delay = seen]
      BY <2>1, <3>1, <3>2 DEF CrespStep
    <3>4. cresp'[c] = [pc |-> "count", delay |-> rx[c].delay]
      BY <3>1, <3>2, <3>3
    <3>5. rx'[c].pc \in {"drain", "finish"} /\ rx'[c].delay = rx[c].delay
      BY <1>1, <2>4, RxPosedge
    <3>6. QED
      BY <1>4, <3>1, <3>4, <3>5 DEF Response, CrespCollects
  <2>5. QED
    BY <1>2, <2>2, <2>3, <2>4
<1>5. QED
  BY <1>3, <1>4

-----------------------------------------------------------------------------
(***************************************************************************)
(* A positive edge, the reference model and the scoreboard.                *)
(***************************************************************************)
LEMMA RefAfterKeeps ==
  ASSUME NEW a, NEW n \in Int, RefState
  PROVE  /\ RefAfter(a, n) \in RefType
         /\ RefAfter(a, n).max_pktsize_reg = ref.max_pktsize_reg
         /\ RefAfter(a, n).router_enable_reg = ref.router_enable_reg
<1>1. ref \in RefType /\ ref.router_enable_reg # 0 /\ ref.max_pktsize_reg \in Int
  BY DEF RefState, RefType
<1> DEFINE Keeps(r) == /\ r \in RefType
                       /\ r.max_pktsize_reg = ref.max_pktsize_reg
                       /\ r.router_enable_reg = ref.router_enable_reg
<1>2. ASSUME NEW x \in Int, NEW y \in Int
       PROVE  /\ Keeps([ref EXCEPT !.bad_addr_packets = x, !.packets_dropped = y])
              /\ Keeps([ref EXCEPT !.jumbo_packets = x, !.packets_dropped = y])
  BY <1>1 DEF RefType
<1>3. /\ ref.bad_addr_packets + 1 \in Int /\ ref.packets_dropped + 1 \in Int
       /\ ref.jumbo_packets + 1 \in Int
  BY <1>1 DEF RefType
<1>4. CASE BadAddr(a)
  <2>1. RefAfter(a, n) = [ref EXCEPT !.bad_addr_packets = @ + 1,
                                     !.packets_dropped = @ + 1]
    BY <1>4 DEF RefAfter
  <2>2. QED
    <3>1. RefAfter(a, n) = [ref EXCEPT !.bad_addr_packets = ref.bad_addr_packets + 1,
                                       !.packets_dropped = ref.packets_dropped + 1]
      BY <1>1, <2>1 DEF RefType
    <3> HIDE DEF Keeps
    <3>2. Keeps(RefAfter(a, n))
      BY <1>2, <1>3, <3>1
    <3>3. QED
      BY <3>2 DEF Keeps
<1>5. CASE ~BadAddr(a) /\ n <= ref.max_pktsize_reg
  <2>1. Forwarded(n) /\ ~Jumbo(n)
    BY <1>1, <1>5 DEF Forwarded, Jumbo
  <2>2. RefAfter(a, n) = [ref EXCEPT !.packets_forwarded = @ + 1]
    BY <1>1, <1>5, <2>1, Zenon DEF RefAfter
  <2>3. QED
    BY <1>1, <2>2 DEF RefType
<1>6. CASE ~BadAddr(a) /\ n > ref.max_pktsize_reg
  <2>1. ~Forwarded(n) /\ Jumbo(n)
    BY <1>1, <1>6 DEF Forwarded, Jumbo
  <2>2. RefAfter(a, n) = [ref EXCEPT !.jumbo_packets = @ + 1,
                                     !.packets_dropped = @ + 1]
    BY <1>1, <1>6, <2>1, Zenon DEF RefAfter
  <2>3. QED
    <3>1. RefAfter(a, n) = [ref EXCEPT !.jumbo_packets = ref.jumbo_packets + 1,
                                       !.packets_dropped = ref.packets_dropped + 1]
      BY <1>1, <2>2 DEF RefType
    <3> HIDE DEF Keeps
    <3>2. Keeps(RefAfter(a, n))
      BY <1>2, <1>3, <3>1
    <3>3. QED
      BY <3>2 DEF Keeps
<1>7. QED
  BY <1>1, <1>4, <1>5, <1>6

LEMMA RefPosedge ==
  ASSUME IInv, Flow, ParityFits, InputMonitor, RefState, Posedge
  PROVE  RefState'
<1>1. clock = 0 /\ max_pkt_reg' = max_pkt_reg /\ Analysis
  BY PosedgeKeeps DEF Posedge
<1>2. CASE drv.pc = "release"
  <2>1. YmonCollects(in_suspend) /\ ymon.length \in Int
    BY <1>1, <1>2, InputCollects, PacketFacts
  <2>2. PICK a : ref' = RefAfter(a, ymon.length)
    BY <1>1, <2>1 DEF Analysis
  <2>3. QED
    BY <1>1, <2>1, <2>2, RefAfterKeeps DEF RefState
<1>3. CASE drv.pc # "release"
  <2>1. ~YmonCollects(in_suspend)
    BY <1>1, <1>3, InputCollects
  <2>2. ref' = ref
    BY <1>1, <2>1 DEF Analysis
  <2>3. QED
    BY <1>1, <2>2 DEF RefState
<1>4. QED
  BY <1>2, <1>3

\* The reference model forwards the packet that the router is loading.
LEMMA RefForwards ==
  ASSUME IInv, Flow, RefState, Verdict, drv.pc = "release", NEW p, p = drv.pkt
  PROVE  /\ state_r = "DATA_LOAD" =>
              /\ p.addr \in Chan /\ \A c \in Chan : Loading(c) <=> c = p.addr
              /\ ~BadAddr(p.addr) /\ Forwarded(p.length)
         /\ state_r # "DATA_LOAD" =>
              /\ \A c \in Chan : ~Loading(c)
              /\ ~(~BadAddr(p.addr) /\ Forwarded(p.length))
<1>1. p \in Packets /\ state_r \in {"DATA_LOAD", "DUMP_PKT"}
  BY DEF IInv, AtParity, Types, FsmState
<1>2. PICK k \in Kinds : p.length = k.length
  BY <1>1 DEF Packets, Packet
<1>3. Forwarded(p.length) <=> ~TooLong(p.length, max_pkt_reg)
  <2>1. p.length \in Int /\ ref.max_pktsize_reg \in Int
    BY <1>1, PacketFacts DEF RefState, RefType
  <2>2. TooLong(p.length, max_pkt_reg) <=> p.length > ref.max_pktsize_reg
    BY <1>2 DEF RefState, SixBitsSuffice
  <2>3. QED
    BY <2>1, <2>2 DEF Forwarded, RefState
<1>4. CASE state_r = "DATA_LOAD"
  <2>1. dest_chan_r \in Chan
    BY <1>4 DEF Flow
  <2>2. Loading(dest_chan_r)
    BY <1>4, <2>1 DEF Loading
  <2>3. p.addr = dest_chan_r
    BY <2>1, <2>2 DEF Flow, Channel, BufferLoading
  <2>4. ~BadAddr(p.addr)
    BY <2>1, <2>3, ChanAssumption DEF BadAddr
  <2>5. QED
    BY <1>3, <1>4, <2>1, <2>3, <2>4 DEF Loading, Verdict
<1>5. CASE state_r = "DUMP_PKT"
  BY <1>3, <1>5 DEF Loading, Verdict, BadAddr
<1>6. QED
  BY <1>1, <1>4, <1>5

AfterChan(c) == IF CmonCollects(c) THEN SbAfterChan(sb[c], CmonPacket(c)) ELSE sb[c]

\* What the edge does to one channel's part of the scoreboard.
LEMMA SbPosedge ==
  ASSUME IInv, Flow, ParityFits, InputMonitor, RefState, Verdict, Posedge,
         NEW c \in Chan
  PROVE  /\ Loading(c) /\ drv.pc = "release" =>
              sb'[c] = [AfterChan(c) EXCEPT !.queue = Append(@, Whole(drv.pkt))]
         /\ ~(Loading(c) /\ drv.pc = "release") => sb'[c] = AfterChan(c)
         /\ \E f : sb' = [x \in Chan |-> f[x]]
<1>1. clock = 0 /\ Analysis
  BY DEF Posedge
<1>2. SbAfterChans[c] = AfterChan(c) /\ SbAfterChans = [x \in Chan |-> SbAfterChans[x]]
  BY DEF SbAfterChans, AfterChan
<1>3. CASE drv.pc = "release"
  <2> DEFINE p == drv.pkt
  <2>1. /\ YmonCollects(in_suspend) /\ p \in Packets
        /\ YmonPacket = Whole(p) /\ ymon.length = p.length
    BY <1>1, <1>3, InputCollects
  <2>2. YmonPacket[1].pkt.addr = p.addr
    BY <2>1, WholeFacts
  <2>3. sb' = IF ~BadAddr(p.addr) /\ Forwarded(p.length)
              THEN SbAfterYapp(SbAfterChans, p.addr, Whole(p)) ELSE SbAfterChans
    BY <1>1, <2>1, <2>2 DEF Analysis
  <2>4. CASE state_r = "DATA_LOAD"
    <3>1. /\ p.addr \in Chan /\ (Loading(c) <=> c = p.addr)
          /\ ~BadAddr(p.addr) /\ Forwarded(p.length)
      BY <1>3, <2>4, RefForwards
    <3>2. sb' = [SbAfterChans EXCEPT ![p.addr].queue = Append(@, Whole(p))]
      BY <2>3, <3>1 DEF SbAfterYapp
    <3> HIDE DEF p
    <3>3. c = p.addr => sb'[c] = [AfterChan(c) EXCEPT !.queue = Append(@, Whole(p))]
      BY <1>2, <3>2
    <3>4. c # p.addr => sb'[c] = AfterChan(c)
      BY <1>2, <3>2
    <3>5. DOMAIN sb' = Chan /\ sb' = [x \in DOMAIN sb' |-> sb'[x]]
      BY <1>2, <3>2
    <3>6. QED
      BY <1>3, <3>1, <3>3, <3>4, <3>5 DEF p
  <2>5. CASE state_r # "DATA_LOAD"
    <3>1. ~Loading(c) /\ ~(~BadAddr(p.addr) /\ Forwarded(p.length))
      BY <1>3, <2>5, RefForwards
    <3>2. sb' = SbAfterChans
      BY <2>3, <3>1
    <3>3. QED
      BY <1>2, <3>1, <3>2
  <2>6. QED
    BY <2>4, <2>5
<1>4. CASE drv.pc # "release"
  <2>1. ~YmonCollects(in_suspend)
    BY <1>1, <1>4, InputCollects
  <2>2. sb' = SbAfterChans
    BY <1>1, <2>1 DEF Analysis
  <2>3. QED
    BY <1>2, <1>4, <2>2
<1>5. QED
  BY <1>3, <1>4

\* A packet that is the expected one.
LEMMA Matches ==
  ASSUME NEW s \in SbType, NEW w \in Seq(Slot), s.queue = <<w>>
  PROVE  /\ SbAfterChan(s, w) \in SbType
         /\ SbAfterChan(s, w).queue = << >>
         /\ SbAfterChan(s, w).miscompare = s.miscompare
         /\ SbAfterChan(s, w).dropped = s.dropped
<1>1. s.queue # << >> /\ w = Head(s.queue) /\ Tail(s.queue) = << >>
  OBVIOUS
<1>2. SbAfterChan(s, w) = [s EXCEPT !.packets = @ + 1, !.compare = @ + 1,
                                    !.queue = Tail(@)]
  BY <1>1 DEF SbAfterChan
<1>3. s.packets + 1 \in Int /\ s.compare + 1 \in Int
  BY DEF SbType
<1>4. SbAfterChan(s, w) = [s EXCEPT !.packets = s.packets + 1,
                                    !.compare = s.compare + 1,
                                    !.queue = Tail(s.queue)]
  BY <1>2 DEF SbType
<1>5. Tail(s.queue) \in Seq(Seq(Slot))
  BY <1>1 DEF SbType
<1>6. QED
  BY <1>1, <1>3, <1>4, <1>5 DEF SbType

\* What a channel's monitor delivers is what was expected.
LEMMA ChanCompared ==
  ASSUME IInv, Flow, ReferenceMirrors, SbTyped, clock = 0, NEW c \in Chan,
         Delivery(c), Clean(c)
  PROVE  /\ AfterChan(c) \in SbType
         /\ AfterChan(c).miscompare = 0 /\ AfterChan(c).dropped = 0
         /\ AfterChan(c).queue = IF cmon[c].pc = "parity" THEN << >> ELSE sb[c].queue
<1>1. sb[c] \in SbType /\ sb[c].miscompare = 0 /\ sb[c].dropped = 0
  BY DEF SbTyped, Clean
<1>2. CASE cmon[c].pc = "parity"
  <2>1. PICK p \in Packets : CmonPacket(c) = Whole(p) /\ Expected(c, p)
    BY <1>2, ParityShape
  <2>2. ~Loading(c)
    BY <1>2, ParityShape
  <2>3. sb[c].queue = <<Whole(p)>>
    BY <2>1, <2>2 DEF Expected
  <2>4. Whole(p) \in Seq(Slot)
    BY WholeFacts
  <2>5. AfterChan(c) = SbAfterChan(sb[c], Whole(p))
    BY <1>2, <2>1 DEF AfterChan, CmonCollects
  <2>6. QED
    BY <1>1, <1>2, <2>3, <2>4, <2>5, Matches
<1>3. CASE cmon[c].pc # "parity"
  BY <1>1, <1>3 DEF AfterChan, CmonCollects
<1>4. QED
  BY <1>2, <1>3

\* The sum of it for one channel.
LEMMA ScoreboardPosedge ==
  ASSUME IInv, Flow, ParityFits, InputMonitor, Verdict, Posedge,
         ReferenceMirrors, RefState, SbTyped, NEW c \in Chan, Delivery(c), Clean(c)
  PROVE  /\ sb'[c] \in SbType /\ Clean(c)'
         /\ Loading(c) /\ drv.pc = "release" =>
              sb'[c].queue = Append(sb[c].queue, Whole(drv.pkt))
         /\ ~(Loading(c) /\ drv.pc = "release") =>
              sb'[c].queue = IF cmon[c].pc = "parity" THEN << >> ELSE sb[c].queue
<1>1. /\ AfterChan(c) \in SbType
      /\ AfterChan(c).miscompare = 0 /\ AfterChan(c).dropped = 0
      /\ AfterChan(c).queue = IF cmon[c].pc = "parity" THEN << >> ELSE sb[c].queue
  BY ChanCompared DEF Posedge
<1>2. CASE Loading(c) /\ drv.pc = "release"
  <2>1. drv.pkt \in Packets /\ Whole(drv.pkt) \in Seq(Slot)
    BY <1>2, WholeFacts DEF IInv, AtParity
  <2>2. AfterChan(c).queue = sb[c].queue
    BY <1>1, <1>2, ParityShape DEF Posedge
  <2>3. sb'[c] = [AfterChan(c) EXCEPT !.queue = Append(@, Whole(drv.pkt))]
    BY <1>2, SbPosedge
  <2>4. sb'[c] = [AfterChan(c) EXCEPT !.queue = Append(sb[c].queue, Whole(drv.pkt))]
    BY <1>1, <2>2, <2>3 DEF SbType
  <2>5. Append(sb[c].queue, Whole(drv.pkt)) \in Seq(Seq(Slot))
    BY <1>1, <2>1, <2>2 DEF SbType
  <2> DEFINE q == Append(sb[c].queue, Whole(drv.pkt))
  <2> HIDE DEF q
  <2>6. sb'[c] = [AfterChan(c) EXCEPT !.queue = q] /\ q \in Seq(Seq(Slot))
    BY <2>4, <2>5 DEF q
  <2>7. sb'[c] \in SbType /\ sb'[c].queue = q
        /\ sb'[c].miscompare = 0 /\ sb'[c].dropped = 0
    BY <1>1, <2>6 DEF SbType
  <2>8. QED
    BY <1>2, <2>7 DEF Clean, q
<1>3. CASE ~(Loading(c) /\ drv.pc = "release")
  <2>1. sb'[c] = AfterChan(c)
    BY <1>3, SbPosedge
  <2>2. QED
    BY <1>1, <1>3, <2>1 DEF Clean
<1>4. QED
  BY <1>2, <1>3

LEMMA DeliveryPosedge ==
  ASSUME IInv, Flow, ParityFits, InputMonitor, Verdict, Posedge,
         ReferenceMirrors => RefState /\ SbTyped, NEW c \in Chan,
         Response(c), Delivery(c), ReferenceMirrors => Clean(c)
  PROVE  Delivery(c)'
<1>1. /\ drv' = drv /\ queue' = queue /\ suspend' = suspend
      /\ state_r' = state_r /\ dest_chan_r' = dest_chan_r
      /\ clock = 0 /\ clock' = 1
  BY PosedgeKeeps
<1>2. Loading(c)' <=> Loading(c)
  BY <1>1 DEF Loading
<1>3. ReferenceMirrors =>
        /\ Loading(c) /\ drv.pc = "release" =>
             sb'[c].queue = Append(sb[c].queue, Whole(drv.pkt))
        /\ ~(Loading(c) /\ drv.pc = "release") =>
             sb'[c].queue = IF cmon[c].pc = "parity" THEN << >> ELSE sb[c].queue
  BY ScoreboardPosedge
<1>4. CASE cmon[c].pc = "parity"
  <2>1. cmon'[c] = CmonIdle
    BY <1>4, ResponsePosedge
  <2>2. ~Loading(c) /\ Count(queue[c]) = 0
    BY <1>1, <1>4, ParityShape
  <2>3. ~Delivering(c)'
    BY <1>1, <1>2, <2>1, <2>2, CmonIdleType DEF Delivering
  <2>4. QED
    BY <1>3, <1>4, <2>1, <2>2, <2>3 DEF Delivery
<1>5. CASE cmon[c].pc # "parity" /\ Delivering(c)
  <2>1. PICK p \in Packets : Carries(c, p) /\ (ReferenceMirrors => Expected(c, p))
    BY <1>5 DEF Delivery
  <2>2. Carries(c, p)'
    BY <1>5, <2>1, CarriesPosedge
  <2>3. Delivering(c)'
    BY <1>1, <1>2, <1>5 DEF Delivering
  <2>4. ASSUME ReferenceMirrors PROVE Expected(c, p)'
    <3>1. CASE Loading(c) /\ drv.pc = "release"
      <4>1. sb[c].queue = << >> /\ drv.pkt = p
        BY <1>1, <2>1, <2>4, <3>1 DEF Expected, Carries
      <4>2. sb'[c].queue = <<Whole(p)>>
        BY <1>3, <2>4, <3>1, <4>1
      <4>3. QED
        BY <1>1, <1>2, <3>1, <4>2 DEF Expected
    <3>2. CASE Loading(c) /\ drv.pc # "release"
      BY <1>1, <1>2, <1>3, <1>5, <2>1, <2>4, <3>2 DEF Expected
    <3>3. CASE ~Loading(c)
      BY <1>1, <1>2, <1>3, <1>5, <2>1, <2>4, <3>3 DEF Expected
    <3>4. QED
      BY <3>1, <3>2, <3>3
  <2>5. QED
    BY <2>2, <2>3, <2>4 DEF Delivery
<1>6. CASE ~Delivering(c)
  <2>1. /\ ~Loading(c) /\ ~(Count(queue[c]) > 0) /\ cmon[c] = CmonIdle
        /\ ReferenceMirrors => sb[c].queue = << >>
    BY <1>6 DEF Delivery, Delivering
  <2>2. cmon[c].pc # "parity"
    BY <2>1, CmonIdleType
  <2>3. suspend[c] = TRUE
    <3>1. rx[c].pc # "drain" /\ rx[c].pc # "finish"
      BY <1>1, <2>1, QueueFacts DEF Receiver
    <3>2. QED
      BY <3>1, QueueFacts DEF Receiver, RxType
  <2>4. cmon'[c] = CmonIdle
    BY <1>1, <2>1, <2>2, <2>3, MonitorTyped, CmonPosedge DEF CmonNext, Posedge
  <2>5. ~Delivering(c)'
    BY <1>1, <1>2, <2>1, <2>4, CmonIdleType DEF Delivering
  <2>6. QED
    BY <1>3, <2>1, <2>2, <2>4, <2>5 DEF Delivery
<1>7. QED
  BY <1>4, <1>5, <1>6

-----------------------------------------------------------------------------
(***************************************************************************)
(* The invariant of the checkers, and what follows from it.                *)
(***************************************************************************)
LEMMA InitCheckers == ASSUME Init PROVE Checkers
<1>1. /\ drv.pc = "idle" /\ ymon = YmonIdle /\ state_r = "HEADER_WAIT"
      /\ max_pkt_reg = DefMaxPkt /\ queue = [c \in Chan |-> PowerUp]
      /\ rx = [c \in Chan |-> RxIdle] /\ cmon = [c \in Chan |-> CmonIdle]
      /\ cresp = [c \in Chan |-> CrespIdle] /\ SbInit
  BY DEF Init, DutInit, YappInit, ChanInit
<1>2. InputMonitor /\ Verdict
  BY <1>1 DEF InputMonitor, Verdict
<1>3. ASSUME ReferenceMirrors PROVE RefState
  <2>1. /\ RefMaxPkt = DefMaxPkt /\ RefEnable \in Nat \ {0} /\ DefMaxPkt \in Int
        /\ SixBitsSuffice(DefMaxPkt)
    BY <1>3, ResetAssumption DEF ReferenceMirrors
  <2>2. ref \in RefType /\ ref.router_enable_reg = RefEnable
        /\ ref.max_pktsize_reg = RefMaxPkt
    BY <1>1, <2>1 DEF SbInit, RefType
  <2>3. QED
    BY <1>1, <2>1, <2>2 DEF RefState
<1>4. << >> \in Seq(Seq(Slot))
  OBVIOUS
<1>5. SbTyped /\ \A c \in Chan : Clean(c) /\ sb[c].queue = << >>
  <2> DEFINE e == << >>
             s == [queue |-> e, packets |-> 0, compare |-> 0,
                   miscompare |-> 0, dropped |-> 0]
  <2>1. sb = [c \in Chan |-> s]
    BY <1>1 DEF SbInit
  <2>2. e \in Seq(Seq(Slot))
    BY <1>4
  <2>3. s.miscompare = 0 /\ s.dropped = 0 /\ s.queue = e
    OBVIOUS
  <2>4. s \in SbType
    <3> HIDE DEF e
    <3> QED
      BY <2>2 DEF SbType
  <2> HIDE DEF s
  <2>5. \A c \in Chan : sb[c] = s
    BY <2>1
  <2>6. SbTyped
    BY <2>1, <2>4 DEF SbTyped
  <2>7. QED
    BY <2>3, <2>5, <2>6 DEF Clean
<1>6. ASSUME NEW c \in Chan PROVE Response(c) /\ Delivery(c)
  <2>1. rx[c].pc = "wait" /\ cmon[c] = CmonIdle /\ cresp[c] = CrespIdle
    BY <1>1 DEF RxIdle
  <2>2. Response(c)
    BY <2>1, CmonIdleType DEF Response
  <2>3. ~Loading(c)
    BY <1>1 DEF Loading
  <2>4. Count(queue[c]) = 0
    BY <1>1 DEF Count, PowerUp
  <2>5. ~Delivering(c)
    BY <2>1, <2>3, <2>4, CmonIdleType DEF Delivering
  <2>6. QED
    BY <1>5, <2>1, <2>2, <2>5 DEF Delivery
<1>7. QED
  BY <1>2, <1>3, <1>5, <1>6 DEF Checkers

LEMMA NegedgeCheckers ==
  ASSUME IInv, Flow, WritesHarmless, ParityFits, Checkers, Negedge
  PROVE  Checkers'
<1>1. sb' = sb
  BY DEF Negedge, MirrorNegedge, WriteHbus, sbVars
<1>2. InputMonitor' /\ Verdict'
  BY InputNegedge, VerdictNegedge DEF Checkers
<1>3. ReferenceMirrors => RefState' /\ SbTyped'
  BY <1>1, RefNegedge DEF Checkers, SbTyped
<1>4. ASSUME NEW c \in Chan
      PROVE  Response(c)' /\ Delivery(c)' /\ (ReferenceMirrors => Clean(c)')
  <2>1. Response(c) /\ Delivery(c) /\ (ReferenceMirrors => Clean(c))
    BY DEF Checkers
  <2>2. Response(c)' /\ Delivery(c)'
    BY <2>1, ResponseNegedge, DeliveryNegedge
  <2>3. QED
    BY <1>1, <2>1, <2>2 DEF Clean
<1>5. QED
  BY <1>2, <1>3, <1>4 DEF Checkers

LEMMA PosedgeCheckers ==
  ASSUME IInv, Flow, ParityFits, Checkers, Posedge
  PROVE  Checkers'
<1>1. /\ InputMonitor /\ Verdict /\ (ReferenceMirrors => RefState /\ SbTyped)
      /\ \A c \in Chan : /\ Response(c) /\ Delivery(c)
                         /\ ReferenceMirrors => Clean(c)
  BY DEF Checkers
<1>2. InputMonitor'
  BY <1>1, InputPosedge
<1>3. Verdict'
  BY <1>1, PosedgeKeeps DEF Verdict
<1>4. ASSUME NEW c \in Chan
      PROVE  Response(c)' /\ Delivery(c)' /\ (ReferenceMirrors => Clean(c)')
  <2>1. Response(c)' /\ Delivery(c)'
    BY <1>1, ResponsePosedge, DeliveryPosedge
  <2>2. ReferenceMirrors => Clean(c)'
    BY <1>1, ScoreboardPosedge
  <2>3. QED
    BY <2>1, <2>2
<1>5. ASSUME ReferenceMirrors PROVE RefState' /\ SbTyped'
  <2>1. RefState'
    BY <1>1, <1>5, RefPosedge
  <2>2. \A c \in Chan : sb'[c] \in SbType
    BY <1>1, <1>5, ScoreboardPosedge
  <2>3. \E f : sb' = [x \in Chan |-> f[x]]
    <3>1. PICK c \in Chan : TRUE
      BY ChanAssumption
    <3>2. QED
      BY <1>1, <1>5, <3>1, SbPosedge
  <2>4. QED
    BY <2>1, <2>2, <2>3 DEF SbTyped
<1>6. QED
  BY <1>2, <1>3, <1>4, <1>5 DEF Checkers

LEMMA StutterCheckers == ASSUME Checkers, UNCHANGED vars PROVE Checkers'
<1>1. /\ drv' = drv /\ in_data' = in_data /\ in_data_vld' = in_data_vld
      /\ ymon' = ymon /\ suspend' = suspend /\ data_vld' = data_vld /\ data' = data
      /\ rx' = rx /\ cmon' = cmon /\ cresp' = cresp /\ clock' = clock
      /\ queue' = queue /\ max_pkt_reg' = max_pkt_reg /\ state_r' = state_r
      /\ dest_chan_r' = dest_chan_r /\ ref' = ref /\ sb' = sb
  BY DEF vars, ifVars, dutVars, yappVars, chanVars, sbVars
<1>2. in_suspend' = in_suspend
  BY <1>1 DEF in_suspend, fifo_empty, hold, dest_chan, HeaderValid
<1>3. InputMonitor'
  BY <1>1, <1>2 DEF Checkers, InputMonitor, Taken
<1>4. Verdict' /\ (ReferenceMirrors => RefState' /\ SbTyped')
  BY <1>1 DEF Checkers, Verdict, RefState, SbTyped
<1>5. ASSUME NEW c \in Chan
      PROVE  Response(c)' /\ Delivery(c)' /\ (ReferenceMirrors => Clean(c)')
  <2>1. Response(c) /\ Delivery(c) /\ (ReferenceMirrors => Clean(c))
    BY DEF Checkers
  <2>2. (Loading(c)' <=> Loading(c)) /\ (Delivering(c)' <=> Delivering(c))
    BY <1>1 DEF Loading, Delivering
  <2>3. ASSUME NEW p
        PROVE  (Carries(c, p) => Carries(c, p)') /\ (Expected(c, p) => Expected(c, p)')
    <3>1. Written(c, p)' = Written(c, p)
      BY <1>1, <2>2 DEF Written
    <3>2. BytesRead(c, p)' = BytesRead(c, p)
      BY <1>1, <3>1 DEF BytesRead
    <3>3. Follows(c, p, BytesRead(c, p)) => Follows(c, p, BytesRead(c, p))'
      BY <1>1, <2>2, <3>2 DEF Follows
    <3>4. QED
      BY <1>1, <2>2, <3>1, <3>2, <3>3 DEF Carries, Expected
  <2>4. Response(c)' /\ (ReferenceMirrors => Clean(c)')
    BY <1>1, <2>1 DEF Response, Clean
  <2>5. Delivery(c)'
    BY <1>1, <2>1, <2>2, <2>3 DEF Delivery
  <2>6. QED
    BY <2>4, <2>5
<1>6. QED
  BY <1>3, <1>4, <1>5 DEF Checkers

\* Monitors, reference model and scoreboard say what happened on the wires.
THEOREM CheckersInductive ==
  ASSUME WritesHarmless, ParityFits PROVE Spec => []Checkers
<1>1. IInv /\ Flow /\ Checkers /\ [Next]_vars => Checkers'
  <2>1. ASSUME IInv, Flow, Checkers, Negedge PROVE Checkers'
    BY <2>1, NegedgeCheckers
  <2>2. ASSUME IInv, Flow, Checkers, Posedge PROVE Checkers'
    BY <2>2, PosedgeCheckers
  <2>3. ASSUME Checkers, UNCHANGED vars PROVE Checkers'
    BY <2>3, StutterCheckers
  <2>4. QED
    BY <2>1, <2>2, <2>3 DEF Next
<1>2. QED
  BY <1>1, InitCheckers, FlowInductive, PTL DEF Spec

\* The delay a channel's monitor works out from the wires is the one its
\* receiver applied (channel_monitor.sv collect_response).
THEOREM DelayCorrect ==
  ASSUME WritesHarmless, ParityFits PROVE Spec => DelayMeasured
<1>1. IInv /\ Flow /\ Checkers /\ [Next]_vars =>
        [Posedge => \A c \in Chan :
           CrespCollects(c) => CrespStep(c).delay = rx[c].delay]_vars
  BY ResponsePosedge DEF Checkers
<1>2. QED
  BY <1>1, CheckersInductive, FlowInductive, PTL DEF Spec, DelayMeasured

\* The scoreboard reports no packet that is unexpected or different
\* (router_scoreboard.sv), when the reference model has the router's limits.
THEOREM ScoreboardCorrect ==
  ASSUME WritesHarmless, ParityFits, ReferenceMirrors
  PROVE  Spec => []ScoreboardClean
<1>1. Checkers => ScoreboardClean
  BY DEF Checkers, Clean, ScoreboardClean
<1>2. QED
  BY <1>1, CheckersInductive, PTL

-----------------------------------------------------------------------------
(***************************************************************************)
(* The second scoreboard.  What its task has not compared yet, the packet  *)
(* it waits with and those in the input FIFO that are to be passed on, is  *)
(* for each channel what that channel has delivered and what the first     *)
(* scoreboard still expects of it.                                         *)
(***************************************************************************)
Wholes == {Whole(p) : p \in Packets}

Passed(c, max) == {w \in Wholes : Addr(w) = c /\ ~(Length(w) > max)}
Dropped(max)   == {w \in Wholes : Addr(w) = IllegalAddr \/ Length(w) > max}

FsbType == [yapp_fifo : Seq(Wholes), chan_fifo : [Chan -> Seq(Wholes)],
            yapp_pkt : Wholes \cup {NoPkt}, paddr : Chan \cup {IllegalAddr},
            max_pktsize_reg : Int, router_enable_reg : Int,
            bad_addr_packets : Int, jumbo_packets : Int, disabled_packets : Int,
            compare_ch : [Chan -> Int], miscompare_ch : [Chan -> Int],
            late : BOOLEAN]

Awaiting(f, c) == IF f.yapp_pkt # NoPkt /\ Addr(f.yapp_pkt) = c
                  THEN <<f.yapp_pkt>> ELSE << >>

\* f is the state of the second scoreboard, q that of the first one, s its part
\* for channel c, and r the reference model's.
ChanAgrees(f, s, c) ==
  /\ Awaiting(f, c) \o Selected(f.yapp_fifo, Passed(c, f.max_pktsize_reg))
       = f.chan_fifo[c] \o s.queue
  /\ f.miscompare_ch[c] = 0
  /\ f.compare_ch[c] + Len(f.chan_fifo[c]) = s.compare

DropsAgree(f, r) ==
  f.bad_addr_packets + f.jumbo_packets + f.disabled_packets
    + Len(Selected(f.yapp_fifo, Dropped(f.max_pktsize_reg))) = r.packets_dropped

FsbTyped(f) ==
  /\ f \in FsbType /\ f.router_enable_reg = 1
  /\ f.yapp_pkt # NoPkt => Addr(f.yapp_pkt) \in Chan

SameLimits(f, r) ==
  \A k \in Kinds : k.length > f.max_pktsize_reg <=> k.length > r.max_pktsize_reg

Agrees(f, q, r) ==
  /\ FsbTyped(f) /\ SameLimits(f, r)
  /\ f.late = FALSE => DropsAgree(f, r) /\ \A c \in Chan : ChanAgrees(f, q[c], c)

\* Both start with limits that mean the same for the packets that are sent,
\* and the second scoreboard takes the router for enabled by a 1 only.
SecondMirrors ==
  /\ \A k \in Kinds : k.length > 63 <=> k.length > RefMaxPkt
  /\ \A w \in HostWrites : w.haddr = ENABLE_ADDR => w.hdata = 1

Agreement == Agrees(fsb, sb, ref)

-----------------------------------------------------------------------------
LEMMA WholesFacts ==
  ASSUME NEW w \in Wholes
  PROVE  /\ w # NoPkt /\ w \in Seq(Slot)
         /\ Addr(w) \in Chan \cup {IllegalAddr} /\ Length(w) \in Int
         /\ \E k \in Kinds : Length(w) = k.length
<1>1. PICK p \in Packets : w = Whole(p)
  BY DEF Wholes
<1>2. p.length \in Nat /\ p.addr \in Chan \cup {IllegalAddr}
  BY PacketFacts
<1>3. \E k \in Kinds : p.length = k.length
  BY DEF Packets, Packet
<1>4. w \in Seq(Slot) /\ w[1].pkt = p
  BY <1>1, WholeFacts
<1>5. Len(w) = p.length + 2
  BY <1>1, <1>2 DEF Whole
<1>6. Length(w) = p.length /\ w # << >>
  BY <1>2, <1>4, <1>5 DEF Length
<1>7. QED
  BY <1>2, <1>3, <1>4, <1>6 DEF Addr, NoPkt

LEMMA WholeRead ==
  ASSUME NEW p \in Packets
  PROVE  Whole(p) \in Wholes /\ Addr(Whole(p)) = p.addr /\ Length(Whole(p)) = p.length
<1>1. p.length \in Nat
  BY PacketFacts
<1>2. Len(Whole(p)) = p.length + 2
  BY <1>1 DEF Whole
<1>3. QED
  BY <1>1, <1>2, WholeFacts DEF Wholes, Addr, Length

\* A channel passes on what the others do not, and what is not dropped.
LEMMA Sorted ==
  ASSUME NEW w \in Wholes, NEW max \in Int
  PROVE  /\ \A c \in Chan : w \in Passed(c, max) <=> Addr(w) = c /\ ~(Length(w) > max)
         /\ w \in Dropped(max) <=> Addr(w) = IllegalAddr \/ Length(w) > max
BY DEF Passed, Dropped

\* The fields of the second scoreboard.
LEMMA FsbFields ==
  ASSUME NEW f \in FsbType
  PROVE  /\ f.yapp_fifo \in Seq(Wholes) /\ f.chan_fifo \in [Chan -> Seq(Wholes)]
         /\ f.yapp_pkt \in Wholes \cup {NoPkt} /\ f.paddr \in Chan \cup {IllegalAddr}
         /\ f.max_pktsize_reg \in Int /\ f.router_enable_reg \in Int
         /\ f.bad_addr_packets \in Int /\ f.jumbo_packets \in Int
         /\ f.disabled_packets \in Int
         /\ f.compare_ch \in [Chan -> Int] /\ f.miscompare_ch \in [Chan -> Int]
         /\ f.late \in BOOLEAN
BY DEF FsbType

\* What is taken from the input FIFO was first in it.
LEMMA FirstSelected ==
  ASSUME NEW s \in Seq(Wholes), s # << >>, NEW S
  PROVE  /\ Head(s) \in Wholes /\ Tail(s) \in Seq(Wholes)
         /\ Selected(Tail(s), S) \in Seq(Wholes)
         /\ Head(s) \in S => Selected(s, S) = <<Head(s)>> \o Selected(Tail(s), S)
         /\ Head(s) \notin S => Selected(s, S) = Selected(Tail(s), S)
<1>1. Head(s) \in Wholes /\ Tail(s) \in Seq(Wholes)
  OBVIOUS
<1>2. Selected(Tail(s), S) \in Seq(Wholes)
  BY <1>1, SelectedAppend
<1>3. Selected(s, S) = (IF Head(s) \in S THEN <<Head(s)>> ELSE << >>)
                         \o Selected(Tail(s), S)
  BY SelectedHead
<1>4. << >> \o Selected(Tail(s), S) = Selected(Tail(s), S)
  BY <1>2
<1>5. QED
  BY <1>1, <1>2, <1>3, <1>4

\* A packet is judged to be dropped.
LEMMA DroppedAgrees ==
  ASSUME NEW f, NEW q, NEW r, Agrees(f, q, r), CanJudge(f),
         Head(f.yapp_fifo) \in Dropped(f.max_pktsize_reg),
         NEW x, FsbTyped(x), x.yapp_fifo = Tail(f.yapp_fifo),
         x.yapp_pkt = NoPkt, x.chan_fifo = f.chan_fifo, x.late = f.late,
         x.max_pktsize_reg = f.max_pktsize_reg,
         x.compare_ch = f.compare_ch, x.miscompare_ch = f.miscompare_ch,
         x.bad_addr_packets + x.jumbo_packets + x.disabled_packets
           = f.bad_addr_packets + f.jumbo_packets + f.disabled_packets + 1
  PROVE  Agrees(x, q, r)
<1> DEFINE y == f.yapp_fifo
           m == f.max_pktsize_reg
           b == f.bad_addr_packets + f.jumbo_packets + f.disabled_packets
<1>1. /\ f \in FsbType /\ y \in Seq(Wholes) /\ y # << >> /\ m \in Int /\ b \in Int
      /\ f.yapp_pkt = NoPkt
  BY FsbFields DEF Agrees, FsbTyped, CanJudge
<1>2. SUFFICES ASSUME f.late = FALSE
               PROVE  DropsAgree(x, r) /\ \A c \in Chan : ChanAgrees(x, q[c], c)
  BY DEF Agrees, SameLimits
<1>3. DropsAgree(f, r) /\ \A c \in Chan : ChanAgrees(f, q[c], c)
  BY <1>2 DEF Agrees
<1>4. DropsAgree(x, r)
  <2> DEFINE S == Selected(Tail(y), Dropped(m))
             T == Selected(y, Dropped(m))
  <2>1. S \in Seq(Wholes) /\ T = <<Head(y)>> \o S /\ Head(y) \in Wholes
    BY <1>1, FirstSelected
  <2>2. Len(T) = Len(S) + 1 /\ Len(S) \in Nat
    BY <2>1
  <2>3. b + Len(T) = r.packets_dropped
    BY <1>3 DEF DropsAgree
  <2> HIDE DEF S, T, b
  <2>4. (b + 1) + Len(S) = r.packets_dropped
    BY <1>1, <2>2, <2>3
  <2>5. QED
    BY <2>4 DEF DropsAgree, S, b
<1>5. ASSUME NEW c \in Chan PROVE ChanAgrees(x, q[c], c)
  <2>1. Head(y) \notin Passed(c, m)
    BY ChanAssumption DEF Passed, Dropped
  <2>2. Selected(y, Passed(c, m)) = Selected(Tail(y), Passed(c, m))
    BY <1>1, <2>1, FirstSelected
  <2>3. Awaiting(f, c) = << >> /\ Awaiting(x, c) = << >>
    BY <1>1 DEF Awaiting
  <2>4. QED
    BY <1>3, <2>2, <2>3 DEF ChanAgrees
<1>6. QED
  BY <1>4, <1>5

\* A packet is judged to be passed on: from now on the task waits with it.
LEMMA PassedAgrees ==
  ASSUME NEW f, NEW q, NEW r, Agrees(f, q, r), CanJudge(f),
         NEW x, FsbTyped(x), x.yapp_fifo = Tail(f.yapp_fifo),
         x.yapp_pkt = Head(f.yapp_fifo), Addr(x.yapp_pkt) \in Chan,
         x.yapp_pkt \in Passed(Addr(x.yapp_pkt), f.max_pktsize_reg),
         x.chan_fifo = f.chan_fifo, x.late = f.late,
         x.max_pktsize_reg = f.max_pktsize_reg,
         x.compare_ch = f.compare_ch, x.miscompare_ch = f.miscompare_ch,
         x.bad_addr_packets + x.jumbo_packets + x.disabled_packets
           = f.bad_addr_packets + f.jumbo_packets + f.disabled_packets
  PROVE  Agrees(x, q, r)
<1> DEFINE y == f.yapp_fifo
           p == x.yapp_pkt
           m == f.max_pktsize_reg
<1>1. /\ f \in FsbType /\ y \in Seq(Wholes) /\ y # << >> /\ m \in Int
      /\ f.yapp_pkt = NoPkt
  BY FsbFields DEF Agrees, FsbTyped, CanJudge
<1>2. SUFFICES ASSUME f.late = FALSE
               PROVE  DropsAgree(x, r) /\ \A c \in Chan : ChanAgrees(x, q[c], c)
  BY DEF Agrees, SameLimits
<1>3. DropsAgree(f, r) /\ \A c \in Chan : ChanAgrees(f, q[c], c)
  BY <1>2 DEF Agrees
<1>4. p \in Wholes /\ p = Head(y) /\ p # NoPkt
  BY <1>1, WholesFacts
<1>5. DropsAgree(x, r)
  <2>1. p \notin Dropped(m)
    BY ChanAssumption DEF Passed, Dropped
  <2>2. Selected(y, Dropped(m)) = Selected(Tail(y), Dropped(m))
    BY <1>1, <1>4, <2>1, FirstSelected
  <2>3. QED
    BY <1>3, <2>2 DEF DropsAgree
<1>6. ASSUME NEW c \in Chan PROVE ChanAgrees(x, q[c], c)
  <2> DEFINE S == Selected(Tail(y), Passed(c, m))
             T == Selected(y, Passed(c, m))
  <2>1. /\ S \in Seq(Wholes)
        /\ p \in Passed(c, m) => T = <<p>> \o S
        /\ p \notin Passed(c, m) => T = S
    BY <1>1, <1>4, FirstSelected
  <2>2. p \in Passed(c, m) <=> Addr(p) = c
    BY DEF Passed
  <2>3. Awaiting(x, c) = IF Addr(p) = c THEN <<p>> ELSE << >>
    BY <1>4 DEF Awaiting
  <2>4. Awaiting(f, c) = << >>
    BY <1>1 DEF Awaiting
  <2>5. T \in Seq(Wholes)
    BY <1>1, <1>4, SelectedAppend
  <2>6. << >> \o T = T /\ << >> \o S = S
    BY <2>1, <2>5
  <2> HIDE DEF S, T
  <2>7. Awaiting(x, c) \o S = Awaiting(f, c) \o T
    BY <2>1, <2>2, <2>3, <2>4, <2>6
  <2>8. QED
    BY <1>3, <2>7 DEF ChanAgrees, S, T
<1>7. QED
  BY <1>5, <1>6

\* The task judges the next packet.
LEMMA JudgedAgrees ==
  ASSUME NEW f, NEW q, NEW r, Agrees(f, q, r), CanJudge(f)
  PROVE  Agrees(Judged(f), q, r)
<1> DEFINE p == Head(f.yapp_fifo)
           t == Tail(f.yapp_fifo)
           x == Judged(f)
<1>1. FsbTyped(f) /\ f \in FsbType /\ f.router_enable_reg = 1 /\ f.yapp_pkt = NoPkt
  BY DEF Agrees, FsbTyped, CanJudge
<1>2. f.yapp_fifo \in Seq(Wholes) /\ f.yapp_fifo # << >>
      /\ f.max_pktsize_reg \in Int /\ f.bad_addr_packets \in Int
      /\ f.jumbo_packets \in Int /\ f.disabled_packets \in Int
  BY <1>1, FsbFields DEF CanJudge
<1>3. p \in Wholes /\ t \in Seq(Wholes)
  BY <1>2
<1>4. Addr(p) \in Chan \cup {IllegalAddr} /\ Length(p) \in Int /\ p # NoPkt
  BY <1>3, WholesFacts
<1>5. Oversized(f, p) <=> Length(p) > f.max_pktsize_reg
  BY <1>1 DEF Oversized
<1>6. CASE Addr(p) = IllegalAddr
  <2>1. x = [f EXCEPT !.yapp_fifo = t, !.bad_addr_packets = f.bad_addr_packets + 1]
    BY <1>1, <1>6 DEF Judged, FsbType
  <2>2. p \in Dropped(f.max_pktsize_reg)
    BY <1>3, <1>6 DEF Dropped
  <2> HIDE DEF x, t, p
  <2>3. /\ x \in FsbType /\ x.router_enable_reg = 1
        /\ x.yapp_fifo = t /\ x.yapp_pkt = f.yapp_pkt
        /\ x.chan_fifo = f.chan_fifo /\ x.late = f.late
        /\ x.max_pktsize_reg = f.max_pktsize_reg
        /\ x.compare_ch = f.compare_ch /\ x.miscompare_ch = f.miscompare_ch
        /\ x.bad_addr_packets = f.bad_addr_packets + 1
        /\ x.jumbo_packets = f.jumbo_packets
        /\ x.disabled_packets = f.disabled_packets
    <3> DEFINE more == f.bad_addr_packets + 1
    <3>1. more \in Int
      BY <1>2
    <3> HIDE DEF more
    <3>2. x = [f EXCEPT !.yapp_fifo = t, !.bad_addr_packets = more]
      BY <2>1 DEF more
    <3>3. QED
      BY <1>1, <1>3, <3>1, <3>2 DEF FsbType, more
  <2>4. x.bad_addr_packets + x.jumbo_packets + x.disabled_packets
           = f.bad_addr_packets + f.jumbo_packets + f.disabled_packets + 1
    BY <1>2, <2>3
  <2>5. Agrees(x, q, r)
    BY <1>1, <2>2, <2>3, <2>4, DroppedAgrees DEF FsbTyped, p, t
  <2>6. QED
    BY <2>5 DEF x
<1>7. CASE Addr(p) # IllegalAddr /\ Length(p) > f.max_pktsize_reg
  <2>1. x = [f EXCEPT !.yapp_fifo = t, !.jumbo_packets = f.jumbo_packets + 1]
    <3>1. x = [[f EXCEPT !.yapp_fifo = Tail(@)] EXCEPT !.jumbo_packets = @ + 1]
      <4>1. Oversized(f, p) /\ f.router_enable_reg # 0
        BY <1>1, <1>5, <1>7
      <4>2. QED
        BY <1>7, <4>1, Zenon DEF Judged
    <3>2. QED
      BY <1>1, <3>1 DEF FsbType
  <2>2. p \in Dropped(f.max_pktsize_reg)
    BY <1>3, <1>7 DEF Dropped
  <2> HIDE DEF x, t, p
  <2>3. /\ x \in FsbType /\ x.router_enable_reg = 1
        /\ x.yapp_fifo = t /\ x.yapp_pkt = f.yapp_pkt
        /\ x.chan_fifo = f.chan_fifo /\ x.late = f.late
        /\ x.max_pktsize_reg = f.max_pktsize_reg
        /\ x.compare_ch = f.compare_ch /\ x.miscompare_ch = f.miscompare_ch
        /\ x.bad_addr_packets = f.bad_addr_packets
        /\ x.jumbo_packets = f.jumbo_packets + 1
        /\ x.disabled_packets = f.disabled_packets
    <3> DEFINE more == f.jumbo_packets + 1
    <3>1. more \in Int
      BY <1>2
    <3> HIDE DEF more
    <3>2. x = [f EXCEPT !.yapp_fifo = t, !.jumbo_packets = more]
      BY <2>1 DEF more
    <3>3. QED
      BY <1>1, <1>3, <3>1, <3>2 DEF FsbType, more
  <2>4. x.bad_addr_packets + x.jumbo_packets + x.disabled_packets
           = f.bad_addr_packets + f.jumbo_packets + f.disabled_packets + 1
    BY <1>2, <2>3
  <2>5. Agrees(x, q, r)
    BY <1>1, <2>2, <2>3, <2>4, DroppedAgrees DEF FsbTyped, p, t
  <2>6. QED
    BY <2>5 DEF x
<1>8. CASE Addr(p) # IllegalAddr /\ ~(Length(p) > f.max_pktsize_reg)
  <2>1. x = [f EXCEPT !.yapp_fifo = t, !.yapp_pkt = p]
    <3>1. x = [[f EXCEPT !.yapp_fifo = Tail(@)] EXCEPT !.yapp_pkt = p]
      <4>1. ~Oversized(f, p) /\ f.router_enable_reg # 0
        BY <1>1, <1>5, <1>8
      <4>2. QED
        BY <1>8, <4>1, Zenon DEF Judged
    <3>2. QED
      BY <1>1, <3>1 DEF FsbType
  <2>2. Addr(p) \in Chan /\ p \in Passed(Addr(p), f.max_pktsize_reg)
    BY <1>3, <1>4, <1>8 DEF Passed
  <2> HIDE DEF x, t, p
  <2>3. /\ x \in FsbType /\ x.router_enable_reg = 1
        /\ x.yapp_fifo = t /\ x.yapp_pkt = p
        /\ x.chan_fifo = f.chan_fifo /\ x.late = f.late
        /\ x.max_pktsize_reg = f.max_pktsize_reg
        /\ x.compare_ch = f.compare_ch /\ x.miscompare_ch = f.miscompare_ch
        /\ x.bad_addr_packets = f.bad_addr_packets
        /\ x.jumbo_packets = f.jumbo_packets
        /\ x.disabled_packets = f.disabled_packets
    BY <1>1, <1>2, <1>3, <2>1 DEF FsbType
  <2>4. FsbTyped(x)
    BY <2>2, <2>3 DEF FsbTyped
  <2>5. Agrees(x, q, r)
    BY <2>2, <2>3, <2>4, PassedAgrees DEF p, t
  <2>6. QED
    BY <2>5 DEF x
<1>9. QED
  BY <1>6, <1>7, <1>8

\* Two ways to divide a sequence, one of them after its first element.
Divided(w, a, b, d) == <<w>> \o a = b \o d /\ b # << >>
FirstIs(w, a, b, d) == Head(b) = w /\ Tail(b) \o d = a

LEMMA PacketsMeet ==
  ASSUME NEW E, NEW w \in E, NEW a \in Seq(E), NEW b \in Seq(E), NEW d \in Seq(E),
         Divided(w, a, b, d)
  PROVE  FirstIs(w, a, b, d)
<1>1. <<w>> \o a = b \o d /\ b # << >>
  BY DEF Divided
<1>2. (<<w>> \o a)[1] = w /\ (b \o d)[1] = Head(b)
  BY <1>1
<1>3. Tail(<<w>> \o a) = a /\ Tail(b \o d) = Tail(b) \o d
  BY <1>1
<1>4. QED
  BY <1>1, <1>2, <1>3 DEF FirstIs

QueuesTyped(q) == \A c \in Chan : q[c].queue \in Seq(Seq(Slot))

\* The task compares the packet it waits with.  Unless a register was written
\* too late, the channel has delivered that packet.
LEMMA ComparedAgrees ==
  ASSUME NEW f, NEW q, NEW r, Agrees(f, q, r), QueuesTyped(q), CanCompare(f)
  PROVE  Agrees(Compared(f), q, r)
<1> DEFINE w == f.yapp_pkt
           a == Addr(w)
           p == Head(f.chan_fifo[a])
           rest == [f.chan_fifo EXCEPT ![a] = Tail(@)]
           g == [f EXCEPT !.chan_fifo = rest, !.yapp_pkt = NoPkt]
           x == Compared(f)
<1>1. FsbTyped(f) /\ f \in FsbType /\ f.router_enable_reg = 1 /\ w # NoPkt
      /\ a \in Chan /\ f.chan_fifo[a] # << >>
  BY DEF Agrees, FsbTyped, CanCompare
<1>2. /\ f.chan_fifo \in [Chan -> Seq(Wholes)] /\ f.yapp_fifo \in Seq(Wholes)
      /\ w \in Wholes /\ f.max_pktsize_reg \in Int
      /\ f.compare_ch \in [Chan -> Int] /\ f.miscompare_ch \in [Chan -> Int]
  BY <1>1, FsbFields
<1>3. p \in Wholes /\ Tail(f.chan_fifo[a]) \in Seq(Wholes)
  BY <1>1, <1>2
<1>4. /\ rest \in [Chan -> Seq(Wholes)] /\ rest[a] = Tail(f.chan_fifo[a])
      /\ \A c \in Chan : c # a => rest[c] = f.chan_fifo[c]
  BY <1>1, <1>2, <1>3
<1>5. g = [f EXCEPT !.chan_fifo[a] = Tail(@), !.yapp_pkt = NoPkt]
  BY <1>1 DEF FsbType
<1>6. x = CASE p = w -> [g EXCEPT !.paddr = Addr(p), !.compare_ch[Addr(p)] = @ + 1]
            [] p # w /\ f.paddr \in Chan ->
                 [g EXCEPT !.miscompare_ch[f.paddr] = @ + 1]
            [] p # w /\ f.paddr \notin Chan -> g
  BY <1>5, Zenon DEF Compared
<1> HIDE DEF rest
<1>7. /\ FsbTyped(g) /\ g \in FsbType /\ g.router_enable_reg = 1
      /\ g.chan_fifo = rest /\ g.yapp_pkt = NoPkt
      /\ g.yapp_fifo = f.yapp_fifo /\ g.max_pktsize_reg = f.max_pktsize_reg
      /\ g.bad_addr_packets = f.bad_addr_packets
      /\ g.jumbo_packets = f.jumbo_packets
      /\ g.disabled_packets = f.disabled_packets
      /\ g.compare_ch = f.compare_ch /\ g.miscompare_ch = f.miscompare_ch
      /\ g.late = f.late
  BY <1>1, <1>4 DEF FsbTyped, FsbType
<1> HIDE DEF g, x, p
<1>8. CASE p = w
  <2> DEFINE more == [f.compare_ch EXCEPT ![a] = f.compare_ch[a] + 1]
  <2>1. x = [g EXCEPT !.paddr = a, !.compare_ch = more]
    <3>1. x = [g EXCEPT !.paddr = Addr(p), !.compare_ch[Addr(p)] = @ + 1]
      BY <1>6, <1>8, Zenon
    <3>2. QED
      BY <1>7, <1>8, <3>1 DEF FsbType
  <2>2. f.compare_ch[a] \in Int
    BY <1>1, <1>2
  <2>3. more \in [Chan -> Int] /\ more[a] = f.compare_ch[a] + 1
        /\ \A c \in Chan : c # a => more[c] = f.compare_ch[c]
    BY <1>1, <1>2, <2>2
  <2> HIDE DEF more
  <2>4. /\ FsbTyped(x) /\ x.compare_ch = more
        /\ x.chan_fifo = rest /\ x.yapp_pkt = NoPkt
        /\ x.yapp_fifo = f.yapp_fifo /\ x.max_pktsize_reg = f.max_pktsize_reg
        /\ x.bad_addr_packets = f.bad_addr_packets
        /\ x.jumbo_packets = f.jumbo_packets
        /\ x.disabled_packets = f.disabled_packets
        /\ x.miscompare_ch = f.miscompare_ch
        /\ x.late = f.late
    BY <1>1, <1>7, <2>1, <2>3 DEF FsbTyped, FsbType
  <2>5. SUFFICES ASSUME f.late = FALSE
                 PROVE  DropsAgree(x, r) /\ \A c \in Chan : ChanAgrees(x, q[c], c)
    BY <2>4 DEF Agrees, SameLimits, x
  <2>6. DropsAgree(f, r) /\ \A c \in Chan : ChanAgrees(f, q[c], c)
    BY <2>5 DEF Agrees
  <2>7. DropsAgree(x, r)
    BY <2>4, <2>6 DEF DropsAgree
  <2>8. ASSUME NEW c \in Chan PROVE ChanAgrees(x, q[c], c)
    <3> DEFINE S == Selected(f.yapp_fifo, Passed(c, f.max_pktsize_reg))
               fifo == f.chan_fifo[c]
    <3>1. /\ Awaiting(f, c) \o S = fifo \o q[c].queue
          /\ f.miscompare_ch[c] = 0 /\ f.compare_ch[c] + Len(fifo) = q[c].compare
      BY <2>6 DEF ChanAgrees
    <3>2. Awaiting(x, c) = << >>
      BY <2>4 DEF Awaiting
    <3>3. S \in Seq(Wholes)
      BY <1>2, SelectedAppend
    <3>4. S \in Seq(Seq(Slot)) /\ fifo \in Seq(Seq(Slot)) /\ w \in Seq(Slot)
          /\ q[c].queue \in Seq(Seq(Slot))
      <4>1. \A v \in Wholes : v \in Seq(Slot)
        BY WholesFacts
      <4>2. Wholes \subseteq Seq(Slot)
        BY <4>1
      <4>3. fifo \in Seq(Wholes)
        BY <1>2
      <4> HIDE DEF S, fifo
      <4>4. \A v \in Seq(Wholes) : v \in Seq(Seq(Slot))
        BY <4>2
      <4>5. QED
        BY <1>2, <3>3, <4>1, <4>3, <4>4 DEF QueuesTyped
    <3>5. << >> \o S = S
      BY <3>3
    <3>6. CASE c = a
      <4>1. Awaiting(f, c) = <<w>>
        BY <1>1, <3>6 DEF Awaiting
      <4>2. fifo # << >>
        BY <1>1, <3>6
      <4> HIDE DEF S, fifo
      <4>3. Tail(fifo) \o q[c].queue = S
        <5>1. <<w>> \o S = fifo \o q[c].queue
          BY <3>1, <4>1
        <5>2. QED
          <6>1. Divided(w, S, fifo, q[c].queue)
            BY <4>2, <5>1 DEF Divided
          <6>2. FirstIs(w, S, fifo, q[c].queue)
            BY <3>4, <6>1, PacketsMeet
          <6>3. QED
            BY <6>2 DEF FirstIs
      <4>4. Len(Tail(fifo)) = Len(fifo) - 1 /\ Len(fifo) \in Nat
            /\ Len(Tail(fifo)) \in Int
        BY <3>4, <4>2
      <4>5. f.compare_ch[c] \in Int
        BY <1>2
      <4>6. (f.compare_ch[c] + 1) + Len(Tail(fifo)) = q[c].compare
        <5>1. (f.compare_ch[c] + 1) + Len(Tail(fifo)) = f.compare_ch[c] + Len(fifo)
          <6>1. \A i \in Int, j \in Nat, k \in Int : k = j - 1 => (i + 1) + k = i + j
            OBVIOUS
          <6>2. QED
            BY <4>4, <4>5, <6>1, Zenon
        <5>2. QED
          BY <3>1, <5>1
      <4>7. x.chan_fifo[c] = Tail(fifo) /\ x.compare_ch[c] = f.compare_ch[c] + 1
        BY <1>4, <2>3, <2>4, <3>6 DEF fifo
      <4>8. QED
        BY <2>4, <3>1, <3>2, <3>5, <4>3, <4>6, <4>7 DEF ChanAgrees, S
    <3>7. CASE c # a
      <4>1. Awaiting(f, c) = << >>
        BY <3>7 DEF Awaiting
      <4>2. x.chan_fifo[c] = fifo /\ x.compare_ch[c] = f.compare_ch[c]
        BY <1>4, <2>3, <2>4, <3>7
      <4>3. QED
        BY <2>4, <3>1, <3>2, <4>1, <4>2 DEF ChanAgrees
    <3>8. QED
      BY <3>6, <3>7
  <2>9. QED
    BY <2>7, <2>8
<1>9. CASE p # w
  <2>1. f.late # FALSE
    <3>1. SUFFICES ASSUME f.late = FALSE PROVE FALSE
      OBVIOUS
    <3> DEFINE S == Selected(f.yapp_fifo, Passed(a, f.max_pktsize_reg))
               fifo == f.chan_fifo[a]
    <3>2. Awaiting(f, a) \o S = fifo \o q[a].queue
      BY <1>1, <3>1 DEF Agrees, ChanAgrees
    <3>3. Awaiting(f, a) = <<w>>
      BY <1>1 DEF Awaiting
    <3>4. S \in Seq(Wholes) /\ fifo \in Seq(Wholes)
      <4>1. fifo \in Seq(Wholes)
        BY <1>1, <1>2
      <4>2. S \in Seq(Wholes)
        BY <1>2, SelectedAppend
      <4>3. QED
        BY <4>1, <4>2
    <3>5. S \in Seq(Seq(Slot)) /\ fifo \in Seq(Seq(Slot)) /\ w \in Seq(Slot)
          /\ q[a].queue \in Seq(Seq(Slot))
      <4>1. \A v \in Wholes : v \in Seq(Slot)
        BY WholesFacts
      <4>2. Wholes \subseteq Seq(Slot)
        BY <4>1
      <4> HIDE DEF S, fifo
      <4>3. \A v \in Seq(Wholes) : v \in Seq(Seq(Slot))
        BY <4>2
      <4>4. QED
        BY <1>1, <1>2, <3>4, <4>1, <4>3 DEF QueuesTyped
    <3>6. fifo # << >>
      BY <1>1
    <3> HIDE DEF S, fifo
    <3>7. Head(fifo) = w
      <4>1. <<w>> \o S = fifo \o q[a].queue
        BY <3>2, <3>3
      <4>2. QED
        <5>1. Divided(w, S, fifo, q[a].queue)
          BY <3>6, <4>1 DEF Divided
        <5>2. FirstIs(w, S, fifo, q[a].queue)
          BY <3>5, <5>1, PacketsMeet
        <5>3. QED
          BY <5>2 DEF FirstIs
    <3>8. QED
      BY <1>9, <3>7 DEF p, fifo
  <2>2. FsbTyped(x) /\ x.late = f.late /\ x.max_pktsize_reg = f.max_pktsize_reg
    <3>1. CASE f.paddr \in Chan
      <4> DEFINE more == [f.miscompare_ch EXCEPT ![f.paddr] =
                            f.miscompare_ch[f.paddr] + 1]
      <4>1. x = [g EXCEPT !.miscompare_ch = more]
        <5>1. x = [g EXCEPT !.miscompare_ch[f.paddr] = @ + 1]
          BY <1>6, <1>9, <3>1, Zenon
        <5>2. QED
          BY <1>7, <5>1 DEF FsbType
      <4>2. f.miscompare_ch[f.paddr] + 1 \in Int
        BY <1>2, <3>1
      <4>3. more \in [Chan -> Int]
        BY <1>2, <3>1, <4>2
      <4> HIDE DEF more
      <4>4. QED
        BY <1>7, <4>1, <4>3 DEF FsbTyped, FsbType
    <3>2. CASE f.paddr \notin Chan
      <4>1. x = g
        BY <1>6, <1>9, <3>2, Zenon
      <4>2. QED
        BY <1>7, <4>1
    <3>3. QED
      BY <3>1, <3>2
  <2>3. QED
    BY <2>1, <2>2 DEF Agrees, SameLimits, x
<1>10. QED
  BY <1>8, <1>9 DEF x

\* The tasks run until all of them wait.
LEMMA CheckAgrees ==
  ASSUME NEW f, NEW q, NEW r, Agrees(f, q, r), QueuesTyped(q)
  PROVE  Agrees(CheckPacket(f), q, r)
<1> DEFINE N == 2 * (Len(f.yapp_fifo) + 1)
           A == {x \in FsbType : Agrees(x, q, r)}
           Step(x) == IF CanCompare(x) THEN Compared(x)
                      ELSE IF CanJudge(x) THEN Judged(x) ELSE x
           Left(h) == h = [i \in 0 .. N |->
                             IF i = 0 THEN f
                             ELSE IF CanCompare(h[i - 1]) THEN Compared(h[i - 1])
                             ELSE IF CanJudge(h[i - 1]) THEN Judged(h[i - 1])
                             ELSE h[i - 1]]
           after == CHOOSE h : Left(h)
           next == [ix \in (1 .. N) \X A |-> Step(ix[2])]
<1>1. f \in A /\ N \in Nat
  <2>1. f \in FsbType /\ f.yapp_fifo \in Seq(Wholes)
    BY FsbFields DEF Agrees, FsbTyped
  <2>2. QED
    BY <2>1
<1>2. CheckPacket(f) = after[N]
  BY DEF CheckPacket
<1> HIDE DEF N
<1>3. ASSUME NEW x \in A PROVE Step(x) \in A
  <2>1. Agrees(Step(x), q, r)
    <3>1. CASE CanCompare(x)
      BY <3>1, ComparedAgrees
    <3>2. CASE ~CanCompare(x) /\ CanJudge(x)
      BY <3>2, JudgedAgrees
    <3>3. CASE ~CanCompare(x) /\ ~CanJudge(x)
      BY <3>3
    <3>4. QED
      BY <3>1, <3>2, <3>3
  <2> HIDE DEF Step
  <2>2. QED
    BY <2>1 DEF Agrees, FsbTyped
<1> HIDE DEF A, Step
<1>4. Steps(A, f, N, next)
  <2>1. next \in [(1 .. N) \X A -> A]
    BY <1>3
  <2>2. QED
    BY <1>1, <2>1 DEF Steps
<1>5. \A i \in 1 .. N, x \in A : next[<<i, x>>] = Step(x)
  OBVIOUS
<1> HIDE DEF next
<1>6. \A i \in 0 .. N : i # 0 => i \in 1 .. N /\ i - 1 \in 0 .. N
  BY <1>1
<1>7. \E h : Left(h)
  <2>1. PICK h : Solves(h, A, f, N, next)
    BY <1>4, Recursion
  <2>2. \A i \in 0 .. N : i # 0 => h[i] = Step(h[i - 1])
    BY <1>5, <1>6, <2>1 DEF Solves
  <2>3. Left(h)
    BY <2>1, <2>2 DEF Solves, Step
  <2>4. QED
    BY <2>3
<1>8. Left(after)
  <2> HIDE DEF Left
  <2>1. QED
    BY <1>7
<1> HIDE DEF after
<1>9. 0 \in 0 .. N /\ \A m \in 0 .. N - 1 :
         m \in 0 .. N /\ m + 1 \in 0 .. N /\ m + 1 # 0 /\ (m + 1) - 1 = m
  BY <1>1
<1>10. after[0] = f
  BY <1>8, <1>9
<1>11. \A m \in 0 .. N - 1 : after[m + 1] = Step(after[m])
  BY <1>8, <1>9 DEF Step
<1> HIDE DEF Left
<1> DEFINE T == {m \in 0 .. N : after[m] \in A}
<1>12. 0 \in T /\ \A m \in 0 .. N - 1 : m \in T => m + 1 \in T
  <2>1. 0 \in T
    BY <1>1, <1>9, <1>10
  <2>2. ASSUME NEW m \in 0 .. N - 1, m \in T PROVE m + 1 \in T
    BY <1>3, <1>9, <1>11, <2>2
  <2>3. QED
    BY <2>1, <2>2
<1>13. 0 .. N \subseteq T
  <2> HIDE DEF T
  <2>1. QED
    BY <1>1, <1>12, Induction
<1>14. after[N] \in A
  BY <1>1, <1>13
<1>15. QED
  BY <1>2, <1>14 DEF A

\* A register is written; with packets waiting to be judged that is too late.
LEMMA WrittenAgrees ==
  ASSUME NEW f, NEW q, NEW r, Agrees(f, q, r), NEW x, FsbTyped(x),
         NEW t, SameLimits(x, t), t.packets_dropped = r.packets_dropped,
         x.yapp_fifo = f.yapp_fifo, x.yapp_pkt = f.yapp_pkt,
         x.chan_fifo = f.chan_fifo,
         x.compare_ch = f.compare_ch, x.miscompare_ch = f.miscompare_ch,
         x.bad_addr_packets = f.bad_addr_packets,
         x.jumbo_packets = f.jumbo_packets,
         x.disabled_packets = f.disabled_packets,
         x.late = FALSE => f.late = FALSE /\ f.yapp_fifo = << >>
  PROVE  Agrees(x, q, t)
<1>1. SUFFICES ASSUME x.late = FALSE
               PROVE  DropsAgree(x, t) /\ \A c \in Chan : ChanAgrees(x, q[c], c)
  BY DEF Agrees
<1>2. f.yapp_fifo = << >> /\ DropsAgree(f, r) /\ \A c \in Chan : ChanAgrees(f, q[c], c)
  BY <1>1 DEF Agrees
<1>3. \A S : Selected(f.yapp_fifo, S) = << >> /\ Selected(x.yapp_fifo, S) = << >>
  BY <1>2, SelectedNone
<1>4. DropsAgree(x, t)
  BY <1>2, <1>3 DEF DropsAgree
<1>5. ASSUME NEW c \in Chan PROVE ChanAgrees(x, q[c], c)
  <2>1. Awaiting(x, c) = Awaiting(f, c)
    BY DEF Awaiting
  <2>2. QED
    BY <1>2, <1>3, <2>1 DEF ChanAgrees
<1>6. QED
  BY <1>4, <1>5

LEMMA NegedgeAgreement ==
  ASSUME IInv, Flow, ReferenceMirrors, SecondMirrors, RefState, Agreement, Negedge
  PROVE  Agreement'
<1>1. HostCtl /\ MirrorNegedge /\ HostState /\ hbus \in BusType
  BY DEF Negedge, DutNegedge, Flow, IInv, Types
<1>2. CASE hbus.hen = FALSE
  <2>1. ref' = ref /\ sb' = sb /\ fsb' = fsb
    BY <1>1, <1>2 DEF MirrorNegedge, sbVars
  <2>2. QED
    BY <2>1 DEF Agreement
<1>3. CASE hbus.hen = TRUE
  <2> DEFINE a == hbus.haddr
             d == hbus.hdata
             late == fsb.late \/ fsb.yapp_fifo # << >>
             max == IF a = MAX_PKT_ADDR THEN d ELSE fsb.max_pktsize_reg
             max2 == IF a = MAX_PKT_ADDR THEN d ELSE ref.max_pktsize_reg
             enable == IF a = ENABLE_ADDR THEN d ELSE fsb.router_enable_reg
             enable2 == IF a = ENABLE_ADDR THEN d ELSE ref.router_enable_reg
  <2>1. PICK w \in HostWrites : w.haddr = a /\ w.hdata = d
    BY <1>1, <1>3 DEF HostState
  <2>2. d \in Int /\ a \in {MAX_PKT_ADDR, ENABLE_ADDR}
    BY <1>1 DEF BusType
  <2>3. FsbTyped(fsb) /\ fsb \in FsbType /\ ref \in RefType
    BY DEF Agreement, Agrees, FsbTyped, RefState
  <2>4. sb' = sb /\ ref' = [ref EXCEPT !.max_pktsize_reg = max2,
                                       !.router_enable_reg = enable2]
    BY <1>1, <1>3, <2>3 DEF MirrorNegedge, WriteHbus, RefType
  <2>5. fsb' = [fsb EXCEPT !.max_pktsize_reg = max, !.router_enable_reg = enable,
                           !.late = late]
    BY <1>1, <1>3, <2>3 DEF MirrorNegedge, UpdateRegr, FsbType
  <2>6. enable = 1 /\ max \in Int
    BY <2>1, <2>2, <2>3, FsbFields DEF SecondMirrors, FsbTyped
  <2>7. late \in BOOLEAN /\ (late = FALSE => fsb.late = FALSE /\ fsb.yapp_fifo = << >>)
    BY <2>3, FsbFields
  <2>8. \A k \in Kinds : k.length > max <=> k.length > max2
    BY DEF Agreement, Agrees, SameLimits
  <2> HIDE DEF late, max, max2, enable, enable2
  <2>9. ref'.packets_dropped = ref.packets_dropped /\ ref'.max_pktsize_reg = max2
    BY <2>3, <2>4 DEF RefType
  <2>10. /\ fsb' \in FsbType /\ fsb'.router_enable_reg = 1
         /\ fsb'.max_pktsize_reg = max /\ fsb'.late = late
         /\ fsb'.yapp_fifo = fsb.yapp_fifo /\ fsb'.yapp_pkt = fsb.yapp_pkt
         /\ fsb'.chan_fifo = fsb.chan_fifo
         /\ fsb'.compare_ch = fsb.compare_ch /\ fsb'.miscompare_ch = fsb.miscompare_ch
         /\ fsb'.bad_addr_packets = fsb.bad_addr_packets
         /\ fsb'.jumbo_packets = fsb.jumbo_packets
         /\ fsb'.disabled_packets = fsb.disabled_packets
    <3>1. fsb \in FsbType /\ enable \in Int /\ max \in Int /\ late \in BOOLEAN
      BY <2>3, <2>6, <2>7
    <3>2. fsb' \in FsbType
      BY <2>5, <3>1 DEF FsbType
    <3>3. fsb'.router_enable_reg = enable /\ fsb'.max_pktsize_reg = max /\ fsb'.late = late
      BY <2>5, <3>1 DEF FsbType
    <3>4. /\ fsb'.yapp_fifo = fsb.yapp_fifo /\ fsb'.yapp_pkt = fsb.yapp_pkt
          /\ fsb'.chan_fifo = fsb.chan_fifo
          /\ fsb'.compare_ch = fsb.compare_ch
          /\ fsb'.miscompare_ch = fsb.miscompare_ch
          /\ fsb'.bad_addr_packets = fsb.bad_addr_packets
          /\ fsb'.jumbo_packets = fsb.jumbo_packets
          /\ fsb'.disabled_packets = fsb.disabled_packets
      BY <2>5, <3>1 DEF FsbType
    <3>5. QED
      BY <2>6, <3>2, <3>3, <3>4
  <2>11. FsbTyped(fsb')
    BY <2>3, <2>10 DEF FsbTyped
  <2>12. SameLimits(fsb', ref')
    BY <2>8, <2>9, <2>10 DEF SameLimits
  <2> DEFINE x == fsb'
             t == ref'
  <2>13. Agrees(fsb, sb, ref)
    BY DEF Agreement
  <2>14. /\ FsbTyped(x) /\ SameLimits(x, t)
         /\ t.packets_dropped = ref.packets_dropped
         /\ x.yapp_fifo = fsb.yapp_fifo /\ x.yapp_pkt = fsb.yapp_pkt
         /\ x.chan_fifo = fsb.chan_fifo
         /\ x.compare_ch = fsb.compare_ch /\ x.miscompare_ch = fsb.miscompare_ch
         /\ x.bad_addr_packets = fsb.bad_addr_packets
         /\ x.jumbo_packets = fsb.jumbo_packets
         /\ x.disabled_packets = fsb.disabled_packets
         /\ x.late = FALSE => fsb.late = FALSE /\ fsb.yapp_fifo = << >>
    BY <2>7, <2>9, <2>10, <2>11, <2>12
  <2> HIDE DEF x, t
  <2>15. Agrees(x, sb, t)
    BY <2>13, <2>14, WrittenAgrees
  <2>16. QED
    BY <2>4, <2>15 DEF Agreement, x, t
<1>4. QED
  BY <1>1, <1>2, <1>3 DEF BusType

\* What the reference model counts as dropped.
LEMMA RefDrops ==
  ASSUME NEW a, NEW n \in Int, RefState
  PROVE  RefAfter(a, n).packets_dropped =
           IF a = IllegalAddr \/ n > ref.max_pktsize_reg
           THEN ref.packets_dropped + 1 ELSE ref.packets_dropped
<1>1. ref \in RefType /\ ref.router_enable_reg # 0 /\ ref.max_pktsize_reg \in Int
  BY DEF RefState, RefType
<1>2. CASE BadAddr(a)
  <2>1. RefAfter(a, n) = [ref EXCEPT !.bad_addr_packets = @ + 1,
                                     !.packets_dropped = @ + 1]
    BY <1>2 DEF RefAfter
  <2>2. QED
    BY <1>1, <1>2, <2>1 DEF RefType, BadAddr
<1>3. CASE ~BadAddr(a) /\ n <= ref.max_pktsize_reg
  <2>1. Forwarded(n) /\ ~Jumbo(n)
    BY <1>1, <1>3 DEF Forwarded, Jumbo
  <2>2. RefAfter(a, n) = [ref EXCEPT !.packets_forwarded = @ + 1]
    BY <1>1, <1>3, <2>1, Zenon DEF RefAfter
  <2>3. QED
    BY <1>1, <1>3, <2>2 DEF RefType, BadAddr
<1>4. CASE ~BadAddr(a) /\ n > ref.max_pktsize_reg
  <2>1. ~Forwarded(n) /\ Jumbo(n)
    BY <1>1, <1>4 DEF Forwarded, Jumbo
  <2>2. RefAfter(a, n) = [ref EXCEPT !.jumbo_packets = @ + 1,
                                     !.packets_dropped = @ + 1]
    BY <1>1, <1>4, <2>1, Zenon DEF RefAfter
  <2>3. QED
    BY <1>1, <1>4, <2>2 DEF RefType
<1>5. QED
  BY <1>1, <1>2, <1>3, <1>4

\* What the first scoreboard counts as compared.
LEMMA ComparePosedge ==
  ASSUME IInv, Flow, ParityFits, InputMonitor, Verdict, Posedge,
         ReferenceMirrors, RefState, SbTyped, NEW c \in Chan, Delivery(c), Clean(c)
  PROVE  sb'[c].compare = IF CmonCollects(c) THEN sb[c].compare + 1 ELSE sb[c].compare
<1>1. sb[c] \in SbType
  BY DEF SbTyped
<1>2. AfterChan(c) \in SbType
  BY ChanCompared DEF Posedge
<1>3. AfterChan(c).compare = IF CmonCollects(c) THEN sb[c].compare + 1
                             ELSE sb[c].compare
  <2>1. CASE CmonCollects(c)
    <3>1. PICK p \in Packets : CmonPacket(c) = Whole(p) /\ Expected(c, p)
      BY <2>1, ParityShape DEF CmonCollects, Posedge
    <3>2. ~Loading(c)
      BY <2>1, ParityShape DEF CmonCollects, Posedge
    <3>3. sb[c].queue = <<Whole(p)>>
      BY <3>1, <3>2 DEF Expected
    <3>4. sb[c].queue # << >> /\ Whole(p) = Head(sb[c].queue)
      BY <3>3
    <3>5. AfterChan(c) = [sb[c] EXCEPT !.packets = @ + 1, !.compare = @ + 1,
                                       !.queue = Tail(@)]
      BY <2>1, <3>1, <3>4 DEF AfterChan, SbAfterChan
    <3>6. QED
      BY <1>1, <2>1, <3>5 DEF SbType
  <2>2. CASE ~CmonCollects(c)
    BY <2>2 DEF AfterChan
  <2>3. QED
    BY <2>1, <2>2
<1>4. sb'[c].compare = AfterChan(c).compare
  <2>1. CASE Loading(c) /\ drv.pc = "release"
    <3>1. sb'[c] = [AfterChan(c) EXCEPT !.queue = Append(@, Whole(drv.pkt))]
      BY <2>1, SbPosedge
    <3>2. QED
      BY <1>2, <3>1 DEF SbType
  <2>2. CASE ~(Loading(c) /\ drv.pc = "release")
    BY <2>2, SbPosedge
  <2>3. QED
    BY <2>1, <2>2
<1>5. QED
  BY <1>3, <1>4

\* The second scoreboard with what the monitors write into its FIFOs.
FifosFilled ==
  [fsb EXCEPT
     !.yapp_fifo = IF drv.pc = "release" THEN Append(@, Whole(drv.pkt)) ELSE @,
     !.chan_fifo = [c \in Chan |-> IF CmonCollects(c) THEN Append(@[c], CmonPacket(c))
                                   ELSE @[c]]]

LEMMA FsbPosedge ==
  ASSUME IInv, Flow, ParityFits, InputMonitor, Posedge, fsb \in FsbType
  PROVE  fsb' = CheckPacket(FifosFilled) \/ (fsb' = fsb /\ FifosFilled = fsb)
<1> DEFINE input == IF YmonCollects(in_suspend) THEN <<YmonPacket>> ELSE << >>
           output == [c \in Chan |-> IF CmonCollects(c) THEN <<CmonPacket(c)>> ELSE << >>]
           y == fsb.yapp_fifo \o input
           o == [c \in Chan |-> fsb.chan_fifo[c] \o output[c]]
<1>1. clock = 0 /\ FsbAnalysis
  BY DEF Posedge
<1>2. fsb.yapp_fifo \in Seq(Wholes) /\ fsb.chan_fifo \in [Chan -> Seq(Wholes)]
  BY FsbFields
<1>3. /\ YmonCollects(in_suspend) <=> drv.pc = "release"
      /\ drv.pc = "release" => YmonPacket = Whole(drv.pkt)
  BY <1>1, InputCollects
<1>4. y = IF drv.pc = "release" THEN Append(fsb.yapp_fifo, Whole(drv.pkt))
          ELSE fsb.yapp_fifo
  <2>1. \A w : fsb.yapp_fifo \o <<w>> = Append(fsb.yapp_fifo, w)
    BY <1>2
  <2>2. fsb.yapp_fifo \o << >> = fsb.yapp_fifo
    BY <1>2
  <2>3. QED
    BY <1>3, <2>1, <2>2
<1>5. \A c \in Chan : fsb.chan_fifo[c] \o output[c] =
                        IF CmonCollects(c) THEN Append(fsb.chan_fifo[c], CmonPacket(c))
                        ELSE fsb.chan_fifo[c]
  <2>1. \A c \in Chan : \A w : fsb.chan_fifo[c] \o <<w>> = Append(fsb.chan_fifo[c], w)
    BY <1>2
  <2>2. \A c \in Chan : fsb.chan_fifo[c] \o << >> = fsb.chan_fifo[c]
    BY <1>2
  <2>3. QED
    BY <2>1, <2>2
<1>6. FifosFilled = [fsb EXCEPT !.yapp_fifo = y, !.chan_fifo = o]
  <2>1. o = [c \in Chan |-> IF CmonCollects(c) THEN Append(fsb.chan_fifo[c], CmonPacket(c))
                            ELSE fsb.chan_fifo[c]]
    BY <1>5
  <2> HIDE DEF y, o
  <2>2. QED
    BY <1>4, <2>1 DEF FifosFilled, FsbType
<1>7. CASE YmonCollects(in_suspend) \/ \E c \in Chan : CmonCollects(c)
  <2>1. FsbTakes(input, output)
    BY <1>1, <1>7 DEF FsbAnalysis
  <2>2. fsb' = CheckPacket([fsb EXCEPT !.yapp_fifo = @ \o input,
                              !.chan_fifo = [c \in Chan |-> @[c] \o output[c]]])
    BY <2>1 DEF FsbTakes
  <2>3. [fsb EXCEPT !.yapp_fifo = @ \o input,
                    !.chan_fifo = [c \in Chan |-> @[c] \o output[c]]]
          = [fsb EXCEPT !.yapp_fifo = y, !.chan_fifo = o]
    <3> HIDE DEF input, output
    <3>1. QED
      BY DEF FsbType
  <2> HIDE DEF input, output, y, o
  <2>4. QED
    BY <1>6, <2>2, <2>3
<1>8. CASE ~(YmonCollects(in_suspend) \/ \E c \in Chan : CmonCollects(c))
  <2>1. fsb' = fsb
    BY <1>1, <1>8 DEF FsbAnalysis
  <2>2. y = fsb.yapp_fifo
    BY <1>3, <1>4, <1>8
  <2>3. o = fsb.chan_fifo
    BY <1>2, <1>5, <1>8
  <2> HIDE DEF y, o
  <2>4. FifosFilled = fsb
    BY <1>6, <2>2, <2>3 DEF FsbType
  <2>5. QED
    BY <2>1, <2>4
<1>9. QED
  BY <1>7, <1>8

Alike(a, b, d, e) == a \o b = d \o e

LEMMA AlikeAppend ==
  ASSUME NEW E, NEW a \in Seq(E), NEW b \in Seq(E), NEW d \in Seq(E), NEW e \in Seq(E),
         NEW w \in E, Alike(a, b, d, e)
  PROVE  Alike(a, Append(b, w), d, Append(e, w))
<1>1. a \o Append(b, w) = Append(a \o b, w) /\ d \o Append(e, w) = Append(d \o e, w)
  OBVIOUS
<1>2. QED
  BY <1>1 DEF Alike

\* The packets are put in line in both scoreboards alike.
LEMMA FilledAgrees ==
  ASSUME IInv, Flow, ParityFits, InputMonitor, Verdict, Posedge,
         ReferenceMirrors, RefState, SbTyped,
         \A c \in Chan : Delivery(c) /\ Clean(c), Agreement
  PROVE  Agrees(FifosFilled, sb', ref')
<1> DEFINE p == drv.pkt
           m == fsb.max_pktsize_reg
           x == FifosFilled
           y == IF drv.pc = "release" THEN Append(fsb.yapp_fifo, Whole(p))
                ELSE fsb.yapp_fifo
           o == [c \in Chan |-> IF CmonCollects(c) THEN Append(fsb.chan_fifo[c], CmonPacket(c))
                                ELSE fsb.chan_fifo[c]]
<1>1. /\ FsbTyped(fsb) /\ fsb \in FsbType /\ SameLimits(fsb, ref)
      /\ clock = 0 /\ Analysis
  BY DEF Agreement, Agrees, FsbTyped, Posedge
<1>2. /\ fsb.yapp_fifo \in Seq(Wholes) /\ fsb.chan_fifo \in [Chan -> Seq(Wholes)]
      /\ m \in Int /\ fsb.compare_ch \in [Chan -> Int]
      /\ fsb.bad_addr_packets \in Int /\ fsb.jumbo_packets \in Int
      /\ fsb.disabled_packets \in Int
  BY <1>1, FsbFields
<1>3. ASSUME drv.pc = "release"
      PROVE  /\ p \in Packets /\ p.length \in Int
             /\ Whole(p) \in Wholes /\ Addr(Whole(p)) = p.addr
             /\ Length(Whole(p)) = p.length
             /\ p.length > m <=> p.length > ref.max_pktsize_reg
  <2>1. p \in Packets
    BY <1>3 DEF IInv, AtParity
  <2>2. PICK k \in Kinds : p.length = k.length
    BY <2>1 DEF Packets, Packet
  <2>3. QED
    BY <1>1, <2>1, <2>2, PacketFacts, WholeRead DEF SameLimits
<1>4. y \in Seq(Wholes)
  BY <1>2, <1>3
<1>5. ASSUME NEW c \in Chan, CmonCollects(c)
      PROVE  /\ ~Loading(c) /\ CmonPacket(c) \in Wholes
             /\ sb[c].queue = <<CmonPacket(c)>>
  <2>1. ~Loading(c)
    BY <1>1, <1>5, ParityShape DEF CmonCollects
  <2>2. PICK k \in Packets : CmonPacket(c) = Whole(k) /\ Expected(c, k)
    BY <1>1, <1>5, ParityShape DEF CmonCollects
  <2>3. QED
    BY <2>1, <2>2 DEF Expected, Wholes
<1>6. o \in [Chan -> Seq(Wholes)]
  <2>1. ASSUME NEW c \in Chan PROVE o[c] \in Seq(Wholes)
    BY <1>2, <1>5
  <2>2. QED
    BY <2>1
<1>7. x = [fsb EXCEPT !.yapp_fifo = y, !.chan_fifo = o]
  BY <1>1 DEF FifosFilled, FsbType
<1> HIDE DEF x, y, o
<1>8. x \in FsbType
  BY <1>1, <1>4, <1>6, <1>7 DEF FsbType
<1>9. /\ x.yapp_fifo = y /\ x.chan_fifo = o /\ x.yapp_pkt = fsb.yapp_pkt
      /\ x.max_pktsize_reg = m /\ x.router_enable_reg = fsb.router_enable_reg
      /\ x.compare_ch = fsb.compare_ch /\ x.miscompare_ch = fsb.miscompare_ch
      /\ x.bad_addr_packets = fsb.bad_addr_packets
      /\ x.jumbo_packets = fsb.jumbo_packets
      /\ x.disabled_packets = fsb.disabled_packets
      /\ x.late = fsb.late
  BY <1>1, <1>7 DEF FsbType
<1>10. FsbTyped(x)
  BY <1>1, <1>8, <1>9 DEF FsbTyped
<1>11. /\ drv.pc = "release" => ref' = RefAfter(p.addr, p.length)
       /\ drv.pc # "release" => ref' = ref
  <2>1. CASE drv.pc = "release"
    <3>1. /\ YmonCollects(in_suspend) /\ p \in Packets
          /\ YmonPacket = Whole(p) /\ ymon.length = p.length
      BY <1>1, <2>1, InputCollects
    <3>2. YmonPacket[1].pkt.addr = p.addr
      BY <3>1, WholeFacts
    <3>3. QED
      BY <1>1, <2>1, <3>1, <3>2 DEF Analysis
  <2>2. CASE drv.pc # "release"
    <3>1. ~YmonCollects(in_suspend)
      BY <1>1, <2>2, InputCollects
    <3>2. QED
      BY <1>1, <2>2, <3>1 DEF Analysis
  <2>3. QED
    BY <2>1, <2>2
<1>12. ref'.max_pktsize_reg = ref.max_pktsize_reg
  BY <1>3, <1>11, RefAfterKeeps
<1>13. SameLimits(x, ref')
  BY <1>1, <1>9, <1>12 DEF SameLimits
<1>14. SUFFICES ASSUME fsb.late = FALSE
                PROVE  DropsAgree(x, ref') /\ \A c \in Chan : ChanAgrees(x, sb'[c], c)
  BY <1>9, <1>10, <1>13 DEF Agrees, x
<1>15. DropsAgree(fsb, ref) /\ \A c \in Chan : ChanAgrees(fsb, sb[c], c)
  BY <1>14 DEF Agreement, Agrees
<1>16. DropsAgree(x, ref')
  <2> DEFINE S == Selected(fsb.yapp_fifo, Dropped(m))
             T == Selected(y, Dropped(m))
             b == fsb.bad_addr_packets + fsb.jumbo_packets + fsb.disabled_packets
  <2>1. b + Len(S) = ref.packets_dropped
    BY <1>15 DEF DropsAgree
  <2>2. CASE drv.pc = "release"
    <3>1. /\ S \in Seq(Wholes)
          /\ T = IF Whole(p) \in Dropped(m) THEN Append(S, Whole(p)) ELSE S
      <4>1. y = Append(fsb.yapp_fifo, Whole(p)) /\ Whole(p) \in Wholes
        BY <1>3, <2>2 DEF y
      <4>2. \A z \in Seq(Wholes), w \in Wholes : \A D :
               /\ Selected(z, D) \in Seq(Wholes)
               /\ w \in D => Selected(Append(z, w), D) = Append(Selected(z, D), w)
               /\ w \notin D => Selected(Append(z, w), D) = Selected(z, D)
        BY SelectedAppend
      <4> DEFINE w == Whole(p)
      <4>3. /\ S \in Seq(Wholes)
            /\ w \in Dropped(m) => T = Append(S, w)
            /\ w \notin Dropped(m) => T = S
        BY <1>2, <4>1, <4>2, Zenon
      <4> HIDE DEF S, T, w
      <4>4. S \in Seq(Wholes) /\ T = IF w \in Dropped(m) THEN Append(S, w) ELSE S
        BY <4>3
      <4>5. QED
        BY <4>4 DEF w
    <3>2. Whole(p) \in Dropped(m) <=> p.addr = IllegalAddr \/ p.length > m
      BY <1>3, <2>2 DEF Dropped
    <3>3. ref'.packets_dropped = IF Whole(p) \in Dropped(m)
                                 THEN ref.packets_dropped + 1 ELSE ref.packets_dropped
      BY <1>3, <1>11, <2>2, <3>2, RefDrops
    <3>4. Len(S) \in Nat /\ Len(T) = IF Whole(p) \in Dropped(m) THEN Len(S) + 1
                                     ELSE Len(S)
      BY <1>3, <2>2, <3>1
    <3>5. b \in Int
      BY <1>2
    <3> HIDE DEF S, T, b
    <3>6. b + Len(T) = ref'.packets_dropped
      <4>1. \A k \in Nat : b + (k + 1) = (b + k) + 1
        BY <3>5
      <4>2. QED
        BY <2>1, <3>3, <3>4, <4>1
    <3>7. QED
      BY <1>9, <3>6 DEF DropsAgree, T, b
  <2>3. CASE drv.pc # "release"
    BY <1>9, <1>11, <1>15, <2>3 DEF DropsAgree, y
  <2>4. QED
    BY <2>2, <2>3
<1>17. ASSUME NEW c \in Chan PROVE ChanAgrees(x, sb'[c], c)
  <2> DEFINE S == Selected(fsb.yapp_fifo, Passed(c, m))
             T == Selected(y, Passed(c, m))
             fifo == fsb.chan_fifo[c]
             A == Awaiting(fsb, c)
             e == sb[c].queue
             e2 == sb'[c].queue
  <2>1. /\ A \o S = fifo \o e
        /\ fsb.miscompare_ch[c] = 0 /\ fsb.compare_ch[c] + Len(fifo) = sb[c].compare
    BY <1>15 DEF ChanAgrees
  <2>2. Awaiting(x, c) = A
    BY <1>9 DEF Awaiting
  <2>3. /\ S \in Seq(Wholes) /\ A \in Seq(Wholes) /\ fifo \in Seq(Wholes)
    <3>1. S \in Seq(Wholes)
      BY <1>2, SelectedType
    <3>2. fsb.yapp_pkt \in Wholes \cup {NoPkt}
      BY <1>1, FsbFields
    <3>3. A \in Seq(Wholes)
      BY <3>2, EmptySeq DEF Awaiting
    <3>4. QED
      BY <1>2, <3>1, <3>3
  <2>4. /\ S \in Seq(Seq(Slot)) /\ A \in Seq(Seq(Slot)) /\ fifo \in Seq(Seq(Slot))
        /\ e \in Seq(Seq(Slot))
    <3>1. \A v \in Wholes : v \in Seq(Slot)
      BY WholesFacts
    <3>2. Wholes \subseteq Seq(Slot)
      BY <3>1
    <3> HIDE DEF S, A, fifo
    <3>3. \A v \in Seq(Wholes) : v \in Seq(Seq(Slot))
      BY <3>2
    <3>4. QED
      BY <2>3, <3>3 DEF SbTyped, SbType
  <2>5. /\ Loading(c) /\ drv.pc = "release" => e2 = Append(e, Whole(p))
        /\ ~(Loading(c) /\ drv.pc = "release") =>
             e2 = IF CmonCollects(c) THEN << >> ELSE e
        /\ sb'[c].compare = IF CmonCollects(c) THEN sb[c].compare + 1
                            ELSE sb[c].compare
    BY ScoreboardPosedge, ComparePosedge DEF CmonCollects
  <2>6. o[c] = IF CmonCollects(c) THEN Append(fifo, CmonPacket(c)) ELSE fifo
    BY DEF o
  <2>7. drv.pc = "release" => (Whole(p) \in Passed(c, m) <=> Loading(c))
    <3>1. SUFFICES ASSUME drv.pc = "release"
                   PROVE  Whole(p) \in Passed(c, m) <=> Loading(c)
      OBVIOUS
    <3>2. Whole(p) \in Passed(c, m) <=> p.addr = c /\ ~(p.length > ref.max_pktsize_reg)
      BY <1>3, <3>1 DEF Passed
    <3>3. Forwarded(p.length) <=> ~(p.length > ref.max_pktsize_reg)
      <4>1. ref.max_pktsize_reg \in Int /\ p.length \in Int
        BY <1>3, <3>1 DEF RefState, RefType
      <4>2. QED
        BY <4>1 DEF Forwarded, RefState
    <3>4. ~BadAddr(c)
      BY ChanAssumption DEF BadAddr
    <3>5. Loading(c) => state_r = "DATA_LOAD"
      BY DEF Loading
    <3>6. QED
      BY <3>1, <3>2, <3>3, <3>4, <3>5, RefForwards
  <2>8. CASE Loading(c) /\ drv.pc = "release"
    <3>1. /\ T = Append(S, Whole(p)) /\ Whole(p) \in Wholes
      <4>1. y = Append(fsb.yapp_fifo, Whole(p)) /\ Whole(p) \in Wholes
        BY <1>3, <2>8 DEF y
      <4>2. \A z \in Seq(Wholes), w \in Wholes : \A D :
               w \in D => Selected(Append(z, w), D) = Append(Selected(z, D), w)
        BY SelectedAppend
      <4>3. QED
        BY <1>2, <2>7, <2>8, <4>1, <4>2, Zenon
    <3>2. Whole(p) \in Seq(Slot)
      BY <3>1, WholesFacts
    <3>3. ~CmonCollects(c)
      BY <1>5, <2>8
    <3> HIDE DEF S, T, A, fifo, e, e2
    <3>4. Alike(A, S, fifo, e)
      BY <2>1 DEF Alike
    <3>5. Alike(A, T, fifo, e2)
      BY <2>4, <2>5, <2>8, <3>1, <3>2, <3>4, AlikeAppend
    <3>6. A \o T = fifo \o e2
      BY <3>5 DEF Alike
    <3>7. o[c] = fifo /\ sb'[c].compare = sb[c].compare
      BY <2>5, <2>6, <3>3
    <3>8. QED
      BY <1>9, <2>1, <2>2, <3>6, <3>7 DEF ChanAgrees, T, e2
  <2>9. CASE ~(Loading(c) /\ drv.pc = "release")
    <3>1. T = S
      <4>1. CASE drv.pc = "release"
        <5>1. y = Append(fsb.yapp_fifo, Whole(p)) /\ Whole(p) \in Wholes
          BY <1>3, <4>1 DEF y
        <5>2. QED
          BY <1>2, <2>7, <2>9, <4>1, <5>1, SelectedAppend
      <4>2. CASE drv.pc # "release"
        BY <4>2 DEF y
      <4>3. QED
        BY <4>1, <4>2
    <3>2. CASE CmonCollects(c)
      <4>1. e = <<CmonPacket(c)>> /\ e2 = << >> /\ CmonPacket(c) \in Wholes
        BY <1>5, <2>5, <2>9, <3>2
      <4>2. o[c] = Append(fifo, CmonPacket(c)) /\ sb'[c].compare = sb[c].compare + 1
        BY <2>5, <2>6, <3>2
      <4>3. Append(fifo, CmonPacket(c)) \o << >> = fifo \o <<CmonPacket(c)>>
        BY <2>3, <4>1
      <4>4. Len(Append(fifo, CmonPacket(c))) = Len(fifo) + 1 /\ Len(fifo) \in Nat
        BY <2>3
      <4>5. fsb.compare_ch[c] \in Int
        BY <1>2
      <4> HIDE DEF S, T, A, fifo, e, e2
      <4>6. A \o T = o[c] \o e2
        BY <2>1, <3>1, <4>1, <4>2, <4>3
      <4>7. fsb.compare_ch[c] + Len(o[c]) = sb'[c].compare
        <5>1. \A i \in Int, k \in Nat : i + (k + 1) = (i + k) + 1
          OBVIOUS
        <5>2. QED
          BY <2>1, <4>2, <4>4, <4>5, <5>1, Zenon
      <4>8. QED
        BY <1>9, <2>1, <2>2, <4>6, <4>7 DEF ChanAgrees, T, e2
    <3>3. CASE ~CmonCollects(c)
      BY <1>9, <2>1, <2>2, <2>5, <2>6, <2>9, <3>1, <3>3 DEF ChanAgrees
    <3>4. QED
      BY <3>2, <3>3
  <2>10. QED
    BY <2>8, <2>9
<1>18. QED
  BY <1>16, <1>17

LEMMA PosedgeAgreement ==
  ASSUME IInv, Flow, ParityFits, InputMonitor, Verdict, Posedge,
         ReferenceMirrors, RefState, SbTyped,
         \A c \in Chan : Delivery(c) /\ Clean(c), Agreement
  PROVE  Agreement'
<1> DEFINE x == fsb'
           q == sb'
           t == ref'
<1>1. Agrees(FifosFilled, q, t)
  BY FilledAgrees
<1>2. QueuesTyped(q)
  <2>1. \A c \in Chan : sb'[c] \in SbType
    BY ScoreboardPosedge
  <2>2. QED
    BY <2>1 DEF QueuesTyped, SbType
<1>3. fsb \in FsbType
  BY DEF Agreement, Agrees, FsbTyped
<1>4. x = CheckPacket(FifosFilled) \/ x = FifosFilled
  BY <1>3, FsbPosedge
<1> HIDE DEF x, q, t
<1>5. Agrees(x, q, t)
  BY <1>1, <1>2, <1>4, CheckAgrees
<1>6. QED
  BY <1>5 DEF Agreement, x, q, t

LEMMA InitAgreement ==
  ASSUME Init, ReferenceMirrors, SecondMirrors PROVE Agreement
<1> DEFINE none == [c \in Chan |-> << >>]
           zero == [c \in Chan |-> 0]
           e == << >>
<1>1. /\ fsb = [yapp_fifo |-> e, chan_fifo |-> none, yapp_pkt |-> NoPkt,
                paddr |-> IllegalAddr,
                max_pktsize_reg |-> 63, router_enable_reg |-> 1,
                bad_addr_packets |-> 0, jumbo_packets |-> 0, disabled_packets |-> 0,
                compare_ch |-> zero, miscompare_ch |-> zero, late |-> FALSE]
      /\ ref.packets_dropped = 0 /\ ref.max_pktsize_reg = RefMaxPkt
      /\ \A c \in Chan : sb[c].queue = e /\ sb[c].compare = 0
  BY DEF Init, FsbInit, SbInit
<1>2. /\ e \in Seq(Wholes) /\ none \in [Chan -> Seq(Wholes)]
      /\ zero \in [Chan -> Int] /\ NoPkt \in Wholes \cup {NoPkt}
      /\ IllegalAddr \in Chan \cup {IllegalAddr}
      /\ 63 \in Int /\ 1 \in Int /\ 0 \in Int /\ FALSE \in BOOLEAN
      /\ e \o e = e /\ Len(e) = 0
  BY EmptySeq
<1>3. \A c \in Chan : none[c] = e /\ zero[c] = 0
  OBVIOUS
<1> HIDE DEF none, zero, e
<1>4. fsb \in FsbType
  BY <1>1, <1>2, Zenon DEF FsbType
<1>5. /\ fsb.yapp_fifo = e /\ fsb.chan_fifo = none /\ fsb.yapp_pkt = NoPkt
      /\ fsb.max_pktsize_reg = 63 /\ fsb.router_enable_reg = 1
      /\ fsb.bad_addr_packets = 0 /\ fsb.jumbo_packets = 0
      /\ fsb.disabled_packets = 0 /\ fsb.compare_ch = zero /\ fsb.miscompare_ch = zero
  BY <1>1
<1>6. FsbTyped(fsb) /\ SameLimits(fsb, ref)
  BY <1>1, <1>4, <1>5 DEF FsbTyped, SameLimits, SecondMirrors
<1>7. \A S : Selected(fsb.yapp_fifo, S) = e
  BY <1>5, SelectedNone DEF e
<1>8. DropsAgree(fsb, ref)
  BY <1>1, <1>2, <1>5, <1>7 DEF DropsAgree
<1>9. ASSUME NEW c \in Chan PROVE ChanAgrees(fsb, sb[c], c)
  <2>1. Awaiting(fsb, c) = e
    BY <1>5 DEF Awaiting, e
  <2>2. fsb.chan_fifo[c] = e /\ fsb.miscompare_ch[c] = 0 /\ fsb.compare_ch[c] = 0
    BY <1>3, <1>5
  <2>3. sb[c].queue = e /\ sb[c].compare = 0
    BY <1>1
  <2>4. Awaiting(fsb, c) \o Selected(fsb.yapp_fifo, Passed(c, fsb.max_pktsize_reg))
          = fsb.chan_fifo[c] \o sb[c].queue
    BY <1>7, <2>1, <2>2, <2>3
  <2>5. fsb.compare_ch[c] + Len(fsb.chan_fifo[c]) = sb[c].compare
    BY <1>2, <2>2, <2>3
  <2>6. QED
    BY <2>2, <2>4, <2>5 DEF ChanAgrees
<1>10. QED
  BY <1>6, <1>8, <1>9 DEF Agreement, Agrees

\* The two scoreboards are in step.
THEOREM AgreementInductive ==
  ASSUME WritesHarmless, ParityFits, ReferenceMirrors, SecondMirrors
  PROVE  Spec => []Agreement
<1>1. IInv /\ Flow /\ Checkers /\ Agreement /\ [Next]_vars => Agreement'
  <2>1. SUFFICES ASSUME IInv, Flow, Checkers, Agreement, [Next]_vars PROVE Agreement'
    OBVIOUS
  <2>2. /\ InputMonitor /\ Verdict /\ RefState /\ SbTyped
        /\ \A c \in Chan : Delivery(c) /\ Clean(c)
    BY <2>1 DEF Checkers
  <2>3. CASE Negedge
    BY <2>1, <2>2, <2>3, NegedgeAgreement
  <2>4. CASE Posedge
    BY <2>1, <2>2, <2>4, PosedgeAgreement
  <2>5. CASE UNCHANGED vars
    BY <2>1, <2>5 DEF Agreement, vars, sbVars
  <2>6. QED
    BY <2>1, <2>3, <2>4, <2>5 DEF Next
<1>2. QED
  BY <1>1, InitAgreement, CheckersInductive, FlowInductive, PTL DEF Spec

\* The scoreboard of lab10 counts for each channel what the module UVC counts,
\* less what still waits in its FIFO, and with nothing left to judge drops what
\* the reference model dropped (router_fifo_scoreboard.sv).
THEOREM ScoreboardsCorrect ==
  ASSUME WritesHarmless, ParityFits, ReferenceMirrors, SecondMirrors
  PROVE  Spec => []ScoreboardsAgree
<1>1. Checkers /\ Agreement => ScoreboardsAgree
  <2>1. SUFFICES ASSUME Checkers, Agreement, ~fsb.late PROVE ScoreboardsAgree
    BY DEF ScoreboardsAgree
  <2>2. FsbTyped(fsb) /\ fsb \in FsbType /\ fsb.late = FALSE
    BY <2>1, FsbFields DEF Agreement, Agrees, FsbTyped
  <2>3. DropsAgree(fsb, ref) /\ \A c \in Chan : ChanAgrees(fsb, sb[c], c)
    BY <2>1, <2>2 DEF Agreement, Agrees
  <2>4. \A c \in Chan : Clean(c)
    BY <2>1 DEF Checkers
  <2>5. \A c \in Chan : /\ fsb.miscompare_ch[c] = sb[c].miscompare
                        /\ fsb.compare_ch[c] + Len(fsb.chan_fifo[c]) = sb[c].compare
    BY <2>3, <2>4 DEF ChanAgrees, Clean
  <2>6. SameDrops
    <3>1. SUFFICES ASSUME fsb.yapp_fifo = << >> PROVE packets_dropped = ref.packets_dropped
      BY DEF SameDrops
    <3>2. Len(Selected(fsb.yapp_fifo, Dropped(fsb.max_pktsize_reg))) = 0
      BY <3>1, SelectedNone
    <3>3. packets_dropped \in Int
      BY <2>2, FsbFields DEF packets_dropped
    <3>4. packets_dropped + 0 = ref.packets_dropped
      BY <2>3, <3>2 DEF DropsAgree, packets_dropped
    <3>5. QED
      BY <3>3, <3>4
  <2>7. QED
    BY <2>5, <2>6 DEF ScoreboardsAgree
<1>2. QED
  BY <1>1, AgreementInductive, CheckersInductive, PTL
=============================================================================
