---------------------------- MODULE RouterProofs ----------------------------
(***************************************************************************)
(* Proofs about RouterTb, for every set of channels, depth of the buffers, *)
(* maximal length, kinds of packets, register writes and response delays:  *)
(* its type invariant, and that the router's verdict on parity is right.   *)
(* The verdict depends on the driver and the router taking each byte at    *)
(* the same edge, which is what IInv says: the parity register holds the   *)
(* bytes of the packet that the driver has taken off the bus again.        *)
(*                                                                         *)
(* From the section on the flow of bytes on, also what is in the buffers,  *)
(* under two hypotheses that runs show to be needed: WritesHarmless (see   *)
(* tb_race) and ParityFits (see tb_tight).                                 *)
(***************************************************************************)
EXTENDS RouterTb, FifoCoreProofs

Sent == Packets \cup {NoPacket}

DrvType == [pc : {"idle", "payload", "parity", "release"}, pkt : Sent, pos : Nat]

BusType == [hen : BOOLEAN, haddr : {MAX_PKT_ADDR, ENABLE_ADDR}, hdata : 0 .. 255]

\* The first n bytes of packet p.
FirstBytes(p, n) == {ByteOf(p, i) : i \in 0 .. n - 1}

Types ==
  /\ drv \in DrvType /\ num_sent \in Nat
  /\ in_data_vld \in BOOLEAN /\ error \in BOOLEAN
  /\ state_r \in FsmState
  /\ dest_chan_r \in Chan \cup {IllegalAddr}
  /\ suspend \in [Chan -> BOOLEAN]
  /\ data \in [Chan -> Slot] /\ data_vld \in [Chan -> BOOLEAN]
  /\ queue \in [Chan -> FifoState]
  /\ hbus \in BusType /\ clock \in {0, 1}
  /\ max_pkt_reg \in 0 .. 255 /\ enable_reg \in BOOLEAN

AtIdle ==
  drv.pc = "idle" =>
    /\ in_data_vld = FALSE
    /\ in_data = NoByte
    /\ state_r = "HEADER_WAIT"
    /\ parity = {}

\* A byte of the packet is on the bus, and the earlier ones were taken.
AtByte ==
  drv.pc \in {"payload", "parity"} =>
    /\ drv.pkt \in Packets
    /\ drv.pos \in 1 .. drv.pkt.length + 1
    /\ drv.pc = "payload" <=> drv.pos <= drv.pkt.length
    /\ in_data_vld = TRUE
    /\ in_data = ByteOf(drv.pkt, drv.pos - 1)
    /\ parity = FirstBytes(drv.pkt, drv.pos - 1)
    /\ drv.pos >= 2 => error = FALSE /\ state_r # "HEADER_WAIT"

AtParity ==
  drv.pc = "release" =>
    /\ drv.pkt \in Packets
    /\ in_data_vld = FALSE
    /\ in_data = ParityByte(drv.pkt)
    /\ parity = CalcParity(drv.pkt)
    /\ error = FALSE
    /\ state_r # "HEADER_WAIT"

IInv == Types /\ AtIdle /\ AtByte /\ AtParity

-----------------------------------------------------------------------------
(***************************************************************************)
(* Packets and their bytes.                                                *)
(***************************************************************************)

\* What is known of a packet that is sent.
LEMMA PacketFacts ==
  ASSUME NEW p \in Packets
  PROVE  /\ p.length \in 1 .. MaxLength /\ p.length \in Nat
         /\ p.addr \in Chan \cup {IllegalAddr}
         /\ p.good \in BOOLEAN /\ p \in PacketType
<1>1. PICK n \in 1 .. MaxPackets, k \in Kinds : p = Packet(n, k)
  BY DEF Packets
<1>2. k \in [addr : Chan \cup {IllegalAddr}, length : 1 .. MaxLength, good : BOOLEAN]
  BY KindsAssumption
<1>3. n \in Nat
  BY KindsAssumption
<1>4. QED
  BY <1>1, <1>2, <1>3, MaxLengthAssumption DEF Packet, PacketType

LEMMA NoPacketType == NoPacket \in PacketType
  BY MaxLengthAssumption DEF NoPacket, PacketType

\* The bytes of a packet differ from each other.
LEMMA XorNext ==
  ASSUME NEW p, NEW n \in Nat
  PROVE  Xor(FirstBytes(p, n), ByteOf(p, n)) = FirstBytes(p, n + 1)
<1>1. ASSUME NEW i \in 0 .. n - 1 PROVE ByteOf(p, i) # ByteOf(p, n)
  BY DEF ByteOf
<1>2. ByteOf(p, n) \notin FirstBytes(p, n)
  BY <1>1 DEF FirstBytes
<1>3. 0 .. (n + 1) - 1 = (0 .. n - 1) \cup {n}
  OBVIOUS
<1>4. FirstBytes(p, n + 1) = FirstBytes(p, n) \cup {ByteOf(p, n)}
  BY <1>3 DEF FirstBytes
<1>5. QED
  BY <1>2, <1>4 DEF Xor

LEMMA NoBytesYet == ASSUME NEW p PROVE FirstBytes(p, 0) = {}
  BY DEF FirstBytes

LEMMA AllBytes ==
  ASSUME NEW p \in Packets PROVE FirstBytes(p, p.length + 1) = CalcParity(p)
<1>1. p.length \in Nat
  BY PacketFacts
<1>2. (p.length + 1) - 1 = p.length
  BY <1>1
<1>3. QED
  BY <1>2 DEF FirstBytes, CalcParity

LEMMA BytesTyped ==
  ASSUME NEW p \in Packets, NEW n \in 0 .. p.length + 1
  PROVE  ByteOf(p, n) \in Byte /\ FirstBytes(p, n) \subseteq Byte
<1>1. p.length \in Nat
  BY PacketFacts
<1>2. ASSUME NEW i \in 0 .. n - 1 PROVE ByteOf(p, i) \in Byte
  BY <1>1, ByteAssumption
<1>3. QED
  BY <1>2, ByteAssumption DEF FirstBytes

-----------------------------------------------------------------------------
(***************************************************************************)
(* What the invariant says of the wires.                                   *)
(***************************************************************************)

\* While in_data_vld is high the bus carries a byte of the packet being sent.
LEMMA ValidByte ==
  ASSUME IInv, in_data_vld
  PROVE  /\ drv.pc \in {"payload", "parity"}
         /\ drv.pkt \in Packets
         /\ in_data = ByteOf(drv.pkt, drv.pos - 1)
         /\ in_data.pkt = drv.pkt
<1>1. drv.pc \in {"payload", "parity"}
  BY DEF IInv, Types, DrvType, AtIdle, AtParity
<1>2. QED
  BY <1>1 DEF IInv, AtByte, ByteOf

LEMMA BusSlot == ASSUME IInv PROVE in_data \in Slot /\ parity \subseteq Byte
<1>1. CASE drv.pc = "idle"
  BY <1>1 DEF IInv, AtIdle, Slot
<1>2. CASE drv.pc \in {"payload", "parity"}
  <2>1. drv.pkt \in Packets /\ drv.pos - 1 \in 0 .. drv.pkt.length + 1
    BY <1>2, PacketFacts DEF IInv, AtByte
  <2>2. QED
    BY <1>2, <2>1, BytesTyped DEF IInv, AtByte, Slot
<1>3. CASE drv.pc = "release"
  <2>1. drv.pkt \in Packets /\ drv.pkt.length + 1 \in 0 .. drv.pkt.length + 1
    BY <1>3, PacketFacts DEF IInv, AtParity
  <2>2. ByteOf(drv.pkt, drv.pkt.length + 1) \in Byte
        /\ FirstBytes(drv.pkt, drv.pkt.length + 1) \subseteq Byte
    BY <2>1, BytesTyped
  <2>3. QED
    BY <1>3, <2>1, <2>2, AllBytes DEF IInv, AtParity, Slot, ParityByte
<1>4. QED
  BY <1>1, <1>2, <1>3 DEF IInv, Types, DrvType

LEMMA FlagsOfWires ==
  ASSUME IInv
  PROVE  /\ dest_chan \in Chan \cup {IllegalAddr}
         /\ in_suspend \in BOOLEAN
<1>1. HeaderValid => in_data.pkt.addr \in Chan \cup {IllegalAddr}
  BY ValidByte, PacketFacts DEF HeaderValid
<1>2. dest_chan \in Chan \cup {IllegalAddr}
  BY <1>1 DEF dest_chan, IInv, Types
<1>3. hold \in BOOLEAN
  BY DEF hold
<1>4. in_suspend \in BOOLEAN
  BY <1>3 DEF in_suspend, IInv, Types, FsmState, fifo_empty
<1>5. QED
  BY <1>2, <1>4

-----------------------------------------------------------------------------
(***************************************************************************)
(* A negative edge, the router's side.                                     *)
(***************************************************************************)

\* The FSM stays in its state while a byte is on the bus and has left
\* HEADER_WAIT once a byte was taken.
LEMMA FsmStep ==
  ASSUME IInv, DutNegedge
  PROVE  /\ state_r' \in FsmState
         /\ dest_chan_r' \in Chan \cup {IllegalAddr}
         /\ in_data_vld = FALSE => state_r' = "HEADER_WAIT"
         /\ in_data_vld = TRUE /\ state_r # "HEADER_WAIT" => state_r' # "HEADER_WAIT"
         /\ in_data_vld = TRUE /\ in_suspend = FALSE => state_r' # "HEADER_WAIT"
<1>1. PICK max : FsmUpdate(max)
  BY DEF DutNegedge
<1>2. state_r \in FsmState /\ in_data_vld \in BOOLEAN
  BY DEF IInv, Types
<1>3. HeaderValid \in BOOLEAN /\ Illegal(max) \in BOOLEAN /\ fifo_empty \in BOOLEAN
  BY DEF HeaderValid, Illegal, fifo_empty
<1>4. /\ HeaderValid /\ Illegal(max) => state_r' = "DUMP_PKT"
      /\ HeaderValid /\ ~Illegal(max) /\ fifo_empty => state_r' = "DATA_LOAD"
      /\ HeaderValid /\ ~Illegal(max) /\ ~fifo_empty => state_r' = "HEADER_WAIT"
      /\ ~HeaderValid /\ ~in_data_vld => state_r' = "HEADER_WAIT"
      /\ ~HeaderValid /\ in_data_vld => state_r' = state_r
  BY <1>1, <1>2, <1>3 DEF FsmUpdate, next_state
<1>5. HeaderValid /\ in_suspend = FALSE => fifo_empty
  BY <1>2 DEF in_suspend, HeaderValid, FsmState
<1>6. dest_chan_r' = dest_chan
  BY <1>1 DEF FsmUpdate, dest_chan
<1>7. dest_chan_r' \in Chan \cup {IllegalAddr}
  BY <1>6, FlagsOfWires
<1>8. state_r' \in FsmState
  BY <1>2, <1>3, <1>4 DEF FsmState
<1>9. in_data_vld = FALSE => state_r' = "HEADER_WAIT"
  BY <1>2, <1>4 DEF HeaderValid
<1>10. in_data_vld = TRUE /\ state_r # "HEADER_WAIT" => state_r' # "HEADER_WAIT"
  BY <1>2, <1>4 DEF HeaderValid
<1>11. in_data_vld = TRUE /\ in_suspend = FALSE => state_r' # "HEADER_WAIT"
  BY <1>2, <1>3, <1>4, <1>5 DEF HeaderValid
<1>12. QED
  BY <1>7, <1>8, <1>9, <1>10, <1>11

\* The parity register takes a byte at the edge at which the driver may go on.
LEMMA ParityStep ==
  ASSUME IInv, DutNegedge
  PROVE  /\ error' \in BOOLEAN
         /\ in_data_vld = TRUE => error' = FALSE
         /\ in_data_vld = TRUE /\ in_suspend = TRUE => parity' = parity
         /\ in_data_vld = TRUE /\ in_suspend = FALSE => parity' = Xor(parity, in_data)
         /\ in_data_vld = FALSE => parity' = {}
<1>1. ParityCalc
  BY DEF DutNegedge
<1>2. in_data_vld \in BOOLEAN /\ error \in BOOLEAN
  BY DEF IInv, Types
<1>3. in_suspend \in BOOLEAN
  BY FlagsOfWires
<1>4. QED
  BY <1>1, <1>2, <1>3 DEF ParityCalc

\* The buffers and the host's registers keep their types.
LEMMA RegistersStep ==
  ASSUME IInv, DutNegedge
  PROVE  /\ queue' \in [Chan -> FifoState]
         /\ max_pkt_reg' \in 0 .. 255 /\ enable_reg' \in BOOLEAN
         /\ data' = data /\ data_vld' = data_vld
<1>1. PICK max : Buffers(max)
  BY DEF DutNegedge
<1>2. ASSUME NEW c \in Chan
      PROVE  Clocked(queue[c], write_enb(c, max), ~suspend[c], in_data) \in FifoState
  <2>1. queue[c] \in FifoState
    BY DEF IInv, Types
  <2>2. write_enb(c, max) \in BOOLEAN
    BY DEF write_enb
  <2>3. (~suspend[c]) \in BOOLEAN
    OBVIOUS
  <2>4. QED
    BY <2>1, <2>2, <2>3, BusSlot, ClockedType
<1>3. queue' \in [Chan -> FifoState]
  BY <1>1, <1>2 DEF Buffers
<1>4. max_pkt_reg' \in 0 .. 255 /\ enable_reg' \in BOOLEAN
  BY DEF DutNegedge, HostCtl, IInv, Types, BusType
<1>5. QED
  BY <1>3, <1>4 DEF DutNegedge

\* The host drives a register write or nothing.
LEMMA HostStep == ASSUME IInv, HostNegedge PROVE hbus' \in BusType
<1>1. hbus \in BusType
  BY DEF IInv, Types
<1>2. CASE Port!HostStays \/ Port!HostRests
  BY <1>1, <1>2 DEF Port!HostStays, Port!HostRests
<1>3. CASE Port!HostStarts
  <2>1. PICK w \in HostWrites : hbus' = Port!HbusWrite(w.haddr, w.hdata)
    BY <1>3 DEF Port!HostStarts
  <2>2. w.haddr \in {MAX_PKT_ADDR, ENABLE_ADDR} /\ w.hdata \in 0 .. 255
    BY HostWritesAssumption
  <2>3. QED
    BY <2>1, <2>2 DEF Port!HbusWrite, BusType
<1>4. CASE Port!HostEnds
  BY <1>4 DEF Port!HostEnds, Port!HbusIdle, BusType, MAX_PKT_ADDR
<1>5. QED
  BY <1>2, <1>3, <1>4 DEF HostNegedge, Port!HostNegedge

\* The receivers drive each suspend high or low.
LEMMA SuspendStep == ASSUME IInv, RxNegedges PROVE suspend' \in [Chan -> BOOLEAN]
<1>1. suspend \in [Chan -> BOOLEAN]
  BY DEF IInv, Types
<1>2. ASSUME NEW c \in Chan PROVE suspend'[c] \in BOOLEAN
  <2>1. suspend'[c] = CASE rx[c].pc = "respond" -> rx[c].left > 0
                        [] rx[c].pc = "finish"  -> TRUE
                        [] OTHER                -> suspend[c]
    BY DEF RxNegedges
  <2>2. CASE rx[c].pc = "respond"
    BY <2>1, <2>2
  <2>3. CASE rx[c].pc = "finish"
    BY <2>1, <2>3
  <2>4. CASE rx[c].pc \notin {"respond", "finish"}
    BY <1>1, <2>1, <2>4
  <2>5. QED
    BY <2>2, <2>3, <2>4
<1>3. \E f : suspend' = [c \in Chan |-> f[c]]
  <2>1. DOMAIN suspend' = Chan /\ suspend' = [c \in DOMAIN suspend' |-> suspend'[c]]
    BY DEF RxNegedges
  <2>2. QED
    BY <2>1
<1>4. QED
  BY <1>2, <1>3

-----------------------------------------------------------------------------
(***************************************************************************)
(* A negative edge, the driver's side: one lemma for each place it can be. *)
(***************************************************************************)

\* What the driver's facts about itself and the bus are after its step.
DrvNext == (drv' \in DrvType /\ num_sent' \in Nat /\ in_data_vld' \in BOOLEAN)
           /\ AtIdle' /\ AtByte' /\ AtParity'

\* Between packets: it stays, or puts a header on the bus.
LEMMA FromIdle ==
  ASSUME IInv, DutNegedge, drv.pc = "idle", DrvNegedge(in_suspend)
  PROVE  DrvNext
<1>1. /\ drv \in DrvType /\ num_sent \in Nat
      /\ in_data_vld = FALSE /\ in_data = NoByte
  BY DEF IInv, Types, AtIdle
<1>2. parity' = {} /\ state_r' = "HEADER_WAIT"
  BY <1>1, FsmStep, ParityStep
<1>3. CASE DrvIdle
  BY <1>1, <1>2, <1>3 DEF DrvIdle, DrvNext, AtIdle, AtByte, AtParity
<1>4. CASE DrvHeader(in_suspend)
  <2>1. PICK k \in Kinds :
          /\ drv' = [pc |-> "payload", pkt |-> Packet(num_sent + 1, k), pos |-> 1]
          /\ in_data' = Header(Packet(num_sent + 1, k))
    BY <1>4 DEF DrvHeader
  <2> DEFINE p == Packet(num_sent + 1, k)
  <2>2. num_sent + 1 \in 1 .. MaxPackets
    BY <1>1, <1>4, KindsAssumption DEF DrvHeader
  <2>3. p \in Packets
    BY <2>2 DEF Packets
  <2>4. p.length \in 1 .. MaxLength /\ p.length \in Nat
    BY <2>3, PacketFacts
  <2>5. drv'.pc = "payload" /\ drv'.pkt = p /\ drv'.pos = 1
    BY <2>1
  <2>6. in_data_vld' = TRUE /\ num_sent' = num_sent
    BY <1>4 DEF DrvHeader
  <2>7. in_data' = ByteOf(p, 1 - 1) /\ parity' = FirstBytes(p, 1 - 1)
    BY <1>2, <2>1, NoBytesYet DEF Header
  <2>8. drv' \in DrvType
    BY <2>1, <2>3 DEF DrvType, Sent
  <2>9. AtByte'
    <3> HIDE DEF p
    <3> QED
      BY <2>3, <2>4, <2>5, <2>6, <2>7, MaxLengthAssumption DEF AtByte
  <2>10. QED
    BY <1>1, <2>5, <2>6, <2>8, <2>9 DEF DrvNext, AtIdle, AtParity
<1>5. QED
  BY <1>3, <1>4
     DEF DrvNegedge, DrvPayload, DrvParity, DrvBlocked, DrvRelease

\* A byte that is held on the bus is not taken by the router either.
LEMMA FromByteHeld ==
  ASSUME IInv, DutNegedge, drv.pc \in {"payload", "parity"}, in_suspend = TRUE,
         DrvNegedge(in_suspend)
  PROVE  DrvNext
<1>1. DrvBlocked(in_suspend)
  BY DEF DrvNegedge, DrvIdle, DrvHeader, DrvPayload, DrvParity, DrvRelease
<1>2. in_data_vld = TRUE
  BY DEF IInv, AtByte
<1>3. drv' = drv /\ num_sent' = num_sent
      /\ in_data' = in_data /\ in_data_vld' = in_data_vld
  BY <1>1 DEF DrvBlocked
<1>4. parity' = parity /\ error' = FALSE
      /\ (state_r # "HEADER_WAIT" => state_r' # "HEADER_WAIT")
  BY <1>2, FsmStep, ParityStep
<1>5. AtByte'
  BY <1>3, <1>4 DEF IInv, AtByte
<1>6. QED
  BY <1>3, <1>5 DEF DrvNext, AtIdle, AtParity, IInv, Types

\* A byte the driver replaces was taken into the parity register.
LEMMA FromByte ==
  ASSUME IInv, DutNegedge, drv.pc \in {"payload", "parity"}, in_suspend = FALSE,
         DrvNegedge(in_suspend)
  PROVE  DrvNext
<1> DEFINE p == drv.pkt
           n == drv.pos
<1>1. /\ p \in Packets /\ n \in 1 .. p.length + 1
      /\ drv.pc = "payload" <=> n <= p.length
      /\ in_data_vld = TRUE /\ in_data = ByteOf(p, n - 1)
      /\ parity = FirstBytes(p, n - 1)
  BY DEF IInv, AtByte
<1>2. p.length \in Nat /\ drv \in DrvType /\ num_sent \in Nat
  BY <1>1, PacketFacts DEF IInv, Types
<1>3. error' = FALSE /\ state_r' # "HEADER_WAIT"
  BY <1>1, FsmStep, ParityStep
<1>4. parity' = FirstBytes(p, n)
  <2>1. n - 1 \in Nat /\ (n - 1) + 1 = n
    BY <1>1, <1>2
  <2>2. Xor(FirstBytes(p, n - 1), ByteOf(p, n - 1)) = FirstBytes(p, (n - 1) + 1)
    BY <2>1, XorNext
  <2>3. QED
    BY <1>1, <2>1, <2>2, ParityStep
<1>5. CASE DrvPayload(in_suspend)
  <2>1. /\ in_data' = ByteOf(p, n) /\ in_data_vld' = TRUE /\ num_sent' = num_sent
        /\ drv.pc = "payload"
    BY <1>1, <1>5 DEF DrvPayload
  <2>2. drv' = [pc |-> IF n = p.length THEN "parity" ELSE "payload",
                pkt |-> p, pos |-> n + 1]
    BY <1>2, <1>5 DEF DrvPayload, DrvType
  <2>3. drv'.pkt = p /\ drv'.pos = n + 1
        /\ drv'.pc = IF n = p.length THEN "parity" ELSE "payload"
    BY <2>2
  <2>4. n <= p.length /\ n + 1 \in 1 .. p.length + 1 /\ (n + 1) - 1 = n /\ n + 1 >= 2
    BY <1>1, <1>2, <2>1
  <2>5. drv'.pc \in {"payload", "parity"} /\ (drv'.pc = "payload" <=> n + 1 <= p.length)
    BY <1>1, <1>2, <2>3, <2>4
  <2>6. drv' \in DrvType
    BY <1>1, <1>2, <2>2, <2>4 DEF DrvType, Sent
  <2>7. AtByte'
    <3> HIDE DEF p, n
    <3> QED
      BY <1>1, <1>3, <1>4, <2>1, <2>3, <2>4, <2>5 DEF AtByte
  <2>8. QED
    BY <1>2, <2>1, <2>5, <2>6, <2>7 DEF DrvNext, AtIdle, AtParity
<1>6. CASE DrvParity(in_suspend)
  <2>1. /\ in_data' = ParityByte(p) /\ in_data_vld' = FALSE /\ num_sent' = num_sent
        /\ drv.pc = "parity"
    BY <1>6 DEF DrvParity
  <2>2. drv' = [pc |-> "release", pkt |-> p, pos |-> n]
    BY <1>2, <1>6 DEF DrvParity, DrvType
  <2>3. drv'.pc = "release" /\ drv'.pkt = p
    BY <2>2
  <2>4. drv' \in DrvType
    BY <1>2, <2>2 DEF DrvType
  <2>5. n = p.length + 1
    BY <1>1, <1>2, <2>1
  <2>6. parity' = CalcParity(p)
    BY <1>1, <1>4, <2>5, AllBytes
  <2>7. AtParity'
    <3> HIDE DEF p, n
    <3> QED
      BY <1>1, <1>3, <2>1, <2>3, <2>6 DEF AtParity
  <2>8. QED
    BY <1>2, <2>1, <2>3, <2>4, <2>7 DEF DrvNext, AtIdle, AtByte
<1>7. QED
  BY <1>5, <1>6 DEF DrvNegedge, DrvIdle, DrvHeader, DrvBlocked, DrvRelease

\* The parity byte leaves the bus, and the FSM is back at the header.
LEMMA FromRelease ==
  ASSUME IInv, DutNegedge, drv.pc = "release", DrvNegedge(in_suspend)
  PROVE  DrvNext
<1>1. DrvRelease
  BY DEF DrvNegedge, DrvIdle, DrvHeader, DrvPayload, DrvParity, DrvBlocked
<1>2. in_data_vld = FALSE /\ num_sent \in Nat
  BY DEF IInv, Types, AtParity
<1>3. parity' = {} /\ state_r' = "HEADER_WAIT"
  BY <1>2, FsmStep, ParityStep
<1>4. drv' = [pc |-> "idle", pkt |-> NoPacket, pos |-> 0] /\ in_data' = NoByte
      /\ num_sent' = num_sent + 1 /\ in_data_vld' = FALSE
  BY <1>1, <1>2 DEF DrvRelease
<1>5. drv' \in DrvType /\ drv'.pc = "idle"
  BY <1>4 DEF DrvType, Sent
<1>6. AtIdle'
  BY <1>3, <1>4 DEF AtIdle
<1>7. num_sent' \in Nat /\ in_data_vld' \in BOOLEAN
  <2>1. num_sent + 1 \in Nat
    BY <1>2
  <2>2. QED
    BY <1>4, <2>1
<1>8. AtByte' /\ AtParity'
  BY <1>5 DEF AtByte, AtParity
<1>9. QED
  BY <1>5, <1>6, <1>7, <1>8 DEF DrvNext

-----------------------------------------------------------------------------
(***************************************************************************)
(* The invariant.                                                          *)
(***************************************************************************)
LEMMA InitIInv == ASSUME Init PROVE IInv
<1>1. drv = [pc |-> "idle", pkt |-> NoPacket, pos |-> 0] /\ num_sent = 0
  BY DEF Init, YappInit
<1>2. drv \in DrvType /\ drv.pc = "idle"
  BY <1>1 DEF DrvType, Sent
<1>3. /\ clock = 0 /\ in_data = NoByte /\ in_data_vld = FALSE /\ hbus = HbusIdle
      /\ suspend \in [Chan -> BOOLEAN] /\ data \in [Chan -> Slot]
      /\ data_vld \in [Chan -> BOOLEAN]
  BY DEF Init, IfInit, Slot
<1>4. hbus \in BusType
  BY <1>3 DEF HbusIdle, BusType, MAX_PKT_ADDR
<1>5. PowerUp \in FifoState
  BY DepthAssumption DEF PowerUp, FifoState, Ptr, Slot
<1>6. /\ state_r = "HEADER_WAIT" /\ dest_chan_r \in Chan /\ parity = {} /\ error = FALSE
      /\ queue \in [Chan -> FifoState]
      /\ max_pkt_reg \in 0 .. 255 /\ enable_reg \in BOOLEAN
  BY <1>5, ChanAssumption, ResetAssumption DEF Init, DutInit
<1>7. Types
  BY <1>1, <1>2, <1>3, <1>4, <1>6 DEF Types, FsmState
<1>8. QED
  BY <1>2, <1>3, <1>6, <1>7 DEF IInv, AtIdle, AtByte, AtParity

LEMMA NegedgeIInv == ASSUME IInv, Negedge PROVE IInv'
<1>1. /\ DutNegedge /\ DrvNegedge(in_suspend) /\ HostNegedge /\ RxNegedges
      /\ clock' = 0
  BY DEF Negedge
<1>2. DrvNext
  <2>1. drv.pc \in {"idle", "payload", "parity", "release"}
    BY DEF IInv, Types, DrvType
  <2>2. in_suspend \in BOOLEAN
    BY FlagsOfWires
  <2>3. QED
    BY <1>1, <2>1, <2>2, FromIdle, FromByteHeld, FromByte, FromRelease
<1>3. Types'
  BY <1>1, <1>2, FsmStep, ParityStep, RegistersStep, HostStep, SuspendStep
     DEF Types, DrvNext, IInv
<1>4. QED
  BY <1>2, <1>3 DEF IInv, DrvNext

\* A positive edge changes the outputs of the router only.
LEMMA PosedgeIInv == ASSUME IInv, Posedge PROVE IInv'
<1>1. /\ drv' = drv /\ num_sent' = num_sent /\ hbus' = hbus
      /\ in_data' = in_data /\ in_data_vld' = in_data_vld
      /\ suspend' = suspend /\ clock' = 1
  BY DEF Posedge, RxPosedges
<1>2. /\ state_r' = state_r /\ dest_chan_r' = dest_chan_r
      /\ parity' = parity /\ error' = error /\ queue' = queue
      /\ max_pkt_reg' = max_pkt_reg /\ enable_reg' = enable_reg
  BY DEF Posedge, DutPosedge, dutVars
<1>3. ASSUME NEW c \in Chan
      PROVE  /\ queue[c].ram[queue[c].read_ptr] \in Slot
             /\ Vld(queue[c], write_enb(c, max_pkt_reg)) \in BOOLEAN
  BY DEF IInv, Types, FifoState, Vld
<1>4. data' \in [Chan -> Slot] /\ data_vld' \in [Chan -> BOOLEAN]
  BY <1>3 DEF Posedge, DutPosedge
<1>5. Types'
  BY <1>1, <1>2, <1>4 DEF IInv, Types
<1>6. QED
  BY <1>1, <1>2, <1>5 DEF IInv, AtIdle, AtByte, AtParity

LEMMA StutterIInv == ASSUME IInv, UNCHANGED vars PROVE IInv'
  BY DEF IInv, Types, AtIdle, AtByte, AtParity, vars, ifVars, dutVars, yappVars

\* IInv holds of every state of every behaviour.
THEOREM Inductive == Spec => []IInv
<1>1. IInv /\ [Next]_vars => IInv'
  BY NegedgeIInv, PosedgeIInv, StutterIInv DEF Next
<1>2. QED
  BY <1>1, InitIInv, PTL DEF Spec

LEMMA IInvTypeOK == IInv => TypeOK
  BY BusSlot, PacketFacts, NoPacketType DEF IInv, Types, DrvType, Sent, TypeOK

\* Every register and wire keeps its type (yapp_router.v, yapp_if).
THEOREM TypeCorrect == Spec => []TypeOK
  BY Inductive, IInvTypeOK, PTL

\* At the edge that samples the parity byte, the register holds the parity
\* of the whole packet and no error is pending (yapp_router.v:365-376).
LEMMA VerdictStep ==
  ASSUME IInv, Negedge, ~in_data_vld
  PROVE  /\ state_r = "DATA_LOAD" => error' = ~in_data.pkt.good
         /\ state_r # "DATA_LOAD" => error' = error
<1>1. ParityCalc /\ error \in BOOLEAN
  BY DEF Negedge, DutNegedge, IInv, Types
<1>2. error' = (\/ error
               \/ /\ state_r = "DATA_LOAD"
                  /\ in_data # NoByte
                  /\ ParityDiffers(parity, in_data))
  BY <1>1 DEF ParityCalc
<1>3. CASE state_r = "DATA_LOAD"
  <2>1. drv.pc = "release"
    BY <1>3 DEF IInv, Types, DrvType, AtIdle, AtByte
  <2>2. /\ drv.pkt \in Packets /\ in_data = ParityByte(drv.pkt)
        /\ parity = CalcParity(drv.pkt) /\ error = FALSE
    BY <2>1 DEF IInv, AtParity
  <2>3. in_data.pkt = drv.pkt /\ IsParity(in_data)
    BY <2>2 DEF ParityByte, ByteOf, IsParity
  <2>4. drv.pkt.length + 1 \in 0 .. drv.pkt.length + 1
    BY <2>2, PacketFacts
  <2>5. in_data \in Byte
    BY <2>2, <2>4, BytesTyped DEF ParityByte
  <2>6. in_data # NoByte
    BY <2>5, NoByteAssumption
  <2>7. in_data.pkt.good \in BOOLEAN
    BY <2>2, <2>3, PacketFacts
  <2>8. ParityDiffers(parity, in_data) <=> ~in_data.pkt.good
    BY <2>2, <2>3, <2>7 DEF ParityDiffers
  <2>9. QED
    BY <1>2, <1>3, <2>2, <2>6, <2>7, <2>8
<1>4. CASE state_r # "DATA_LOAD"
  BY <1>1, <1>2, <1>4
<1>5. QED
  BY <1>3, <1>4

\* The verdict at the end of every packet that is loaded is right, however
\* often the port was suspended in it.
THEOREM ParityCorrect == Spec => ParityVerdict
<1>1. IInv /\ [Next]_vars =>
        [/\ Negedge /\ state_r = "DATA_LOAD" /\ ~in_data_vld
               => error' = ~in_data.pkt.good
         /\ Negedge /\ state_r # "DATA_LOAD" /\ ~in_data_vld => error' = error]_vars
  BY VerdictStep
<1>2. QED
  BY <1>1, Inductive, PTL DEF Spec, ParityVerdict

-----------------------------------------------------------------------------
(***************************************************************************)
(* What the buffers hold.  Two things the testbench takes care of are      *)
(* needed.  WritesHarmless: a register write does not come to the router   *)
(* with a header whose fate it changes, because the sequences alternate or *)
(* because the limits written judge every packet alike.  ParityFits: where *)
(* header and payload just fill a buffer, the receiver begins to read      *)
(* before they have arrived; the default delays of channel_resp.sv:21 do,  *)
(* with buffers of sixteen.  Without the one or the other bytes are lost.  *)
(***************************************************************************)
TooLong(n, max) == n > max % 64

WritesAgree ==
  \A w \in HostWrites, k \in Kinds :
    w.haddr = MAX_PKT_ADDR =>
      (TooLong(k.length, w.hdata) <=> TooLong(k.length, DefMaxPkt))

WritesHarmless == VirtualSeq \/ WritesAgree

ParityFits ==
  \A k \in Kinds, d \in RespDelays : k.length + 1 = Depth => d + 3 < Depth

\* q is a gapless run of bytes of packet p, and ends at position last.
Run(q, p, last) == \A i \in 1 .. Len(q) : q[i] = ByteOf(p, last - Len(q) + i)

\* A byte for channel c is on the bus.
Loading(c) == state_r = "DATA_LOAD" /\ dest_chan_r = c

\* data_vld is raised.
MoreThanOne(c) == Count(queue[c]) >= 2 \/ Loading(c)

HostState ==
  /\ VirtualSeq /\ host = "busy" => drv.pc = "idle"
  /\ WritesAgree =>
       \A k \in Kinds : TooLong(k.length, max_pkt_reg) <=> TooLong(k.length, DefMaxPkt)
  /\ hbus.hen => /\ host = "busy"
                 /\ \E w \in HostWrites : w.haddr = hbus.haddr /\ w.hdata = hbus.hdata

\* The buffer holds the bytes before the one on the bus, all of them if the
\* receiver has not begun to read; it cannot become full after that.
BufferLoading(c) ==
  Loading(c) =>
    /\ drv.pc # "idle" /\ drv.pkt.addr = c
    /\ Count(queue[c]) \in 1 .. in_data.pos
    /\ Run(Contents(queue[c]), drv.pkt, in_data.pos - 1)
    /\ suspend[c] \/ queue[c].tmp_full => Count(queue[c]) = in_data.pos

BufferLoaded(c) ==
  ~Loading(c) /\ Count(queue[c]) > 0 =>
    \E p \in Packets : p.addr = c /\ Run(Contents(queue[c]), p, p.length + 1)

RxType == [pc : {"wait", "respond", "drain", "finish"}, left : Nat, delay : Nat]

\* The receiver reads a byte per edge until one is left that is the last.
Receiver(c) ==
  /\ rx[c] \in RxType
  /\ suspend[c] <=> rx[c].pc \in {"wait", "respond"}
  /\ suspend[c] /\ data_vld[c] => MoreThanOne(c)
  /\ rx[c].pc = "respond" => data_vld[c]
  /\ rx[c].pc = "drain" => /\ data_vld[c] /\ Count(queue[c]) > 0
                           /\ clock = 1 => MoreThanOne(c)
  /\ rx[c].pc = "finish" => /\ clock = 1 /\ data_vld[c] = FALSE
                            /\ Count(queue[c]) = 1 /\ ~Loading(c)

\* While a packet arrives its buffer holds three bytes more than the receiver
\* delays at the most: it wakes with two, lets one in for each cycle of the
\* delay and one more before it lowers suspend.
Pace(c) ==
  Loading(c) =>
    /\ clock = 1 => data_vld[c]
    /\ rx[c].pc = "wait" =>
         Count(queue[c]) <= IF clock = 0 /\ data_vld[c] THEN 2 ELSE 1
    /\ rx[c].pc = "respond" => /\ rx[c].delay \in RespDelays
                               /\ Count(queue[c]) + rx[c].left <= rx[c].delay + 2
    /\ rx[c].pc = "drain" => /\ rx[c].delay \in RespDelays
                             /\ Count(queue[c]) <= rx[c].delay + 3

Channel(c) == /\ FlagsExact(queue[c])
              /\ BufferLoading(c)
              /\ BufferLoaded(c)
              /\ Receiver(c)
              /\ Pace(c)

Flow == /\ HostState
        /\ state_r = "DATA_LOAD" => dest_chan_r \in Chan
        /\ \A c \in Chan : Channel(c)

-----------------------------------------------------------------------------
(***************************************************************************)
(* Runs of bytes.                                                          *)
(***************************************************************************)
LEMMA RunAppend ==
  ASSUME NEW S, NEW q \in Seq(S), NEW p, NEW n \in Nat, Run(q, p, n - 1),
         ByteOf(p, n) \in S
  PROVE  Run(Append(q, ByteOf(p, n)), p, n)
<1> DEFINE d == ByteOf(p, n)
           r == Append(q, d)
<1>1. Len(q) \in Nat /\ Len(r) = Len(q) + 1
  OBVIOUS
<1>2. ASSUME NEW i \in 1 .. Len(r) PROVE r[i] = ByteOf(p, n - Len(r) + i)
  <2>1. CASE i = Len(r)
    <3>1. r[i] = d
      BY <1>1, <2>1
    <3>2. n - Len(r) + i = n
      BY <1>1, <2>1
    <3>3. QED
      BY <3>1, <3>2
  <2>2. CASE i # Len(r)
    <3>1. i \in 1 .. Len(q)
      BY <1>1, <2>2
    <3>2. r[i] = q[i]
      BY <3>1
    <3>3. (n - 1) - Len(q) + i = n - Len(r) + i
      BY <1>1, <3>1
    <3>4. q[i] = ByteOf(p, (n - 1) - Len(q) + i)
      BY <3>1 DEF Run
    <3>5. QED
      BY <3>2, <3>3, <3>4
  <2>3. QED
    BY <2>1, <2>2
<1>3. QED
  BY <1>2 DEF Run

LEMMA RunTail ==
  ASSUME NEW S, NEW q \in Seq(S), q # << >>, NEW p, NEW n \in Int, Run(q, p, n)
  PROVE  Run(Tail(q), p, n)
<1>1. /\ Len(q) \in Nat /\ Len(Tail(q)) = Len(q) - 1
      /\ \A i \in 1 .. Len(q) - 1 : Tail(q)[i] = q[i + 1]
  BY HeadTailProperties
<1>2. ASSUME NEW i \in 1 .. Len(q) - 1
      PROVE  Tail(q)[i] = ByteOf(p, n - (Len(q) - 1) + i)
  <2>1. i + 1 \in 1 .. Len(q) /\ n - (Len(q) - 1) + i = n - Len(q) + (i + 1)
    BY <1>1
  <2>2. q[i + 1] = ByteOf(p, n - Len(q) + (i + 1))
    BY <2>1 DEF Run
  <2>3. QED
    BY <1>1, <2>1, <2>2
<1>3. QED
  BY <1>1, <1>2 DEF Run

-----------------------------------------------------------------------------
(***************************************************************************)
(* A negative edge, the host's side.                                       *)
(***************************************************************************)
LEMMA HostStateStep ==
  ASSUME IInv, Flow, Negedge
  PROVE  HostState'
<1>1. HostState /\ hbus \in BusType
  BY DEF Flow, IInv, Types
<1>2. HostNegedge /\ InSequence /\ HostCtl
  BY DEF Negedge, DutNegedge
<1>3. ASSUME VirtualSeq, host' = "busy" PROVE drv'.pc = "idle"
  BY <1>2, <1>3 DEF InSequence
<1>4. ASSUME WritesAgree, NEW k \in Kinds
      PROVE  TooLong(k.length, max_pkt_reg') <=> TooLong(k.length, DefMaxPkt)
  <2>1. CASE hbus.hen /\ hbus.haddr = MAX_PKT_ADDR
    <3>1. PICK w \in HostWrites : w.haddr = hbus.haddr /\ w.hdata = hbus.hdata
      BY <1>1, <2>1 DEF HostState
    <3>2. max_pkt_reg' = w.hdata
      BY <1>2, <2>1, <3>1 DEF HostCtl
    <3>3. QED
      BY <1>4, <2>1, <3>1, <3>2 DEF WritesAgree
  <2>2. CASE ~(hbus.hen /\ hbus.haddr = MAX_PKT_ADDR)
    <3>1. max_pkt_reg' = max_pkt_reg
      BY <1>2, <2>2 DEF HostCtl
    <3>2. QED
      BY <1>1, <1>4, <3>1 DEF HostState
  <2>3. QED
    BY <2>1, <2>2
<1>5. ASSUME hbus'.hen
      PROVE  /\ host' = "busy"
             /\ \E w \in HostWrites : w.haddr = hbus'.haddr /\ w.hdata = hbus'.hdata
  <2>1. CASE Port!HostStays \/ Port!HostRests
    <3>1. host # "busy" /\ hbus' = hbus
      BY <2>1 DEF Port!HostStays, Port!HostRests
    <3>2. QED
      BY <1>1, <1>5, <3>1 DEF HostState
  <2>2. CASE Port!HostStarts
    <3>1. PICK w \in HostWrites : hbus' = Port!HbusWrite(w.haddr, w.hdata)
      BY <2>2 DEF Port!HostStarts
    <3>2. hbus'.haddr = w.haddr /\ hbus'.hdata = w.hdata
      BY <3>1 DEF Port!HbusWrite
    <3>3. QED
      BY <2>2, <3>2 DEF Port!HostStarts
  <2>3. CASE Port!HostEnds
    BY <1>5, <2>3 DEF Port!HostEnds, Port!HbusIdle
  <2>4. QED
    BY <1>2, <2>1, <2>2, <2>3 DEF HostNegedge, Port!HostNegedge
<1>6. QED
  BY <1>3, <1>4, <1>5 DEF HostState

\* A packet on the bus is judged alike before and after host_ctl has taken a
\* write.
LEMMA SameLimit ==
  ASSUME IInv, Flow, WritesHarmless, DutNegedge, drv.pc # "idle", drv.pkt \in Packets,
         NEW m1 \in {max_pkt_reg, max_pkt_reg'}, NEW m2 \in {max_pkt_reg, max_pkt_reg'}
  PROVE  TooLong(drv.pkt.length, m1) <=> TooLong(drv.pkt.length, m2)
<1>1. HostState /\ HostCtl
  BY DEF Flow, DutNegedge
<1>2. CASE VirtualSeq
  <2>1. hbus.hen = FALSE
    BY <1>1, <1>2 DEF HostState, IInv, Types, BusType
  <2>2. max_pkt_reg' = max_pkt_reg
    BY <1>1, <2>1 DEF HostCtl
  <2>3. QED
    BY <2>2
<1>3. CASE WritesAgree
  <2>1. PICK k \in Kinds : drv.pkt.length = k.length
    BY DEF Packets, Packet
  <2>2. TooLong(k.length, max_pkt_reg) <=> TooLong(k.length, DefMaxPkt)
    BY <1>1, <1>3 DEF HostState
  <2>3. TooLong(k.length, max_pkt_reg') <=> TooLong(k.length, DefMaxPkt)
    <3>1. CASE hbus.hen /\ hbus.haddr = MAX_PKT_ADDR
      <4>1. PICK w \in HostWrites : w.haddr = hbus.haddr /\ w.hdata = hbus.hdata
        BY <1>1, <3>1 DEF HostState
      <4>2. max_pkt_reg' = w.hdata
        BY <1>1, <3>1, <4>1 DEF HostCtl
      <4>3. QED
        BY <1>3, <3>1, <4>1, <4>2 DEF WritesAgree
    <3>2. CASE ~(hbus.hen /\ hbus.haddr = MAX_PKT_ADDR)
      <4>1. max_pkt_reg' = max_pkt_reg
        BY <1>1, <3>2 DEF HostCtl
      <4>2. QED
        BY <2>2, <4>1
    <3>3. QED
      BY <3>1, <3>2
  <2>4. QED
    BY <2>1, <2>2, <2>3
<1>4. QED
  BY <1>2, <1>3 DEF WritesHarmless

LEMMA SameVerdict ==
  ASSUME IInv, Flow, WritesHarmless, DutNegedge, HeaderValid,
         NEW m1 \in {max_pkt_reg, max_pkt_reg'}, NEW m2 \in {max_pkt_reg, max_pkt_reg'}
  PROVE  Illegal(m1) <=> Illegal(m2)
<1>1. drv.pc # "idle" /\ drv.pkt \in Packets /\ in_data.pkt = drv.pkt
  BY ValidByte DEF HeaderValid
<1>2. TooLong(in_data.pkt.length, m1) <=> TooLong(in_data.pkt.length, m2)
  BY <1>1, SameLimit
<1>3. QED
  BY <1>2 DEF Illegal, TooLong

-----------------------------------------------------------------------------
(***************************************************************************)
(* A negative edge, the FSM's side of one channel.                         *)
(***************************************************************************)

\* dest_chan_r keeps the channel that the header had.
LEMMA DestStep ==
  ASSUME IInv, DutNegedge
  PROVE  dest_chan_r' = dest_chan
  BY DEF DutNegedge, FsmUpdate, dest_chan

\* With a packet for the channel on the bus.
LEMMA LoadingFsm ==
  ASSUME IInv, DutNegedge, NEW c \in Chan, Loading(c), NEW max
  PROVE  /\ write_enb(c, max) <=> (in_data_vld => ~queue[c].tmp_full)
         /\ Loading(c)' <=> in_data_vld
         /\ in_suspend <=> queue[c].tmp_full
<1>1. PICK maxS : FsmUpdate(maxS)
  BY DEF DutNegedge
<1>2. HeaderValid = FALSE /\ dest_chan = c /\ state_r = "DATA_LOAD"
  BY DEF HeaderValid, dest_chan, Loading
<1>3. in_suspend <=> queue[c].tmp_full
  BY <1>2 DEF in_suspend, hold
<1>4. write_enb(c, max) <=> (in_data_vld => ~queue[c].tmp_full)
  BY <1>2 DEF write_enb, fsm_write_enb, hold
<1>5. dest_chan_r' = c
  BY <1>2, DestStep
<1>6. in_data_vld \in BOOLEAN
  BY DEF IInv, Types
<1>7. state_r' = IF in_data_vld THEN "DATA_LOAD" ELSE "HEADER_WAIT"
  BY <1>1, <1>2, <1>6 DEF FsmUpdate, next_state
<1>8. QED
  BY <1>3, <1>4, <1>5, <1>6, <1>7 DEF Loading

\* Otherwise the buffer is written when its header is taken.
LEMMA HeaderFsm ==
  ASSUME IInv, Flow, WritesHarmless, DutNegedge, NEW c \in Chan, ~Loading(c),
         NEW m1 \in {max_pkt_reg, max_pkt_reg'}, NEW m2 \in {max_pkt_reg, max_pkt_reg'},
         FsmUpdate(m1)
  PROVE  /\ write_enb(c, m2) <=> Loading(c)'
         /\ Loading(c)' => /\ HeaderValid /\ in_data.pkt.addr = c
                           /\ queue[c].tmp_empty /\ in_suspend = FALSE
<1>1. dest_chan_r' = dest_chan /\ state_r' = next_state(m1)
  BY DestStep DEF FsmUpdate
<1>2. HeaderValid \in BOOLEAN /\ Illegal(m1) \in BOOLEAN /\ fifo_empty \in BOOLEAN
      /\ in_data_vld \in BOOLEAN /\ state_r \in FsmState
  BY DEF HeaderValid, Illegal, fifo_empty, IInv, Types
<1>3. CASE HeaderValid
  <2>1. dest_chan = in_data.pkt.addr /\ state_r = "HEADER_WAIT" /\ in_data_vld
    BY <1>3 DEF dest_chan, HeaderValid
  <2>2. Illegal(m1) <=> Illegal(m2)
    BY <1>3, SameVerdict
  <2>3. state_r' = "DATA_LOAD" <=> ~Illegal(m1) /\ fifo_empty
    BY <1>1, <1>2, <1>3 DEF next_state
  <2>4. fsm_write_enb(m2) <=> ~Illegal(m1) /\ fifo_empty
    BY <1>3, <2>1, <2>2 DEF fsm_write_enb
  <2>5. write_enb(c, m2) <=> Loading(c)'
    BY <1>1, <2>3, <2>4 DEF write_enb, Loading
  <2>6. ASSUME Loading(c)' PROVE in_data.pkt.addr = c /\ queue[c].tmp_empty
    BY <1>1, <2>1, <2>3, <2>6 DEF Loading, fifo_empty
  <2>7. ASSUME Loading(c)' PROVE in_suspend = FALSE
    BY <2>1, <2>3, <2>7 DEF Loading, in_suspend
  <2>8. QED
    BY <1>3, <2>5, <2>6, <2>7
<1>4. CASE ~HeaderValid
  <2>1. dest_chan = dest_chan_r
    BY <1>4 DEF dest_chan
  <2>2. write_enb(c, m2) = FALSE
    BY <1>4, <2>1 DEF write_enb, fsm_write_enb, Loading
  <2>3. state_r' = "DATA_LOAD" => state_r = "DATA_LOAD"
    BY <1>1, <1>2, <1>4 DEF next_state
  <2>4. ~Loading(c)'
    BY <1>1, <2>1, <2>3 DEF Loading
  <2>5. QED
    BY <2>2, <2>4
<1>5. QED
  BY <1>3, <1>4

\* The buffer's clock edge, with what its write enable depends on.
LEMMA ChannelWrite ==
  ASSUME IInv, Flow, WritesHarmless, DutNegedge, NEW c \in Chan
  PROVE  \E w \in BOOLEAN :
           /\ queue'[c] = Clocked(queue[c], w, ~suspend[c], in_data)
           /\ Loading(c) => /\ w <=> (in_data_vld => ~queue[c].tmp_full)
                            /\ Loading(c)' <=> in_data_vld
                            /\ in_suspend <=> queue[c].tmp_full
           /\ ~Loading(c) => /\ w <=> Loading(c)'
                             /\ Loading(c)' => /\ HeaderValid /\ in_data.pkt.addr = c
                                               /\ queue[c].tmp_empty
                                               /\ in_suspend = FALSE
<1>1. PICK m1 \in {max_pkt_reg, max_pkt_reg'}, m2 \in {max_pkt_reg, max_pkt_reg'} :
        FsmUpdate(m1) /\ Buffers(m2)
  BY DEF DutNegedge
<1>2. queue'[c] = Clocked(queue[c], write_enb(c, m2), ~suspend[c], in_data)
  BY <1>1 DEF Buffers
<1>3. write_enb(c, m2) \in BOOLEAN
  BY DEF write_enb
<1>4. CASE Loading(c)
  <2>1. /\ write_enb(c, m2) <=> (in_data_vld => ~queue[c].tmp_full)
        /\ Loading(c)' <=> in_data_vld
        /\ in_suspend <=> queue[c].tmp_full
    BY <1>4, LoadingFsm
  <2>2. QED
    BY <1>2, <1>3, <1>4, <2>1
<1>5. CASE ~Loading(c)
  <2>1. /\ write_enb(c, m2) <=> Loading(c)'
        /\ Loading(c)' => /\ HeaderValid /\ in_data.pkt.addr = c
                          /\ queue[c].tmp_empty /\ in_suspend = FALSE
    BY <1>1, <1>5, HeaderFsm
  <2>2. QED
    BY <1>2, <1>3, <1>5, <2>1
<1>6. QED
  BY <1>4, <1>5

\* Only a header for a channel starts a load.
LEMMA DestIsChannel ==
  ASSUME IInv, Flow, DutNegedge, state_r' = "DATA_LOAD"
  PROVE  dest_chan_r' \in Chan
<1>1. PICK m : FsmUpdate(m)
  BY DEF DutNegedge
<1>2. dest_chan_r' = dest_chan /\ state_r' = next_state(m)
  BY <1>1, DestStep DEF FsmUpdate
<1>3. HeaderValid \in BOOLEAN /\ Illegal(m) \in BOOLEAN /\ fifo_empty \in BOOLEAN
      /\ in_data_vld \in BOOLEAN /\ state_r \in FsmState
  BY DEF HeaderValid, Illegal, fifo_empty, IInv, Types
<1>4. CASE HeaderValid
  <2>1. ~Illegal(m)
    BY <1>2, <1>3, <1>4 DEF next_state
  <2>2. QED
    BY <1>2, <2>1, FlagsOfWires DEF Illegal
<1>5. CASE ~HeaderValid
  <2>1. state_r = "DATA_LOAD" /\ dest_chan = dest_chan_r
    BY <1>2, <1>3, <1>5 DEF next_state, dest_chan
  <2>2. QED
    BY <1>2, <2>1 DEF Flow
<1>6. QED
  BY <1>4, <1>5

-----------------------------------------------------------------------------
(***************************************************************************)
(* A negative edge, the driver's side once more: the byte on the bus.      *)
(***************************************************************************)

\* The byte on the bus while the FSM loads, or a header waits.
LEMMA BusByte ==
  ASSUME IInv, drv.pc # "idle"
  PROVE  /\ drv.pkt \in Packets
         /\ in_data.pos \in 0 .. drv.pkt.length + 1
         /\ in_data = ByteOf(drv.pkt, in_data.pos)
         /\ in_data \in Byte
         /\ in_data_vld = FALSE => in_data.pos = drv.pkt.length + 1
         /\ HeaderValid => in_data.pos = 0
<1>1. CASE drv.pc \in {"payload", "parity"}
  <2>1. /\ drv.pkt \in Packets /\ drv.pos \in 1 .. drv.pkt.length + 1
        /\ in_data = ByteOf(drv.pkt, drv.pos - 1) /\ in_data_vld = TRUE
        /\ drv.pos >= 2 => state_r # "HEADER_WAIT"
    BY <1>1 DEF IInv, AtByte
  <2>2. drv.pkt.length \in Nat
    BY <2>1, PacketFacts
  <2>3. in_data.pos = drv.pos - 1 /\ in_data.pos \in 0 .. drv.pkt.length + 1
    BY <2>1, <2>2 DEF ByteOf
  <2>4. in_data \in Byte
    BY <2>1, <2>3, BytesTyped
  <2>5. HeaderValid => in_data.pos = 0
    BY <2>1, <2>2, <2>3 DEF HeaderValid
  <2>6. QED
    BY <2>1, <2>3, <2>4, <2>5
<1>2. CASE drv.pc = "release"
  <2>1. /\ drv.pkt \in Packets /\ in_data = ByteOf(drv.pkt, drv.pkt.length + 1)
        /\ in_data_vld = FALSE
    BY <1>2 DEF IInv, AtParity, ParityByte
  <2>2. drv.pkt.length \in Nat
    BY <2>1, PacketFacts
  <2>3. in_data.pos = drv.pkt.length + 1
    BY <2>1 DEF ByteOf
  <2>4. in_data \in Byte
    BY <2>1, <2>2, BytesTyped
  <2>5. QED
    BY <2>1, <2>2, <2>3, <2>4 DEF HeaderValid
<1>3. QED
  BY <1>1, <1>2 DEF IInv, Types, DrvType

\* The driver puts the byte after it on the bus, or keeps it there.
LEMMA NextByte ==
  ASSUME IInv, DrvNegedge(in_suspend), in_data_vld
  PROVE  /\ drv'.pc # "idle" /\ drv'.pkt = drv.pkt
         /\ in_data' = IF in_suspend THEN in_data
                       ELSE ByteOf(drv.pkt, in_data.pos + 1)
<1>1. drv.pc \in {"payload", "parity"} /\ drv \in DrvType
  BY ValidByte DEF IInv, Types
<1>2. /\ drv.pkt \in Packets /\ drv.pos \in 1 .. drv.pkt.length + 1
      /\ drv.pc = "payload" <=> drv.pos <= drv.pkt.length
      /\ in_data = ByteOf(drv.pkt, drv.pos - 1)
  BY <1>1 DEF IInv, AtByte
<1>3. drv.pkt.length \in Nat
  BY <1>2, PacketFacts
<1>4. in_data.pos + 1 = drv.pos
  BY <1>2, <1>3 DEF ByteOf
<1>5. CASE DrvPayload(in_suspend)
  <2>1. /\ ~in_suspend /\ in_data' = ByteOf(drv.pkt, drv.pos)
        /\ drv' = [drv EXCEPT !.pos = @ + 1,
                              !.pc = IF drv.pos = drv.pkt.length
                                     THEN "parity" ELSE "payload"]
    BY <1>5 DEF DrvPayload
  <2>2. drv'.pkt = drv.pkt /\ drv'.pc # "idle"
    BY <1>1, <2>1 DEF DrvType
  <2>3. QED
    BY <1>4, <2>1, <2>2
<1>6. CASE DrvParity(in_suspend)
  <2>1. /\ ~in_suspend /\ in_data' = ByteOf(drv.pkt, drv.pkt.length + 1)
        /\ drv' = [drv EXCEPT !.pc = "release"] /\ drv.pc = "parity"
    BY <1>6 DEF DrvParity, ParityByte
  <2>2. drv'.pkt = drv.pkt /\ drv'.pc # "idle"
    BY <1>1, <2>1 DEF DrvType
  <2>3. drv.pos = drv.pkt.length + 1
    BY <1>2, <1>3, <2>1
  <2>4. QED
    BY <1>4, <2>1, <2>2, <2>3
<1>7. CASE DrvBlocked(in_suspend)
  BY <1>1, <1>7 DEF DrvBlocked
<1>8. QED
  BY <1>1, <1>5, <1>6, <1>7 DEF DrvNegedge, DrvIdle, DrvHeader, DrvRelease

-----------------------------------------------------------------------------
(***************************************************************************)
(* A negative edge, the buffer of one channel.                             *)
(***************************************************************************)

\* What is in the buffer after the read, if there is one.
Kept(c) == IF suspend[c] \/ queue[c].tmp_empty THEN Contents(queue[c])
           ELSE Tail(Contents(queue[c]))

\* The registers of one buffer, and the contents read off them.
LEMMA QueueFacts ==
  ASSUME IInv, Flow, NEW c \in Chan
  PROVE  /\ queue[c] \in FifoState /\ FlagsExact(queue[c])
         /\ Count(queue[c]) \in 0 .. Depth
         /\ queue[c].tmp_empty <=> Count(queue[c]) = 0
         /\ queue[c].tmp_full <=> Count(queue[c]) = Depth
         /\ Contents(queue[c]) \in Seq(Slot)
         /\ Len(Contents(queue[c])) = Count(queue[c])
         /\ suspend[c] \in BOOLEAN
         /\ BufferLoading(c) /\ BufferLoaded(c) /\ Receiver(c)
<1>1. queue[c] \in FifoState /\ suspend[c] \in BOOLEAN
  BY DEF IInv, Types
<1>2. FlagsExact(queue[c]) /\ BufferLoading(c) /\ BufferLoaded(c) /\ Receiver(c)
  BY DEF Flow, Channel
<1>3. QED
  BY <1>1, <1>2, CountFacts, ContentsFacts

LEMMA KeptFacts ==
  ASSUME IInv, Flow, NEW c \in Chan
  PROVE  /\ Kept(c) \in Seq(Slot)
         /\ Len(Kept(c)) = Count(queue[c]) -
              (IF suspend[c] \/ queue[c].tmp_empty THEN 0 ELSE 1)
         /\ \A p : \A n \in Int :
              Run(Contents(queue[c]), p, n) => Run(Kept(c), p, n)
<1> DEFINE q == Contents(queue[c])
<1>1. /\ q \in Seq(Slot) /\ Len(q) = Count(queue[c])
      /\ queue[c].tmp_empty <=> Count(queue[c]) = 0
      /\ Count(queue[c]) \in Nat
  BY QueueFacts, DepthAssumption
<1>2. CASE suspend[c] \/ queue[c].tmp_empty
  BY <1>1, <1>2 DEF Kept
<1>3. CASE ~(suspend[c] \/ queue[c].tmp_empty)
  <2>1. Kept(c) = Tail(q) /\ q # << >>
    BY <1>1, <1>3 DEF Kept
  <2>2. Tail(q) \in Seq(Slot) /\ Len(Tail(q)) = Len(q) - 1
    BY <1>1, <2>1
  <2>3. \A p : \A n \in Int : Run(q, p, n) => Run(Tail(q), p, n)
    BY <1>1, <2>1, RunTail
  <2>4. QED
    BY <1>1, <1>3, <2>1, <2>2, <2>3
<1>4. QED
  BY <1>2, <1>3

\* The clock edge as an operation on the contents.
LEMMA QueueEdge ==
  ASSUME IInv, Flow, WritesHarmless, Negedge, NEW c \in Chan
  PROVE  /\ queue'[c] \in FifoState /\ FlagsExact(queue'[c])
         /\ Loading(c) =>
              /\ Loading(c)' <=> in_data_vld
              /\ in_suspend <=> queue[c].tmp_full
              /\ ~queue[c].tmp_full => Contents(queue'[c]) = Append(Kept(c), in_data)
              /\ in_data_vld /\ queue[c].tmp_full => Contents(queue'[c]) = Kept(c)
         /\ ~Loading(c) /\ Loading(c)' =>
              /\ HeaderValid /\ in_data.pkt.addr = c /\ in_suspend = FALSE
              /\ queue[c].tmp_empty
              /\ Contents(queue'[c]) = Append(<< >>, in_data)
         /\ ~Loading(c) /\ ~Loading(c)' => Contents(queue'[c]) = Kept(c)
<1> DEFINE f == queue[c]
           r == ~suspend[c]
<1>1. PICK w \in BOOLEAN :
           /\ queue'[c] = Clocked(f, w, r, in_data)
           /\ Loading(c) => /\ w <=> (in_data_vld => ~f.tmp_full)
                            /\ Loading(c)' <=> in_data_vld
                            /\ in_suspend <=> f.tmp_full
           /\ ~Loading(c) => /\ w <=> Loading(c)'
                             /\ Loading(c)' => /\ HeaderValid /\ in_data.pkt.addr = c
                                               /\ f.tmp_empty
                                               /\ in_suspend = FALSE
  BY ChannelWrite DEF Negedge
<1>2. f \in FifoState /\ FlagsExact(f) /\ r \in BOOLEAN /\ in_data \in Slot
  BY QueueFacts, BusSlot
<1>3. queue'[c] \in FifoState /\ FlagsExact(queue'[c])
  BY <1>1, <1>2, ClockedType, ClockedFlags
<1>4. Contents(queue'[c]) =
        IF w /\ (r \/ ~f.tmp_full) THEN Append(Kept(c), in_data) ELSE Kept(c)
  <2>1. Contents(queue'[c]) =
          LET q    == Contents(f)
              rest == IF r /\ ~f.tmp_empty THEN Tail(q) ELSE q
          IN  IF w /\ (r \/ ~f.tmp_full) THEN Append(rest, in_data) ELSE rest
    <3> HIDE DEF f, r
    <3> QED
      BY <1>1, <1>2, ClockedContentsAre
  <2>2. Kept(c) = IF r /\ ~f.tmp_empty THEN Tail(Contents(f)) ELSE Contents(f)
    BY <1>2 DEF Kept
  <2>3. QED
    BY <2>1, <2>2
<1>5. f.tmp_empty => ~f.tmp_full /\ Kept(c) = << >>
  BY <1>2, ContentsFacts DEF Kept, FlagsExact
<1>6. ASSUME Loading(c)
      PROVE  /\ ~f.tmp_full => Contents(queue'[c]) = Append(Kept(c), in_data)
             /\ in_data_vld /\ f.tmp_full => Contents(queue'[c]) = Kept(c)
  BY <1>1, <1>4, <1>6
<1>7. ASSUME ~Loading(c), Loading(c)'
      PROVE  Contents(queue'[c]) = Append(<< >>, in_data)
  BY <1>1, <1>4, <1>5, <1>7
<1>8. ASSUME ~Loading(c), ~Loading(c)' PROVE Contents(queue'[c]) = Kept(c)
  BY <1>1, <1>4, <1>8
<1>9. QED
  BY <1>1, <1>3, <1>6, <1>7, <1>8

\* suspend rises only when the last byte of a packet is read.
LEMMA SuspendFalls ==
  ASSUME IInv, Flow, Negedge, NEW c \in Chan, Loading(c), suspend'[c]
  PROVE  suspend[c]
<1>1. Receiver(c)
  BY QueueFacts
<1>2. rx[c].pc \in {"wait", "respond", "drain"}
  BY <1>1 DEF Receiver, RxType
<1>3. suspend'[c] = CASE rx[c].pc = "respond" -> rx[c].left > 0
                      [] rx[c].pc = "finish"  -> TRUE
                      [] OTHER                -> suspend[c]
  BY DEF Negedge, RxNegedges
<1>4. CASE rx[c].pc = "respond"
  BY <1>1, <1>4 DEF Receiver
<1>5. CASE rx[c].pc \in {"wait", "drain"}
  BY <1>3, <1>5
<1>6. QED
  BY <1>2, <1>4, <1>5

\* What the edge has to show of one buffer, whatever its case.
BufferNext(c) ==
  /\ BufferLoading(c)' /\ BufferLoaded(c)'
  /\ suspend[c] /\ MoreThanOne(c) => MoreThanOne(c)'
  /\ MoreThanOne(c) => Count(queue'[c]) > 0

\* A byte that is not the last is written, and the next one follows it.
LEMMA LoadByte ==
  ASSUME IInv, Flow, WritesHarmless, Negedge, NEW c \in Chan,
         Loading(c), in_data_vld, ~queue[c].tmp_full
  PROVE  BufferNext(c)
<1> DEFINE p == drv.pkt
           n == in_data.pos
           k == Count(queue[c])
<1>1. /\ drv.pc # "idle" /\ p.addr = c /\ k \in 1 .. n
      /\ Run(Contents(queue[c]), p, n - 1)
      /\ suspend[c] \/ queue[c].tmp_full => k = n
  BY QueueFacts DEF BufferLoading
<1>2. /\ p \in Packets /\ n \in 0 .. p.length + 1 /\ in_data = ByteOf(p, n)
      /\ in_data \in Slot /\ p.length \in Nat
  BY <1>1, BusByte, PacketFacts DEF Slot
<1>3. /\ queue'[c] \in FifoState /\ FlagsExact(queue'[c]) /\ Loading(c)'
      /\ in_suspend = FALSE
      /\ Contents(queue'[c]) = Append(Kept(c), in_data)
  BY QueueEdge, FlagsOfWires
<1>4. drv'.pc # "idle" /\ drv'.pkt = p /\ in_data' = ByteOf(p, n + 1)
  BY <1>3, NextByte DEF Negedge
<1>5. /\ Kept(c) \in Seq(Slot) /\ Run(Kept(c), p, n - 1)
      /\ Len(Kept(c)) = k - (IF suspend[c] THEN 0 ELSE 1)
  BY <1>1, <1>2, KeptFacts, QueueFacts
<1>6. Run(Contents(queue'[c]), p, n)
  BY <1>2, <1>3, <1>5, RunAppend
<1>7. Count(queue'[c]) = k + (IF suspend[c] THEN 1 ELSE 0)
  <2>1. Len(Append(Kept(c), in_data)) = Len(Kept(c)) + 1
    BY <1>2, <1>5
  <2>2. Len(Contents(queue'[c])) = Count(queue'[c])
    BY <1>3, ContentsFacts
  <2>3. QED
    BY <1>1, <1>2, <1>3, <1>5, <2>1, <2>2
<1>8. in_data'.pos = n + 1
  BY <1>4 DEF ByteOf
<1>9. k < Depth
  BY QueueFacts, DepthAssumption
<1>10. suspend'[c] \/ queue'[c].tmp_full => Count(queue'[c]) = n + 1
  <2>1. suspend'[c] => suspend[c]
    BY SuspendFalls
  <2>2. queue'[c].tmp_full => suspend[c]
    BY <1>1, <1>3, <1>7, <1>9, CountFacts, DepthAssumption
  <2>3. QED
    BY <1>1, <1>2, <1>7, <2>1, <2>2
<1>11. BufferLoading(c)'
  <2>1. Count(queue'[c]) \in 1 .. n + 1 /\ (n + 1) - 1 = n
    BY <1>1, <1>2, <1>7
  <2>2. QED
    BY <1>1, <1>4, <1>6, <1>8, <1>10, <2>1 DEF BufferLoading
<1>12. BufferLoaded(c)'
  BY <1>3 DEF BufferLoaded
<1>13. Count(queue'[c]) > 0
  BY <1>1, <1>2, <1>7
<1>14. QED
  BY <1>3, <1>11, <1>12, <1>13 DEF BufferNext, MoreThanOne

\* A full buffer: the byte stays on the bus.
LEMMA LoadHeld ==
  ASSUME IInv, Flow, WritesHarmless, Negedge, NEW c \in Chan,
         Loading(c), in_data_vld, queue[c].tmp_full
  PROVE  BufferNext(c)
<1> DEFINE p == drv.pkt
           n == in_data.pos
<1>1. /\ drv.pc # "idle" /\ p.addr = c /\ Count(queue[c]) = n
      /\ Run(Contents(queue[c]), p, n - 1)
      /\ Count(queue[c]) = Depth /\ ~queue[c].tmp_empty
  BY QueueFacts DEF BufferLoading, FlagsExact
<1>2. /\ queue'[c] \in FifoState /\ FlagsExact(queue'[c]) /\ Loading(c)'
      /\ in_suspend = TRUE
      /\ Contents(queue'[c]) = Kept(c)
  BY QueueEdge, FlagsOfWires
<1>3. drv'.pc # "idle" /\ drv'.pkt = p /\ in_data' = in_data
  BY <1>2, NextByte DEF Negedge
<1>4. /\ Kept(c) \in Seq(Slot) /\ Run(Kept(c), p, n - 1)
      /\ Len(Kept(c)) = Depth - (IF suspend[c] THEN 0 ELSE 1)
  BY <1>1, DepthAssumption, KeptFacts, QueueFacts
<1>5. Count(queue'[c]) = Depth - (IF suspend[c] THEN 0 ELSE 1)
  BY <1>2, <1>4, ContentsFacts
<1>6. suspend'[c] \/ queue'[c].tmp_full => Count(queue'[c]) = n
  <2>1. suspend'[c] => suspend[c]
    BY SuspendFalls
  <2>2. queue'[c].tmp_full => suspend[c]
    BY <1>2, <1>5, CountFacts, DepthAssumption
  <2>3. QED
    BY <1>1, <1>5, <2>1, <2>2, DepthAssumption
<1>7. BufferLoading(c)'
  <2>1. Count(queue'[c]) \in 1 .. n
    BY <1>1, <1>5, DepthAssumption
  <2>2. QED
    BY <1>1, <1>2, <1>3, <1>4, <1>6, <2>1 DEF BufferLoading
<1>8. BufferLoaded(c)'
  BY <1>2 DEF BufferLoaded
<1>9. Count(queue'[c]) > 0
  BY <1>5, DepthAssumption
<1>10. QED
  BY <1>2, <1>7, <1>8, <1>9 DEF BufferNext, MoreThanOne

\* The parity byte finds room: a buffer that was full when it came held the
\* header and the payload, and the receiver began to read before that.
LEMMA RoomForParity ==
  ASSUME IInv, Flow, ParityFits, NEW c \in Chan, Loading(c), ~in_data_vld
  PROVE  ~queue[c].tmp_full
<1> DEFINE p == drv.pkt
           n == in_data.pos
           k == Count(queue[c])
<1>1. SUFFICES ASSUME queue[c].tmp_full PROVE FALSE
  OBVIOUS
<1>2. drv.pc # "idle" /\ k = n /\ n = Depth /\ Depth \in Nat
  BY <1>1, QueueFacts, DepthAssumption DEF BufferLoading
<1>3. p \in Packets /\ n = p.length + 1 /\ p.length \in Nat
  BY <1>2, BusByte, PacketFacts DEF IInv, Types
<1>4. PICK x \in Kinds : p.length = x.length
  BY <1>3 DEF Packets, Packet
<1>5. \A d \in RespDelays : d \in Nat /\ d + 3 < Depth
  BY <1>2, <1>3, <1>4, RespDelaysAssumption DEF ParityFits
<1>6. Pace(c) /\ Receiver(c) /\ RespDelays # {}
  BY RespDelaysAssumption DEF Flow, Channel
<1>7. CASE rx[c].pc = "wait"
  <2>1. k <= 2
    BY <1>2, <1>6, <1>7 DEF Pace
  <2>2. QED
    BY <1>2, <1>5, <1>6, <2>1
<1>8. CASE rx[c].pc = "respond"
  <2>1. /\ rx[c].delay \in RespDelays /\ rx[c].left \in Nat
        /\ k + rx[c].left <= rx[c].delay + 2
    BY <1>6, <1>8 DEF Pace, Receiver, RxType
  <2>2. QED
    BY <1>2, <1>5, <2>1
<1>9. CASE rx[c].pc = "drain"
  <2>1. rx[c].delay \in RespDelays /\ k <= rx[c].delay + 3
    BY <1>6, <1>9 DEF Pace
  <2>2. QED
    BY <1>2, <1>5, <2>1
<1>10. QED
  BY <1>6, <1>7, <1>8, <1>9 DEF Receiver, RxType

\* The parity byte is written.
LEMMA LoadLast ==
  ASSUME IInv, Flow, WritesHarmless, ParityFits, Negedge, NEW c \in Chan,
         Loading(c), ~in_data_vld
  PROVE  BufferNext(c)
<1> DEFINE p == drv.pkt
           n == in_data.pos
           k == Count(queue[c])
<1>1. /\ drv.pc # "idle" /\ p.addr = c /\ k \in 1 .. n
      /\ Run(Contents(queue[c]), p, n - 1)
      /\ suspend[c] \/ queue[c].tmp_full => k = n
  BY QueueFacts DEF BufferLoading
<1>2. /\ p \in Packets /\ n = p.length + 1 /\ in_data = ByteOf(p, n)
      /\ in_data \in Slot /\ p.length \in Nat
  BY <1>1, BusByte, PacketFacts DEF Slot, IInv, Types
<1>3. ~queue[c].tmp_full
  BY RoomForParity
<1>4. /\ queue'[c] \in FifoState /\ FlagsExact(queue'[c]) /\ ~Loading(c)'
      /\ in_suspend = FALSE
      /\ Contents(queue'[c]) = Append(Kept(c), in_data)
  BY <1>3, QueueEdge, FlagsOfWires
<1>5. /\ Kept(c) \in Seq(Slot) /\ Run(Kept(c), p, n - 1)
      /\ Len(Kept(c)) = k - (IF suspend[c] THEN 0 ELSE 1)
  BY <1>1, <1>2, KeptFacts, QueueFacts
<1>6. Run(Contents(queue'[c]), p, p.length + 1)
  BY <1>2, <1>4, <1>5, RunAppend
<1>7. Count(queue'[c]) = k + (IF suspend[c] THEN 1 ELSE 0)
  <2>1. Len(Append(Kept(c), in_data)) = Len(Kept(c)) + 1
    BY <1>2, <1>5
  <2>2. Len(Contents(queue'[c])) = Count(queue'[c])
    BY <1>4, ContentsFacts
  <2>3. QED
    BY <1>1, <1>2, <1>4, <1>5, <2>1, <2>2
<1>8. BufferLoading(c)' /\ BufferLoaded(c)'
  BY <1>1, <1>2, <1>4, <1>6 DEF BufferLoading, BufferLoaded
<1>9. /\ Count(queue'[c]) > 0
      /\ suspend[c] => Count(queue'[c]) >= 2
  BY <1>1, <1>2, <1>7
<1>10. QED
  BY <1>4, <1>8, <1>9 DEF BufferNext, MoreThanOne

\* A header goes into an empty buffer, which nobody reads.
LEMMA LoadHeader ==
  ASSUME IInv, Flow, WritesHarmless, Negedge, NEW c \in Chan,
         ~Loading(c), Loading(c)'
  PROVE  BufferNext(c)
<1> DEFINE p == drv.pkt
<1>1. /\ queue'[c] \in FifoState /\ FlagsExact(queue'[c])
      /\ HeaderValid /\ in_data.pkt.addr = c /\ in_suspend = FALSE
      /\ queue[c].tmp_empty
      /\ Contents(queue'[c]) = Append(<< >>, in_data)
  BY QueueEdge
<1>2. in_data_vld /\ drv.pc # "idle" /\ in_data.pkt = p
  BY <1>1, ValidByte DEF HeaderValid
<1>3. in_data = ByteOf(p, 0) /\ in_data.pos = 0 /\ in_data \in Slot
  BY <1>1, <1>2, BusByte DEF Slot
<1>4. drv'.pc # "idle" /\ drv'.pkt = p /\ in_data' = ByteOf(p, 1)
  BY <1>1, <1>2, <1>3, NextByte DEF Negedge
<1>5. in_data'.pos = 1
  BY <1>4 DEF ByteOf
<1>6. Run(Append(<< >>, in_data), p, 0)
  <2>1. << >> \in Seq(Slot) /\ Run(<< >>, p, 0 - 1)
    BY DEF Run
  <2>2. QED
    BY <1>3, <2>1, RunAppend
<1>7. Count(queue'[c]) = 1
  <2>1. Len(Append(<< >>, in_data)) = 1
    OBVIOUS
  <2>2. QED
    BY <1>1, <2>1, ContentsFacts
<1>8. BufferLoading(c)'
  BY <1>1, <1>2, <1>4, <1>5, <1>6, <1>7 DEF BufferLoading
<1>9. QED
  BY <1>7, <1>8 DEF BufferNext, BufferLoaded, MoreThanOne

\* No byte for the channel: the receiver reads or waits.
LEMMA NoLoad ==
  ASSUME IInv, Flow, WritesHarmless, Negedge, NEW c \in Chan,
         ~Loading(c), ~Loading(c)'
  PROVE  BufferNext(c)
<1> DEFINE k == Count(queue[c])
<1>1. /\ queue'[c] \in FifoState /\ FlagsExact(queue'[c])
      /\ Contents(queue'[c]) = Kept(c)
  BY QueueEdge
<1>2. Count(queue'[c]) = k - (IF suspend[c] \/ queue[c].tmp_empty THEN 0 ELSE 1)
  BY <1>1, KeptFacts, ContentsFacts
<1>3. k \in 0 .. Depth /\ (queue[c].tmp_empty <=> k = 0) /\ BufferLoaded(c)
  BY QueueFacts
<1>4. BufferLoaded(c)'
  <2>1. SUFFICES ASSUME Count(queue'[c]) > 0
                 PROVE  \E p \in Packets : p.addr = c
                           /\ Run(Contents(queue'[c]), p, p.length + 1)
    BY DEF BufferLoaded
  <2>2. k > 0
    BY <1>2, <1>3, <2>1, DepthAssumption
  <2>3. PICK p \in Packets : p.addr = c /\ Run(Contents(queue[c]), p, p.length + 1)
    BY <1>3, <2>2 DEF BufferLoaded
  <2>4. p.length + 1 \in Int
    BY <2>3, PacketFacts
  <2>5. Run(Kept(c), p, p.length + 1)
    BY <2>3, <2>4, KeptFacts
  <2>6. QED
    BY <1>1, <2>3, <2>5
<1>5. /\ suspend[c] /\ k >= 2 => Count(queue'[c]) >= 2
      /\ k >= 2 => Count(queue'[c]) > 0
  BY <1>2, <1>3, DepthAssumption
<1>6. QED
  BY <1>4, <1>5 DEF BufferNext, BufferLoading, MoreThanOne

LEMMA BufferStep ==
  ASSUME IInv, Flow, WritesHarmless, ParityFits, Negedge, NEW c \in Chan
  PROVE  FlagsExact(queue'[c]) /\ BufferNext(c)
<1>1. FlagsExact(queue'[c])
  BY QueueEdge
<1>2. queue[c].tmp_full \in BOOLEAN /\ in_data_vld \in BOOLEAN
  BY QueueFacts DEF FifoState, IInv, Types
<1>3. Loading(c) \in BOOLEAN /\ Loading(c)' \in BOOLEAN
  BY DEF Loading
<1>4. QED
  BY <1>1, <1>2, <1>3, LoadByte, LoadHeld, LoadLast, LoadHeader, NoLoad

-----------------------------------------------------------------------------
(***************************************************************************)
(* The receiver of one channel.                                            *)
(***************************************************************************)

\* A negative edge: counting the delay, lowering suspend, raising it again.
LEMMA ReceiverNegedge ==
  ASSUME IInv, Flow, Negedge, NEW c \in Chan, BufferNext(c)
  PROVE  Receiver(c)'
<1>1. /\ Receiver(c) /\ suspend[c] \in BOOLEAN
      /\ clock = 1 /\ data_vld' = data_vld
  BY QueueFacts DEF Negedge, DutNegedge
<1>2. /\ rx'[c] = CASE rx[c].pc = "respond" /\ rx[c].left > 0 ->
                         [rx[c] EXCEPT !.left = @ - 1]
                    [] rx[c].pc = "respond" /\ rx[c].left = 0 ->
                         [rx[c] EXCEPT !.pc = IF data_vld[c] THEN "drain"
                                              ELSE "finish"]
                    [] rx[c].pc = "finish" -> [rx[c] EXCEPT !.pc = "wait"]
                    [] OTHER -> rx[c]
      /\ suspend'[c] = CASE rx[c].pc = "respond" -> rx[c].left > 0
                         [] rx[c].pc = "finish"  -> TRUE
                         [] OTHER                -> suspend[c]
  BY DEF Negedge, RxNegedges
<1>3. rx[c] \in RxType
  BY <1>1 DEF Receiver
<1>4. rx[c].left \in Nat
  BY <1>3 DEF RxType
<1>5. rx[c].left > 0 <=> ~(rx[c].left = 0)
  BY <1>4
<1>6. CASE rx[c].pc = "wait"
  <2>1. rx'[c] = rx[c] /\ suspend'[c] = suspend[c]
    BY <1>2, <1>6
  <2>2. suspend[c] /\ data_vld[c] => MoreThanOne(c)'
    BY <1>1 DEF Receiver, BufferNext
  <2>3. QED
    BY <1>1, <1>6, <2>1, <2>2 DEF Receiver
<1>7. CASE rx[c].pc = "respond" /\ rx[c].left > 0
  <2>1. rx'[c] = [rx[c] EXCEPT !.left = @ - 1] /\ suspend'[c] = TRUE
    <3>1. (rx[c].left > 0) = TRUE
      BY <1>7
    <3>2. rx'[c] = [rx[c] EXCEPT !.left = @ - 1]
      BY <1>2, <1>7
    <3>3. suspend'[c] = TRUE
      BY <1>2, <1>7, <3>1
    <3>4. QED
      BY <3>2, <3>3
  <2>2. rx'[c] \in RxType /\ rx'[c].pc = "respond"
    BY <1>3, <1>7, <2>1 DEF RxType
  <2>3. data_vld[c] /\ MoreThanOne(c)'
    BY <1>1, <1>7 DEF Receiver, BufferNext
  <2>4. QED
    BY <1>1, <2>1, <2>2, <2>3 DEF Receiver
<1>8. CASE rx[c].pc = "respond" /\ rx[c].left = 0
  <2>1. data_vld[c] /\ MoreThanOne(c)'
    BY <1>1, <1>8 DEF Receiver, BufferNext
  <2>2. rx'[c] = [rx[c] EXCEPT !.pc = "drain"] /\ suspend'[c] = FALSE
    <3>1. (rx[c].left > 0) = FALSE
      BY <1>5, <1>8
    <3>2. rx'[c] = [rx[c] EXCEPT !.pc = "drain"]
      BY <1>2, <1>8, <2>1, <3>1
    <3>3. suspend'[c] = FALSE
      BY <1>2, <1>8, <3>1
    <3>4. QED
      BY <3>2, <3>3
  <2>3. rx'[c] \in RxType /\ rx'[c].pc = "drain"
    BY <1>3, <2>2 DEF RxType
  <2>4. Count(queue'[c]) > 0
    BY <1>1, <1>8 DEF Receiver, BufferNext
  <2>5. clock' = 0
    BY DEF Negedge
  <2>6. QED
    BY <1>1, <2>1, <2>2, <2>3, <2>4, <2>5 DEF Receiver
<1>9. CASE rx[c].pc = "drain"
  <2>1. rx'[c] = rx[c] /\ suspend'[c] = suspend[c]
    BY <1>2, <1>9
  <2>2. data_vld[c] /\ suspend[c] = FALSE /\ MoreThanOne(c)
    BY <1>1, <1>9 DEF Receiver
  <2>3. Count(queue'[c]) > 0 /\ clock' = 0
    BY <2>2 DEF BufferNext, Negedge
  <2>4. QED
    BY <1>1, <1>3, <1>9, <2>1, <2>2, <2>3 DEF Receiver
<1>10. CASE rx[c].pc = "finish"
  <2>1. rx'[c] = [rx[c] EXCEPT !.pc = "wait"] /\ suspend'[c] = TRUE
    BY <1>2, <1>10
  <2>2. rx'[c] \in RxType /\ rx'[c].pc = "wait"
    BY <1>3, <2>1 DEF RxType
  <2>3. data_vld[c] = FALSE
    BY <1>1, <1>10 DEF Receiver
  <2>4. QED
    BY <1>1, <2>1, <2>2, <2>3 DEF Receiver
<1>11. QED
  <2>1. rx[c].left > 0 \/ rx[c].left = 0
    BY <1>3 DEF RxType
  <2>2. rx[c].pc \in {"wait", "respond", "drain", "finish"}
    BY <1>3 DEF RxType
  <2>3. QED
    BY <1>6, <1>7, <1>8, <1>9, <1>10, <2>1, <2>2

\* A byte more at the most, and none more while the receiver reads.
LEMMA CountGrows ==
  ASSUME IInv, Flow, WritesHarmless, Negedge, NEW c \in Chan, Loading(c)'
  PROVE  /\ Count(queue[c]) \in Nat /\ Count(queue'[c]) \in Nat
         /\ Loading(c) /\ suspend[c] => Count(queue'[c]) <= Count(queue[c]) + 1
         /\ Loading(c) /\ ~suspend[c] => Count(queue'[c]) <= Count(queue[c])
         /\ ~Loading(c) => Count(queue[c]) = 0 /\ Count(queue'[c]) = 1
<1> DEFINE k == Count(queue[c])
<1>1. /\ k \in Nat /\ (queue[c].tmp_empty <=> k = 0) /\ Kept(c) \in Seq(Slot)
      /\ Len(Kept(c)) = k - (IF suspend[c] \/ queue[c].tmp_empty THEN 0 ELSE 1)
      /\ in_data \in Slot
  BY QueueFacts, KeptFacts, BusSlot, DepthAssumption
<1>2. Len(Contents(queue'[c])) = Count(queue'[c])
  BY QueueEdge, ContentsFacts
<1>3. CASE Loading(c)
  <2>1. \/ Contents(queue'[c]) = Append(Kept(c), in_data)
        \/ Contents(queue'[c]) = Kept(c)
    BY <1>3, QueueEdge
  <2>2. Len(Append(Kept(c), in_data)) = Len(Kept(c)) + 1 /\ Len(Kept(c)) \in Nat
    BY <1>1
  <2>3. Count(queue'[c]) \in {Len(Kept(c)), Len(Kept(c)) + 1}
    BY <1>2, <2>1, <2>2
  <2>4. k >= 1
    BY <1>1, <1>3, QueueFacts DEF BufferLoading
  <2>5. Len(Kept(c)) = IF suspend[c] THEN k ELSE k - 1
    BY <1>1, <2>4
  <2>6. QED
    BY <1>1, <1>3, <2>2, <2>3, <2>5
<1>4. CASE ~Loading(c)
  <2>1. k = 0 /\ Contents(queue'[c]) = Append(<< >>, in_data)
    BY <1>1, <1>4, QueueEdge
  <2>2. Len(Append(<< >>, in_data)) = 1
    OBVIOUS
  <2>3. QED
    BY <1>1, <1>2, <1>4, <2>1, <2>2
<1>5. QED
  BY <1>3, <1>4

\* The receiver keeps pace with the packet that arrives.
LEMMA PaceNegedge ==
  ASSUME IInv, Flow, WritesHarmless, Negedge, NEW c \in Chan
  PROVE  Pace(c)'
<1> DEFINE k == Count(queue[c])
           j == Count(queue'[c])
<1>1. SUFFICES ASSUME Loading(c)' PROVE Pace(c)'
  BY DEF Pace
<1>2. /\ Receiver(c) /\ Pace(c) /\ suspend[c] \in BOOLEAN
      /\ clock = 1 /\ clock' = 0 /\ data_vld' = data_vld
  BY QueueFacts DEF Negedge, DutNegedge, Flow, Channel
<1>3. /\ k \in Nat /\ j \in Nat
      /\ Loading(c) /\ suspend[c] => j <= k + 1
      /\ Loading(c) /\ ~suspend[c] => j <= k
      /\ ~Loading(c) => k = 0 /\ j = 1
  BY <1>1, CountGrows
<1>4. rx'[c] = CASE rx[c].pc = "respond" /\ rx[c].left > 0 ->
                      [rx[c] EXCEPT !.left = @ - 1]
                 [] rx[c].pc = "respond" /\ rx[c].left = 0 ->
                      [rx[c] EXCEPT !.pc = IF data_vld[c] THEN "drain"
                                           ELSE "finish"]
                 [] rx[c].pc = "finish" -> [rx[c] EXCEPT !.pc = "wait"]
                 [] OTHER -> rx[c]
  BY DEF Negedge, RxNegedges
<1>5. rx[c] \in RxType
  BY <1>2 DEF Receiver
<1>6. rx[c].left \in Nat /\ rx[c].delay \in Nat
  BY <1>5 DEF RxType
<1>7. rx[c].pc \in {"respond", "drain", "finish"} => Loading(c)
  <2>1. rx[c].pc = "respond" => suspend[c] /\ data_vld[c]
    BY <1>2 DEF Receiver
  <2>2. suspend[c] /\ data_vld[c] => MoreThanOne(c)
    BY <1>2 DEF Receiver
  <2>3. rx[c].pc \in {"drain", "finish"} => k > 0
    BY <1>2, <1>3 DEF Receiver
  <2>4. QED
    BY <1>3, <2>1, <2>2, <2>3 DEF MoreThanOne
<1>8. rx[c].pc # "finish"
  BY <1>2, <1>7 DEF Receiver
<1>9. CASE rx[c].pc = "wait"
  <2>1. rx'[c] = rx[c]
    BY <1>4, <1>9
  <2>2. Loading(c) => data_vld[c] /\ k <= 1
    BY <1>2, <1>9 DEF Pace
  <2>3. j <= IF data_vld[c] THEN 2 ELSE 1
    BY <1>2, <1>3, <2>2
  <2>4. QED
    BY <1>2, <1>9, <2>1, <2>3 DEF Pace
<1>10. CASE rx[c].pc = "respond" /\ rx[c].left > 0
  <2>1. rx'[c] = [rx[c] EXCEPT !.left = @ - 1]
    BY <1>4, <1>10
  <2>2. /\ rx'[c].pc = "respond" /\ rx'[c].delay = rx[c].delay
        /\ rx'[c].left = rx[c].left - 1
    BY <1>5, <1>10, <2>1 DEF RxType
  <2>3. /\ Loading(c) /\ suspend[c] /\ rx[c].delay \in RespDelays
        /\ k + rx[c].left <= rx[c].delay + 2
    BY <1>2, <1>7, <1>10 DEF Pace, Receiver
  <2>4. j + (rx[c].left - 1) <= rx[c].delay + 2
    BY <1>3, <1>6, <2>3
  <2>5. QED
    BY <1>2, <2>2, <2>3, <2>4 DEF Pace
<1>11. CASE rx[c].pc = "respond" /\ rx[c].left = 0
  <2>1. /\ Loading(c) /\ suspend[c] /\ data_vld[c] /\ rx[c].delay \in RespDelays
        /\ k + rx[c].left <= rx[c].delay + 2
    BY <1>2, <1>7, <1>11 DEF Pace, Receiver
  <2>2. rx'[c] = [rx[c] EXCEPT !.pc = "drain"]
    <3>1. (rx[c].left > 0) = FALSE
      BY <1>11
    <3>2. QED
      BY <1>4, <1>11, <2>1, <3>1
  <2>3. rx'[c].pc = "drain" /\ rx'[c].delay = rx[c].delay
    BY <1>5, <2>2 DEF RxType
  <2>4. j <= rx[c].delay + 3
    BY <1>3, <1>6, <1>11, <2>1
  <2>5. QED
    BY <1>2, <2>1, <2>3, <2>4 DEF Pace
<1>12. CASE rx[c].pc = "drain"
  <2>1. rx'[c] = rx[c]
    BY <1>4, <1>12
  <2>2. /\ ~suspend[c] /\ rx[c].delay \in RespDelays
        /\ k <= rx[c].delay + 3
    BY <1>2, <1>7, <1>12 DEF Pace, Receiver
  <2>3. j <= rx[c].delay + 3
    BY <1>3, <1>6, <1>7, <1>12, <2>2
  <2>4. QED
    BY <1>2, <1>12, <2>1, <2>2, <2>3 DEF Pace
<1>13. QED
  <2>1. rx[c].left > 0 \/ rx[c].left = 0
    BY <1>6
  <2>2. rx[c].pc \in {"wait", "respond", "drain"}
    BY <1>5, <1>8 DEF RxType
  <2>3. QED
    BY <1>9, <1>10, <1>11, <1>12, <2>1, <2>2

\* What the router is about to show in data_vld.
LEMMA VldMeans ==
  ASSUME IInv, Flow, NEW c \in Chan, NEW max
  PROVE  Vld(queue[c], write_enb(c, max)) <=> MoreThanOne(c)
<1> DEFINE k == Count(queue[c])
           w == write_enb(c, max)
<1>1. /\ queue[c] \in FifoState /\ FlagsExact(queue[c])
      /\ k \in 0 .. Depth
      /\ queue[c].tmp_empty <=> k = 0
      /\ queue[c].tmp_full <=> k = Depth
  BY QueueFacts
<1>2. w \in BOOLEAN
  BY DEF write_enb
<1>3. Vld(queue[c], w) <=> k >= 2 \/ (k = 1 /\ w)
  <2> HIDE DEF w
  <2> QED
    BY <1>1, <1>2, VldIsMoreThanOne
<1>4. CASE Loading(c)
  <2>1. dest_chan = c /\ state_r = "DATA_LOAD"
    BY <1>4 DEF dest_chan, HeaderValid, Loading
  <2>2. k >= 1
    BY <1>1, <1>4, QueueFacts, DepthAssumption DEF BufferLoading
  <2>3. k = 1 => ~queue[c].tmp_full
    BY <1>1, DepthAssumption
  <2>4. ~queue[c].tmp_full => w
    BY <2>1 DEF write_enb, fsm_write_enb, hold
  <2>5. k >= 2 \/ k = 1
    BY <1>1, <2>2, DepthAssumption
  <2>6. QED
    BY <1>3, <1>4, <2>3, <2>4, <2>5 DEF MoreThanOne
<1>5. CASE ~Loading(c)
  <2>1. k = 1 => ~queue[c].tmp_empty
    BY <1>1
  <2>2. w => queue[c].tmp_empty
    BY <1>5 DEF write_enb, fsm_write_enb, dest_chan, HeaderValid, fifo_empty, Loading
  <2>3. QED
    BY <1>3, <1>5, <2>1, <2>2 DEF MoreThanOne
<1>6. QED
  BY <1>4, <1>5

\* A positive edge: the receiver sees data_vld rise, or fall.
LEMMA ReceiverPosedge ==
  ASSUME IInv, Flow, Posedge, NEW c \in Chan
  PROVE  Receiver(c)'
<1>1. /\ Receiver(c) /\ suspend[c] \in BOOLEAN /\ data_vld[c] \in BOOLEAN
      /\ rx[c] \in RxType /\ clock = 0 /\ clock' = 1
  BY QueueFacts DEF Posedge, Receiver, IInv, Types
<1>2. suspend' = suspend /\ queue' = queue
      /\ state_r' = state_r /\ dest_chan_r' = dest_chan_r
  BY DEF Posedge, RxPosedges, DutPosedge, dutVars
<1>3. (Loading(c)' <=> Loading(c)) /\ (MoreThanOne(c)' <=> MoreThanOne(c))
  BY <1>2 DEF Loading, MoreThanOne
<1>4. data_vld'[c] <=> MoreThanOne(c)
  <2>1. data_vld'[c] = Vld(queue[c], write_enb(c, max_pkt_reg))
    BY DEF Posedge, DutPosedge
  <2>2. QED
    BY <2>1, VldMeans
<1>5. data_vld'[c] \in BOOLEAN
  BY PosedgeIInv DEF IInv, Types
<1>6. PICK delay \in [{x \in Chan : RxWakes(x)} -> RespDelays] :
        rx'[c] = CASE RxWakes(c) ->
                        [pc |-> "respond", left |-> delay[c], delay |-> delay[c]]
                   [] rx[c].pc = "drain" /\ ~data_vld'[c] ->
                        [rx[c] EXCEPT !.pc = "finish"]
                   [] OTHER -> rx[c]
  BY DEF Posedge, RxPosedges
<1>7. CASE RxWakes(c)
  <2>1. rx'[c] = [pc |-> "respond", left |-> delay[c], delay |-> delay[c]]
    BY <1>6, <1>7 DEF RxWakes
  <2>2. delay[c] \in Nat
    BY <1>7, RespDelaysAssumption
  <2>3. rx'[c] \in RxType /\ rx'[c].pc = "respond"
    BY <2>1, <2>2 DEF RxType
  <2>4. suspend[c] /\ MoreThanOne(c)
    BY <1>1, <1>7 DEF Receiver, RxWakes
  <2>5. QED
    BY <1>2, <1>3, <1>4, <2>3, <2>4 DEF Receiver
<1>8. CASE rx[c].pc = "drain" /\ ~data_vld'[c]
  <2>1. rx'[c] = [rx[c] EXCEPT !.pc = "finish"]
    BY <1>6, <1>8 DEF RxWakes
  <2>2. rx'[c] \in RxType /\ rx'[c].pc = "finish"
    BY <1>1, <2>1 DEF RxType
  <2>3. suspend[c] = FALSE /\ Count(queue[c]) > 0
    BY <1>1, <1>8 DEF Receiver
  <2>4. Count(queue[c]) = 1 /\ ~Loading(c)
    BY <1>4, <1>8, <2>3, QueueFacts, DepthAssumption DEF MoreThanOne
  <2>5. QED
    BY <1>1, <1>2, <1>3, <1>5, <1>8, <2>2, <2>3, <2>4 DEF Receiver
<1>9. CASE ~RxWakes(c) /\ ~(rx[c].pc = "drain" /\ ~data_vld'[c])
  <2>1. rx'[c] = rx[c]
    BY <1>6, <1>9
  <2>2. rx[c].pc # "finish"
    BY <1>1 DEF Receiver
  <2>3. rx[c].pc = "respond" => MoreThanOne(c)
    BY <1>1 DEF Receiver
  <2>4. rx[c].pc = "drain" => data_vld'[c] /\ Count(queue[c]) > 0
    BY <1>1, <1>9 DEF Receiver
  <2>5. QED
    BY <1>1, <1>2, <1>3, <1>4, <2>1, <2>2, <2>3, <2>4 DEF Receiver
<1>10. QED
  BY <1>7, <1>8, <1>9

\* The receiver wakes with two bytes in the buffer at the most.
LEMMA PacePosedge ==
  ASSUME IInv, Flow, Posedge, NEW c \in Chan
  PROVE  Pace(c)'
<1>1. SUFFICES ASSUME Loading(c)' PROVE Pace(c)'
  BY DEF Pace
<1>2. /\ Pace(c) /\ Receiver(c) /\ clock = 0 /\ clock' = 1 /\ queue' = queue
      /\ state_r' = state_r /\ dest_chan_r' = dest_chan_r
      /\ Count(queue[c]) \in Nat
  BY QueueFacts, DepthAssumption DEF Posedge, DutPosedge, dutVars, Flow, Channel
<1>3. Loading(c)
  BY <1>1, <1>2 DEF Loading
<1>4. data_vld'[c]
  <2>1. data_vld'[c] = Vld(queue[c], write_enb(c, max_pkt_reg))
    BY DEF Posedge, DutPosedge
  <2>2. QED
    BY <1>3, <2>1, VldMeans DEF MoreThanOne
<1>5. PICK delay \in [{x \in Chan : RxWakes(x)} -> RespDelays] :
        rx'[c] = CASE RxWakes(c) ->
                        [pc |-> "respond", left |-> delay[c], delay |-> delay[c]]
                   [] rx[c].pc = "drain" /\ ~data_vld'[c] ->
                        [rx[c] EXCEPT !.pc = "finish"]
                   [] OTHER -> rx[c]
  BY DEF Posedge, RxPosedges
<1>6. CASE RxWakes(c)
  <2>1. rx'[c] = [pc |-> "respond", left |-> delay[c], delay |-> delay[c]]
    BY <1>5, <1>6 DEF RxWakes
  <2>2. delay[c] \in RespDelays /\ delay[c] \in Nat
    BY <1>6, RespDelaysAssumption
  <2>3. Count(queue[c]) <= 2
    BY <1>2, <1>3, <1>6 DEF Pace, RxWakes
  <2>4. Count(queue[c]) + delay[c] <= delay[c] + 2
    BY <1>2, <2>2, <2>3
  <2>5. QED
    BY <1>2, <1>4, <2>1, <2>2, <2>4 DEF Pace
<1>7. CASE ~RxWakes(c)
  <2>1. rx'[c] = rx[c]
    BY <1>4, <1>5, <1>7
  <2>2. rx[c].pc = "wait" => ~data_vld[c]
    BY <1>7 DEF RxWakes
  <2>3. rx[c].pc = "wait" => Count(queue[c]) <= 1
    BY <1>2, <1>3, <2>2 DEF Pace
  <2>4. QED
    BY <1>2, <1>3, <1>4, <2>1, <2>3 DEF Pace
<1>8. QED
  BY <1>6, <1>7

-----------------------------------------------------------------------------
(***************************************************************************)
(* The invariant of the flow, and what follows from it.                    *)
(***************************************************************************)
LEMMA InitFlow == ASSUME Init PROVE Flow
<1>1. /\ state_r = "HEADER_WAIT" /\ max_pkt_reg = DefMaxPkt
      /\ queue = [c \in Chan |-> PowerUp]
      /\ suspend = [c \in Chan |-> TRUE] /\ data_vld = [c \in Chan |-> FALSE]
      /\ rx = [c \in Chan |-> RxIdle]
      /\ hbus = HbusIdle /\ host = "idle"
  BY DEF Init, DutInit, IfInit, ChanInit, Port!Init
<1>2. HostState
  BY <1>1 DEF HostState, HbusIdle
<1>3. ASSUME NEW c \in Chan PROVE Channel(c)
  <2>1. queue[c] = PowerUp /\ suspend[c] = TRUE /\ data_vld[c] = FALSE
        /\ rx[c] = RxIdle
    BY <1>1
  <2>2. FlagsExact(PowerUp) /\ Count(PowerUp) = 0
    BY DEF FlagsExact, Count, PowerUp
  <2>3. ~Loading(c)
    BY <1>1 DEF Loading
  <2>4. RxIdle \in RxType /\ RxIdle.pc = "wait"
    BY DEF RxIdle, RxType
  <2>5. QED
    BY <2>1, <2>2, <2>3, <2>4
       DEF Channel, BufferLoading, BufferLoaded, Receiver, Pace
<1>4. QED
  BY <1>1, <1>2, <1>3 DEF Flow

LEMMA NegedgeFlow ==
  ASSUME IInv, Flow, WritesHarmless, ParityFits, Negedge
  PROVE  Flow'
<1>1. HostState'
  BY HostStateStep
<1>2. (state_r = "DATA_LOAD" => dest_chan_r \in Chan)'
  BY DestIsChannel DEF Negedge
<1>3. ASSUME NEW c \in Chan PROVE Channel(c)'
  <2>1. FlagsExact(queue'[c]) /\ BufferNext(c)
    BY BufferStep
  <2>2. Receiver(c)'
    BY <2>1, ReceiverNegedge
  <2>3. QED
    BY <2>1, <2>2, PaceNegedge DEF Channel, BufferNext
<1>4. QED
  BY <1>1, <1>2, <1>3 DEF Flow

LEMMA PosedgeFlow == ASSUME IInv, Flow, Posedge PROVE Flow'
<1>1. /\ drv' = drv /\ host' = host /\ hbus' = hbus /\ suspend' = suspend
      /\ in_data' = in_data
      /\ queue' = queue /\ max_pkt_reg' = max_pkt_reg
      /\ state_r' = state_r /\ dest_chan_r' = dest_chan_r
  BY DEF Posedge, RxPosedges, DutPosedge, dutVars
<1>2. HostState'
  BY <1>1 DEF Flow, HostState
<1>3. ASSUME NEW c \in Chan PROVE Channel(c)'
  <2>1. FlagsExact(queue[c]) /\ BufferLoading(c) /\ BufferLoaded(c)
    BY QueueFacts
  <2>2. Loading(c)' <=> Loading(c)
    BY <1>1 DEF Loading
  <2>3. BufferLoading(c)' /\ BufferLoaded(c)'
    BY <1>1, <2>1, <2>2 DEF BufferLoading, BufferLoaded
  <2>4. QED
    BY <1>1, <2>1, <2>3, ReceiverPosedge, PacePosedge DEF Channel
<1>4. QED
  BY <1>1, <1>2, <1>3 DEF Flow

LEMMA StutterFlow == ASSUME Flow, UNCHANGED vars PROVE Flow'
<1>1. /\ drv' = drv /\ host' = host /\ hbus' = hbus /\ suspend' = suspend
      /\ in_data' = in_data /\ data_vld' = data_vld /\ rx' = rx /\ clock' = clock
      /\ queue' = queue /\ max_pkt_reg' = max_pkt_reg
      /\ state_r' = state_r /\ dest_chan_r' = dest_chan_r
  BY DEF vars, ifVars, dutVars, yappVars, chanVars
<1>2. QED
  BY <1>1 DEF Flow, HostState, Channel, BufferLoading, BufferLoaded, Receiver,
              Pace, MoreThanOne, Loading

\* The buffers hold what the invariant says, whatever the receivers' delays.
THEOREM FlowInductive ==
  ASSUME WritesHarmless, ParityFits PROVE Spec => [](IInv /\ Flow)
<1>1. Init => IInv /\ Flow
  BY InitIInv, InitFlow
<1>2. IInv /\ Flow /\ [Next]_vars => (IInv /\ Flow)'
  <2>1. ASSUME IInv, Flow, Negedge PROVE (IInv /\ Flow)'
    BY <2>1, NegedgeIInv, NegedgeFlow
  <2>2. ASSUME IInv, Flow, Posedge PROVE (IInv /\ Flow)'
    BY <2>2, PosedgeIInv, PosedgeFlow
  <2>3. ASSUME IInv, Flow, UNCHANGED vars PROVE (IInv /\ Flow)'
    BY <2>3, StutterIInv, StutterFlow
  <2>4. QED
    BY <2>1, <2>2, <2>3 DEF Next
<1>3. QED
  BY <1>1, <1>2, PTL DEF Spec

\* The first and the last byte of a run, and the bytes counted from the first.
LEMMA RunShape ==
  ASSUME NEW S, NEW q \in Seq(S), Len(q) > 0, NEW p, NEW last \in Int,
         Run(q, p, last)
  PROVE  /\ q[1].pkt = p
         /\ q[Len(q)] = ByteOf(p, last)
         /\ \A i \in 2 .. Len(q) : q[i] = ByteOf(q[1].pkt, q[1].pos + i - 1)
<1> DEFINE n == Len(q)
<1>1. n \in Nat
  OBVIOUS
<1>2. \A i \in 1 .. n : q[i] = ByteOf(p, last - n + i)
  BY DEF Run
<1>3. q[1] = ByteOf(p, last - n + 1) /\ q[n] = ByteOf(p, last - n + n)
  BY <1>1, <1>2
<1>4. q[1].pkt = p /\ q[1].pos = last - n + 1
  BY <1>3 DEF ByteOf
<1>5. last - n + n = last
  BY <1>1
<1>6. ASSUME NEW i \in 2 .. n PROVE q[i] = ByteOf(q[1].pkt, q[1].pos + i - 1)
  <2>1. last - n + i = q[1].pos + i - 1 /\ i \in 1 .. n
    BY <1>1, <1>4
  <2>2. QED
    BY <1>2, <1>4, <2>1
<1>7. QED
  BY <1>3, <1>4, <1>5, <1>6

LEMMA FlowBuffers == ASSUME IInv, Flow PROVE BuffersHoldOnePacket
<1> SUFFICES ASSUME NEW c \in Chan, Len(Contents(queue[c])) > 0
             PROVE  LET q == Contents(queue[c])
                        n == Len(q)
                    IN  /\ q[1].pkt.addr = c
                        /\ \A i \in 2 .. n : q[i] = ByteOf(q[1].pkt, q[1].pos + i - 1)
                        /\ IsParity(q[n]) \/ /\ state_r = "DATA_LOAD" /\ dest_chan_r = c
                                             /\ in_data = ByteOf(q[n].pkt, q[n].pos + 1)
  BY DEF BuffersHoldOnePacket
<1> DEFINE q == Contents(queue[c])
           n == Len(q)
<1>1. /\ q \in Seq(Slot) /\ n = Count(queue[c])
      /\ BufferLoading(c) /\ BufferLoaded(c)
  BY QueueFacts
<1>2. CASE Loading(c)
  <2>1. /\ drv.pc # "idle" /\ drv.pkt.addr = c
        /\ Run(q, drv.pkt, in_data.pos - 1)
    BY <1>1, <1>2 DEF BufferLoading
  <2>2. /\ in_data.pos \in Int /\ in_data.pos - 1 \in Int
        /\ in_data = ByteOf(drv.pkt, in_data.pos)
    BY <2>1, BusByte, PacketFacts
  <2>3. /\ q[1].pkt = drv.pkt /\ q[n] = ByteOf(drv.pkt, in_data.pos - 1)
        /\ \A i \in 2 .. n : q[i] = ByteOf(q[1].pkt, q[1].pos + i - 1)
    BY <1>1, <2>1, <2>2, RunShape
  <2>4. q[n].pkt = drv.pkt /\ q[n].pos + 1 = in_data.pos
    BY <2>2, <2>3 DEF ByteOf
  <2>5. QED
    BY <1>2, <2>1, <2>2, <2>3, <2>4 DEF Loading
<1>3. CASE ~Loading(c)
  <2>1. PICK p \in Packets : p.addr = c /\ Run(q, p, p.length + 1)
    BY <1>1, <1>3 DEF BufferLoaded
  <2>2. p.length + 1 \in Int
    BY <2>1, PacketFacts
  <2>3. /\ q[1].pkt = p /\ q[n] = ByteOf(p, p.length + 1)
        /\ \A i \in 2 .. n : q[i] = ByteOf(q[1].pkt, q[1].pos + i - 1)
    BY <1>1, <2>1, <2>2, RunShape
  <2>4. IsParity(q[n])
    BY <2>3 DEF IsParity, ByteOf
  <2>5. QED
    BY <2>1, <2>3, <2>4
<1>4. QED
  BY <1>2, <1>3

\* No byte is lost, doubled or left behind, however long the receivers delay
\* and however long the packets are beside the buffers (yapp_router.v:134-169,
\* 252-282).
THEOREM BuffersCorrect ==
  ASSUME WritesHarmless, ParityFits PROVE Spec => []BuffersHoldOnePacket
<1>1. IInv /\ Flow => BuffersHoldOnePacket
  BY FlowBuffers
<1>2. QED
  BY <1>1, FlowInductive, PTL

\* The port is not suspended while the parity byte is on the bus.
LEMMA ReleaseUnheld ==
  ASSUME IInv, Flow, ParityFits, drv.pc = "release"
  PROVE  in_suspend = FALSE
<1>1. state_r \in {"DATA_LOAD", "DUMP_PKT"} /\ in_data_vld = FALSE
  BY DEF IInv, AtParity, Types, FsmState
<1>2. CASE state_r = "DUMP_PKT"
  BY <1>2 DEF in_suspend
<1>3. CASE state_r = "DATA_LOAD"
  <2>1. dest_chan_r \in Chan /\ Loading(dest_chan_r) /\ dest_chan = dest_chan_r
    BY <1>3 DEF Flow, Loading, dest_chan, HeaderValid
  <2>2. ~queue[dest_chan_r].tmp_full
    BY <1>1, <2>1, RoomForParity
  <2>3. QED
    BY <1>3, <2>1, <2>2 DEF in_suspend, hold
<1>4. QED
  BY <1>1, <1>2, <1>3

\* The driver gives the bus up only when the router is not suspended.
LEMMA HeldStep ==
  ASSUME IInv, Flow, ParityFits, Negedge, in_suspend
  PROVE  UNCHANGED <<in_data, in_data_vld>>
<1>1. DrvNegedge(in_suspend)
  BY DEF Negedge
<1>2. CASE DrvRelease
  <2>1. drv.pc = "release"
    BY <1>2 DEF DrvRelease
  <2>2. QED
    BY <2>1, ReleaseUnheld
<1>3. CASE ~DrvRelease
  BY <1>1, <1>3
     DEF DrvNegedge, DrvIdle, DrvHeader, DrvPayload, DrvParity, DrvBlocked
<1>4. QED
  BY <1>2, <1>3

\* The driver, which does not look at in_suspend when it ends a packet, never
\* takes a byte off the bus that the router has not taken.
THEOREM HeldCorrect ==
  ASSUME WritesHarmless, ParityFits PROVE Spec => HeldWhileSuspended
<1>1. IInv /\ Flow /\ [Next]_vars =>
        [Negedge /\ in_suspend => UNCHANGED <<in_data, in_data_vld>>]_vars
  BY HeldStep
<1>2. QED
  BY <1>1, FlowInductive, PTL DEF Spec, HeldWhileSuspended
=============================================================================
