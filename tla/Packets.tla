------------------------------ MODULE Packets -------------------------------
(***************************************************************************)
(* YAPP packets and the bytes they are sent as (yapp_packet.sv).           *)
(*                                                                         *)
(* A byte is known by the packet it came from and its position: 0 is the   *)
(* header {length, addr}, 1 .. length the payload, length + 1 the parity   *)
(* byte.  The values of payload bytes are irrelevant; which byte of which  *)
(* packet stands where is what every property is about.  Accordingly an    *)
(* exclusive-or of bytes is the set of the bytes that occur an odd number  *)
(* of times in it.                                                         *)
(***************************************************************************)
EXTENDS Integers, Sequences

CONSTANTS Chan,        \* addresses with an output channel, 0 .. 2
          MaxLength    \* the largest payload of the instance (63)

IllegalAddr == 3

ASSUME ChanAssumption == 0 \in Chan /\ IllegalAddr \notin Chan
ASSUME MaxLengthAssumption == MaxLength \in Nat \ {0}

\* parity_type is GOOD_PARITY or BAD_PARITY; id counts the packets sent.
PacketType == [id : Nat, addr : Chan \cup {IllegalAddr},
               length : 1 .. MaxLength, good : BOOLEAN]

ByteOf(p, i)  == [pkt |-> p, pos |-> i]
Header(p)     == ByteOf(p, 0)
ParityByte(p) == ByteOf(p, p.length + 1)

IsHeader(b) == b.pos = 0
IsParity(b) == b.pos = b.pkt.length + 1

\* The length field of a byte read as a header; in a byte that is no header
\* those bits are arbitrary.
LengthField(b) == IF IsHeader(b) THEN {b.pkt.length} ELSE 1 .. MaxLength

-----------------------------------------------------------------------------
Xor(acc, b) == IF b \in acc THEN acc \ {b} ELSE acc \cup {b}

CalcParity(p) == {ByteOf(p, i) : i \in 0 .. p.length}

\* acc # parity byte b: set_parity adds one to the sum of a BAD_PARITY packet.
ParityDiffers(acc, b) ==
  ~(IsParity(b) /\ b.pkt.good /\ acc = CalcParity(b.pkt))
=============================================================================
