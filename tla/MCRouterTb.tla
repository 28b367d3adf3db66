----------------------------- MODULE MCRouterTb -----------------------------
(***************************************************************************)
(* Instances of RouterTb.  The buffers have four slots instead of sixteen; *)
(* a packet of n payload bytes occupies n + 2 of them.                     *)
(***************************************************************************)
EXTENDS RouterTb

Kind(a, n, g) == [addr |-> a, length |-> n, good |-> g]
Write0(d) == [haddr |-> MAX_PKT_ADDR, hdata |-> d]
Write1(d) == [haddr |-> ENABLE_ADDR, hdata |-> d]

Bytes(kinds) ==
  UNION {{ByteOf([id |-> k, addr |-> x.addr, length |-> x.length,
                  good |-> x.good], i) : i \in 0 .. x.length + 1} :
         x \in kinds, k \in 1 .. MaxPackets}

\* A packet that just fits, one that overflows the buffer and has bad parity,
\* one for a second channel, one for the address without a channel.
LongKinds == {Kind(0, 2, TRUE), Kind(0, 5, FALSE), Kind(1, 1, TRUE),
              Kind(3, 1, TRUE)}
LongBytes == Bytes(LongKinds)
LongWrites == {Write0(1), Write0(63), Write1(1)}

\* Lengths around a depth of six, for receivers that answer soon, and
\* register writes that change no packet's fate (test_ovc_integration).
ShortKinds == {Kind(0, 4, FALSE), Kind(0, 5, TRUE), Kind(1, 6, TRUE)}
ShortBytes == Bytes(ShortKinds)
ShortWrites == {Write0(6), Write1(1)}

\* A packet with one byte less than the buffer has slots.
TightKinds == {Kind(0, 3, TRUE), Kind(1, 1, FALSE)}
TightBytes == Bytes(TightKinds)

NoWrites      == {}
DisableWrites == {Write1(0)}
LowerWrites   == {Write0(1)}
WideWrites    == {Write0(65)}
=============================================================================
