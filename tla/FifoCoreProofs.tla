--------------------------- MODULE FifoCoreProofs ---------------------------
(***************************************************************************)
(* Lemmas about the registers of one channel buffer, for every depth of at *)
(* least two slots and every set of byte values.  Fifo and RouterTb are    *)
(* built from the same record, and their proofs from these lemmas.         *)
(***************************************************************************)
EXTENDS FifoCore, SequenceTheorems, TLAPS

\* The successor of a slot is another slot (yapp_router.v:139-144).
LEMMA IncInPtr == ASSUME NEW p \in Ptr PROVE Inc(p) \in Ptr /\ Inc(p) # p
  BY DepthAssumption DEF Ptr, Inc

\* The flags tell the two meetings of the pointers apart.
FlagsExact(f) ==
  /\ f.tmp_empty => f.write_ptr = f.read_ptr /\ ~f.tmp_full
  /\ f.tmp_full  => f.write_ptr = f.read_ptr
  /\ f.write_ptr = f.read_ptr => f.tmp_empty \/ f.tmp_full

\* The branches of fifo_core keep the type.
LEMMA ClockedType ==
  ASSUME NEW f \in FifoState, NEW w \in BOOLEAN, NEW r \in BOOLEAN,
         NEW d \in Slot
  PROVE  Clocked(f, w, r, d) \in FifoState
<1>1. Inc(f.write_ptr) \in Ptr /\ Inc(f.read_ptr) \in Ptr
  BY IncInPtr DEF FifoState
<1>2. [f.ram EXCEPT ![f.write_ptr] = d] \in [Ptr -> Slot]
  BY DEF FifoState
<1>3. ReadWrite(f, d) \in FifoState
  BY <1>1, <1>2 DEF ReadWrite, FifoState
<1>4. Write(f, d) \in FifoState
  BY <1>1, <1>2 DEF Write, FifoState
<1>5. Read(f) \in FifoState
  BY <1>1 DEF Read, FifoState
<1>6. QED
  BY <1>3, <1>4, <1>5 DEF Clocked

\* The branches of fifo_core keep the flags exact.
LEMMA ClockedFlags ==
  ASSUME NEW f \in FifoState, NEW w \in BOOLEAN, NEW r \in BOOLEAN,
         NEW d \in Slot, FlagsExact(f)
  PROVE  FlagsExact(Clocked(f, w, r, d))
<1>0. f.write_ptr \in Ptr /\ f.read_ptr \in Ptr
  BY DEF FifoState
<1>1. FlagsExact(ReadWrite(f, d))
  BY <1>0, DepthAssumption DEF ReadWrite, FifoState, FlagsExact, Inc, Ptr
<1>2. FlagsExact(Write(f, d))
  BY <1>0, DepthAssumption DEF Write, FifoState, FlagsExact, Inc, Ptr
<1>3. FlagsExact(Read(f))
  BY <1>0, DepthAssumption DEF Read, FifoState, FlagsExact, Inc, Ptr
<1>4. QED
  BY <1>1, <1>2, <1>3 DEF Clocked

\* Reset leaves an empty buffer of the right type.
LEMMA ClearedOK ==
  ASSUME NEW f \in FifoState
  PROVE  Cleared(f) \in FifoState /\ FlagsExact(Cleared(f))
<1>1. 0 \in Ptr
  BY DepthAssumption DEF Ptr
<1>2. Cleared(f) \in FifoState
  BY <1>1 DEF Cleared, FifoState
<1>3. FlagsExact(Cleared(f))
  BY DEF Cleared, FifoState, FlagsExact
<1>4. QED
  BY <1>2, <1>3

\* A read in a cycle in which data_vld could be raised leaves a byte behind.
LEMMA VldLeavesOne ==
  ASSUME NEW f \in FifoState, NEW w \in BOOLEAN, NEW r \in BOOLEAN,
         NEW d \in Slot, Vld(f, w)
  PROVE  ~Clocked(f, w, r, d).tmp_empty
  BY DEF Clocked, ReadWrite, Write, Read, Vld, AlmostEmpty, FifoState

-----------------------------------------------------------------------------
(***************************************************************************)
(* Positions in the circular buffer.                                       *)
(***************************************************************************)

\* A position counted from a slot is a slot.
LEMMA AheadInPtr ==
  ASSUME NEW p \in Ptr, NEW i \in Ptr
  PROVE  Ahead(p, i) \in Ptr
  BY DepthAssumption DEF Ptr, Ahead

\* Different distances from a slot lead to different slots.
LEMMA AheadInjective ==
  ASSUME NEW p \in Ptr, NEW i \in Ptr, NEW j \in Ptr, Ahead(p, i) = Ahead(p, j)
  PROVE  i = j
  BY DepthAssumption DEF Ptr, Ahead

\* Counting from the successor is counting one further.
LEMMA AheadOfInc ==
  ASSUME NEW p \in Ptr, NEW i \in Ptr, i + 1 \in Ptr
  PROVE  Ahead(Inc(p), i) = Ahead(p, i + 1)
  BY DepthAssumption DEF Ptr, Ahead, Inc

\* With exact flags the pointers determine the number of bytes.
LEMMA CountFacts ==
  ASSUME NEW f \in FifoState, FlagsExact(f)
  PROVE  /\ Count(f) \in 0 .. Depth
         /\ f.tmp_empty <=> Count(f) = 0
         /\ f.tmp_full <=> Count(f) = Depth
         /\ ~f.tmp_full => Ahead(f.read_ptr, Count(f)) = f.write_ptr
  BY DepthAssumption DEF FifoState, FlagsExact, Count, Ptr, Ahead

\* The contents as a sequence, and its head.
LEMMA ContentsFacts ==
  ASSUME NEW f \in FifoState, FlagsExact(f)
  PROVE  /\ Contents(f) \in Seq(Slot)
         /\ Len(Contents(f)) = Count(f)
         /\ Contents(f) = << >> <=> f.tmp_empty
         /\ ~f.tmp_empty => Head(Contents(f)) = f.ram[f.read_ptr]
<1>1. Count(f) \in 0 .. Depth /\ (f.tmp_empty <=> Count(f) = 0)
  BY CountFacts
<1>2. \A i \in 1 .. Count(f) : f.ram[Ahead(f.read_ptr, i - 1)] \in Slot
  <2> TAKE i \in 1 .. Count(f)
  <2>1. i - 1 \in Ptr
    BY <1>1, DepthAssumption DEF Ptr
  <2>2. Ahead(f.read_ptr, i - 1) \in Ptr
    BY <2>1, AheadInPtr DEF FifoState
  <2>3. QED
    BY <2>2 DEF FifoState
<1>3. Contents(f) \in Seq(Slot) /\ Len(Contents(f)) = Count(f)
  BY <1>1, <1>2, DepthAssumption DEF Contents
<1>4. Contents(f) = << >> <=> f.tmp_empty
  BY <1>1, <1>3
<1>5. ASSUME ~f.tmp_empty PROVE Head(Contents(f)) = f.ram[f.read_ptr]
  <2>1. 1 \in 1 .. Count(f) /\ Ahead(f.read_ptr, 0) = f.read_ptr
    BY <1>1, <1>5, DepthAssumption DEF FifoState, Ptr, Ahead
  <2>2. Contents(f)[1] = f.ram[f.read_ptr]
    BY <2>1 DEF Contents
  <2>3. QED
    BY <1>3, <1>5, <1>4, <2>2
<1>6. QED
  BY <1>3, <1>4, <1>5

\* The contents element by element.
LEMMA ContentsAt ==
  ASSUME NEW f \in FifoState, FlagsExact(f), NEW i \in 1 .. Count(f)
  PROVE  /\ i - 1 \in Ptr
         /\ Ahead(f.read_ptr, i - 1) \in Ptr
         /\ Contents(f)[i] = f.ram[Ahead(f.read_ptr, i - 1)]
<1>1. i - 1 \in Ptr
  BY CountFacts, DepthAssumption DEF Ptr
<1>2. Ahead(f.read_ptr, i - 1) \in Ptr
  BY <1>1, AheadInPtr DEF FifoState
<1>3. QED
  BY <1>1, <1>2 DEF Contents

-----------------------------------------------------------------------------
(***************************************************************************)
(* What each branch of fifo_core does to the contents.                     *)
(***************************************************************************)

\* A write appends, unless the buffer is full (yapp_router.v:147-157).
LEMMA WriteContents ==
  ASSUME NEW f \in FifoState, FlagsExact(f), NEW d \in Slot
  PROVE  Contents(Write(f, d)) =
           IF f.tmp_full THEN Contents(f) ELSE Append(Contents(f), d)
<1> DEFINE g == Write(f, d)
           n == Count(f)
<1>1. g \in FifoState /\ FlagsExact(g)
  BY ClockedType, ClockedFlags DEF Clocked
<1>2. CASE f.tmp_full
  <2>1. g = f
    BY <1>2, DepthAssumption DEF Write, FlagsExact, FifoState, Inc, Ptr
  <2>2. QED
    BY <1>2, <2>1
<1>3. CASE ~f.tmp_full
  <2>1. /\ g.read_ptr = f.read_ptr
        /\ g.ram = [f.ram EXCEPT ![f.write_ptr] = d]
        /\ g.write_ptr = Inc(f.write_ptr)
        /\ g.tmp_full <=> f.read_ptr = Inc(f.write_ptr)
    BY <1>3 DEF Write, FifoState
  <2>2. n \in 0 .. Depth - 1 /\ Ahead(f.read_ptr, n) = f.write_ptr
    BY <1>3, CountFacts, DepthAssumption
  <2>3. Count(g) = n + 1
    <3>1. /\ f.write_ptr \in Ptr /\ f.read_ptr \in Ptr
          /\ f.write_ptr = f.read_ptr => n = 0
          /\ f.write_ptr # f.read_ptr =>
               n = IF f.write_ptr > f.read_ptr
                   THEN f.write_ptr - f.read_ptr
                   ELSE f.write_ptr - f.read_ptr + Depth
      BY <1>3, DepthAssumption DEF Count, FifoState, Ptr
    <3>2. Count(g) = IF f.read_ptr = Inc(f.write_ptr) THEN Depth
                     ELSE IF Inc(f.write_ptr) >= f.read_ptr
                          THEN Inc(f.write_ptr) - f.read_ptr
                          ELSE Inc(f.write_ptr) - f.read_ptr + Depth
      BY <2>1 DEF Count
    <3>3. QED
      BY <3>1, <3>2, DepthAssumption DEF Inc, Ptr
  <2>4. ASSUME NEW i \in 1 .. n + 1
        PROVE  Contents(g)[i] = Append(Contents(f), d)[i]
    <3>0. i \in 1 .. Count(g)
      BY <2>3
    <3>1. /\ Contents(g)[i] = g.ram[Ahead(f.read_ptr, i - 1)]
          /\ i - 1 \in Ptr
          /\ Ahead(f.read_ptr, i - 1) \in Ptr
      <4>1. /\ Contents(g)[i] = g.ram[Ahead(g.read_ptr, i - 1)]
            /\ i - 1 \in Ptr
            /\ Ahead(g.read_ptr, i - 1) \in Ptr
        BY <1>1, <3>0, ContentsAt
      <4>2. QED
        BY <2>1, <4>1
    <3>2. CASE i = n + 1
      <4>1. Contents(g)[i] = d
        <5>1. i - 1 = n
          BY <2>2, <3>2, DepthAssumption
        <5>2. QED
          BY <2>1, <2>2, <3>1, <5>1 DEF FifoState
      <4>2. Append(Contents(f), d)[i] = d
        BY <2>2, <3>2, ContentsFacts, DepthAssumption
      <4>3. QED
        BY <4>1, <4>2
    <3>3. CASE i \in 1 .. n
      <4>1. Ahead(f.read_ptr, i - 1) # f.write_ptr
        BY <2>2, <3>1, <3>3, AheadInjective, DepthAssumption DEF Ptr, FifoState
      <4>2. Contents(g)[i] = Contents(f)[i]
        BY <2>1, <3>1, <3>3, <4>1, ContentsAt DEF FifoState
      <4>3. Append(Contents(f), d)[i] = Contents(f)[i]
        BY <2>2, <3>3, ContentsFacts, DepthAssumption
      <4>4. QED
        BY <4>2, <4>3
    <3>4. i = n + 1 \/ i \in 1 .. n
      BY <2>2, <2>4, DepthAssumption
    <3>5. QED
      BY <3>2, <3>3, <3>4
  <2>5. /\ Contents(g) \in Seq(Slot)
        /\ Append(Contents(f), d) \in Seq(Slot)
        /\ Len(Contents(g)) = n + 1
        /\ Len(Append(Contents(f), d)) = n + 1
    BY <1>1, <2>2, <2>3, ContentsFacts
  <2>6. Contents(g) = Append(Contents(f), d)
    BY <2>4, <2>5, SeqEqual
  <2>7. QED
    BY <1>3, <2>6
<1>4. QED
  BY <1>2, <1>3

\* A read removes the head, unless the buffer is empty (158-169).
LEMMA ReadContents ==
  ASSUME NEW f \in FifoState, FlagsExact(f)
  PROVE  Contents(Read(f)) =
           IF f.tmp_empty THEN Contents(f) ELSE Tail(Contents(f))
<1> DEFINE g == Read(f)
           n == Count(f)
<1>1. g \in FifoState /\ FlagsExact(g)
  <2>1. NoByte \in Slot
    BY DEF Slot
  <2>2. QED
    BY <2>1, ClockedType, ClockedFlags DEF Clocked
<1>2. CASE f.tmp_empty
  <2>1. g = f
    BY <1>2 DEF Read, FlagsExact, FifoState
  <2>2. QED
    BY <1>2, <2>1
<1>3. CASE ~f.tmp_empty
  <2>1. /\ g.read_ptr = Inc(f.read_ptr) /\ g.write_ptr = f.write_ptr
        /\ g.ram = f.ram /\ ~g.tmp_full
    BY <1>3 DEF Read, FifoState
  <2>2. n \in 1 .. Depth
    BY <1>3, CountFacts, DepthAssumption
  <2>3. Count(g) = n - 1
    BY <1>3, <2>1, DepthAssumption DEF Count, Inc, Ptr, FifoState, FlagsExact
  <2>4. /\ Tail(Contents(f)) \in Seq(Slot)
        /\ Len(Tail(Contents(f))) = n - 1
        /\ \A i \in 1 .. n - 1 : Tail(Contents(f))[i] = Contents(f)[i + 1]
    BY <1>3, <2>2, ContentsFacts, HeadTailProperties
  <2>5. ASSUME NEW i \in 1 .. n - 1
        PROVE  Contents(g)[i] = Contents(f)[i + 1]
    <3>1. Contents(g)[i] = f.ram[Ahead(Inc(f.read_ptr), i - 1)]
          /\ i - 1 \in Ptr
      BY <1>1, <2>1, <2>3, ContentsAt
    <3>2. Contents(f)[i + 1] = f.ram[Ahead(f.read_ptr, i)] /\ i \in Ptr
      BY <2>2, ContentsAt DEF Ptr
    <3>3. QED
      BY <3>1, <3>2, AheadOfInc DEF FifoState
  <2>6. Contents(g) \in Seq(Slot) /\ Len(Contents(g)) = n - 1
    BY <1>1, <2>3, ContentsFacts
  <2>7. Contents(g) = Tail(Contents(f))
    BY <2>4, <2>5, <2>6, SeqEqual
  <2>8. QED
    BY <1>3, <2>7
<1>4. QED
  BY <1>2, <1>3

\* A read and a write at one edge (134-146).
LEMMA ReadWriteContents ==
  ASSUME NEW f \in FifoState, FlagsExact(f), NEW d \in Slot
  PROVE  Contents(ReadWrite(f, d)) =
           IF f.tmp_empty THEN <<d>> ELSE Append(Tail(Contents(f)), d)
<1> DEFINE g == ReadWrite(f, d)
           n == Count(f)
<1>1. g \in FifoState /\ FlagsExact(g)
  BY ClockedType, ClockedFlags DEF Clocked
<1>2. CASE f.tmp_empty
  <2>1. g.ram[f.write_ptr] = d /\ g.read_ptr = f.write_ptr
        /\ g.write_ptr = Inc(f.write_ptr) /\ ~g.tmp_full
    BY <1>2 DEF ReadWrite, FifoState, FlagsExact
  <2>2. Count(g) = 1
    BY <2>1, DepthAssumption DEF Count, Inc, FifoState, Ptr
  <2>3. Ahead(g.read_ptr, 0) = g.read_ptr
    BY <1>1, DepthAssumption DEF Ahead, FifoState, Ptr
  <2>4. Contents(g)[1] = d
    BY <1>1, <2>1, <2>2, <2>3, ContentsAt
  <2>5. Contents(g) \in Seq(Slot) /\ Len(Contents(g)) = 1
    BY <1>1, <2>2, ContentsFacts
  <2>6. Contents(g) = <<d>>
    BY <2>4, <2>5, SeqEqual
  <2>7. QED
    BY <1>2, <2>6
<1>3. CASE ~f.tmp_empty
  <2>1. /\ g.read_ptr = Inc(f.read_ptr)
        /\ g.ram = [f.ram EXCEPT ![f.write_ptr] = d]
        /\ g.write_ptr = Inc(f.write_ptr)
        /\ g.tmp_full = f.tmp_full
    BY <1>3 DEF ReadWrite, FifoState
  <2>2. n \in 1 .. Depth
    BY <1>3, CountFacts, DepthAssumption
  <2>3. Count(g) = n
    BY <1>3, <2>1, DepthAssumption DEF Count, Inc, Ptr, FifoState, FlagsExact
  <2>4. /\ Tail(Contents(f)) \in Seq(Slot)
        /\ Len(Tail(Contents(f))) = n - 1
        /\ \A i \in 1 .. n - 1 : Tail(Contents(f))[i] = Contents(f)[i + 1]
    BY <1>3, <2>2, ContentsFacts, HeadTailProperties
  <2>5. /\ Append(Tail(Contents(f)), d) \in Seq(Slot)
        /\ Len(Append(Tail(Contents(f)), d)) = n
        /\ \A i \in 1 .. n - 1 :
             Append(Tail(Contents(f)), d)[i] = Contents(f)[i + 1]
        /\ Append(Tail(Contents(f)), d)[n] = d
    BY <2>2, <2>4
  <2>6. ASSUME NEW i \in 1 .. n
        PROVE  Contents(g)[i] = Append(Tail(Contents(f)), d)[i]
    <3>1. Contents(g)[i] = g.ram[Ahead(Inc(f.read_ptr), i - 1)]
          /\ i - 1 \in Ptr
      BY <1>1, <2>1, <2>3, ContentsAt
    <3>2. CASE i = n
      <4>1. Ahead(Inc(f.read_ptr), n - 1) = f.write_ptr
        BY <1>3, DepthAssumption DEF Count, Ahead, Inc, Ptr, FifoState,
                                     FlagsExact
      <4>2. QED
        BY <2>1, <2>5, <3>1, <3>2, <4>1 DEF FifoState
    <3>3. CASE i \in 1 .. n - 1
      <4>1. Contents(f)[i + 1] = f.ram[Ahead(f.read_ptr, i)] /\ i \in Ptr
            /\ Ahead(f.read_ptr, i) \in Ptr
        BY <2>2, <3>3, ContentsAt DEF Ptr
      <4>2. Ahead(Inc(f.read_ptr), i - 1) = Ahead(f.read_ptr, i)
        BY <3>1, <4>1, AheadOfInc DEF FifoState
      <4>3. Ahead(f.read_ptr, i) # f.write_ptr
        <5>1. CASE f.tmp_full
          BY <3>3, <4>1, <5>1, DepthAssumption DEF Ahead, Ptr, FifoState,
                                                   FlagsExact
        <5>2. CASE ~f.tmp_full
          <6>1. n \in Ptr /\ n # i /\ Ahead(f.read_ptr, n) = f.write_ptr
            BY <2>2, <3>3, <5>2, CountFacts, DepthAssumption DEF Ptr
          <6>2. QED
            BY <4>1, <6>1, AheadInjective DEF FifoState
        <5>3. QED
          BY <5>1, <5>2
      <4>4. QED
        BY <2>1, <2>5, <3>1, <3>3, <4>1, <4>2, <4>3 DEF FifoState
    <3>4. i = n \/ i \in 1 .. n - 1
      BY <2>2, <2>6, DepthAssumption
    <3>5. QED
      BY <3>2, <3>3, <3>4
  <2>7. Contents(g) \in Seq(Slot) /\ Len(Contents(g)) = n
    BY <1>1, <2>3, ContentsFacts
  <2>8. Contents(g) = Append(Tail(Contents(f)), d)
    BY <2>5, <2>6, <2>7, SeqEqual
  <2>9. QED
    BY <1>3, <2>8
<1>4. QED
  BY <1>2, <1>3

-----------------------------------------------------------------------------
(***************************************************************************)
(* What the logic around the buffer sees of the contents.                  *)
(***************************************************************************)

\* Each branch of fifo_core, read as an operation on the contents (134-169).
LEMMA ClockedContentsAre ==
  ASSUME NEW f \in FifoState, FlagsExact(f), NEW w \in BOOLEAN, NEW r \in BOOLEAN,
         NEW d \in Slot
  PROVE  Contents(Clocked(f, w, r, d)) =
           LET q    == Contents(f)
               rest == IF r /\ ~f.tmp_empty THEN Tail(q) ELSE q
           IN  IF w /\ (r \/ ~f.tmp_full) THEN Append(rest, d) ELSE rest
<1>1. Contents(f) = << >> <=> f.tmp_empty
  BY ContentsFacts
<1>2. Append(<< >>, d) = <<d>>
  OBVIOUS
<1>3. CASE w /\ r
  BY <1>1, <1>2, <1>3, ReadWriteContents DEF Clocked
<1>4. CASE w /\ ~r
  BY <1>4, WriteContents DEF Clocked
<1>5. CASE ~w /\ r
  BY <1>5, ReadContents DEF Clocked
<1>6. CASE ~w /\ ~r
  BY <1>6 DEF Clocked
<1>7. QED
  BY <1>3, <1>4, <1>5, <1>6

\* almost_empty: the read pointer is one behind (yapp_router.v:115).
LEMMA AlmostEmptyIsOne ==
  ASSUME NEW f \in FifoState, FlagsExact(f)
  PROVE  f.write_ptr = Inc(f.read_ptr) <=> Count(f) = 1
  BY DepthAssumption DEF FifoState, FlagsExact, Count, Ptr, Inc

\* data_vld is raised for more than one byte, or one while another comes.
LEMMA VldIsMoreThanOne ==
  ASSUME NEW f \in FifoState, FlagsExact(f), NEW w \in BOOLEAN
  PROVE  Vld(f, w) <=> Count(f) >= 2 \/ (Count(f) = 1 /\ w)
<1>1. f.tmp_empty <=> Count(f) = 0
  BY CountFacts
<1>2. Count(f) \in Nat
  BY CountFacts, DepthAssumption
<1>3. f.write_ptr = Inc(f.read_ptr) <=> Count(f) = 1
  BY AlmostEmptyIsOne
<1>4. Vld(f, w) <=> ~(Count(f) = 0) /\ ~(Count(f) = 1 /\ ~w)
  BY <1>1, <1>3 DEF Vld, AlmostEmpty
<1>5. QED
  BY <1>2, <1>4
=============================================================================
