----------------------------- MODULE FifoProofs -----------------------------
(***************************************************************************)
(* Proofs about Fifo, for every depth of at least two slots and every set  *)
(* of byte values: its invariants, and that it implements a bounded queue, *)
(* ByteQueue, when the registers are read through Contents.                *)
(***************************************************************************)
EXTENDS Fifo, FifoCoreProofs

\* The invariant of Fifo is the predicate on the record.
LEMMA FlagsExactIsFlags == FlagsTellFullFromEmpty <=> FlagsExact(fifo)
  BY DEF FlagsTellFullFromEmpty, FlagsExact

-----------------------------------------------------------------------------
(***************************************************************************)
(* The inductive invariant.  OutputIsHead is about the output register and *)
(* the read pointer only, but it needs the reset branch to be seen to      *)
(* leave an empty buffer; VldStillTrue says that what data_vld recorded at *)
(* the positive edge is still so when the negative edge samples it.        *)
(***************************************************************************)

VldStillTrue == clock = 1 /\ data_vld => Vld(fifo, write_enb)

IInv == /\ TypeOK
        /\ FlagsTellFullFromEmpty
        /\ OutputIsHead
        /\ VldStillTrue

\* The inductive invariant holds after power-up and reset.
LEMMA InitIInv == Init => IInv
<1> SUFFICES ASSUME Init PROVE IInv
  OBVIOUS
<1>1. fifo \in FifoState
  BY DepthAssumption DEF Init, PowerUp, FifoState, Ptr, Slot
<1>2. QED
  BY <1>1 DEF Init, IInv, TypeOK, FlagsTellFullFromEmpty, OutputIsHead,
              VldStillTrue, PowerUp, Slot

\* Every step of the channel keeps the inductive invariant.
LEMMA NextIInv == IInv /\ [Next]_vars => IInv'
<1> SUFFICES ASSUME IInv, [Next]_vars PROVE IInv'
  OBVIOUS
<1>0. TypeOK /\ FlagsExact(fifo) /\ OutputIsHead /\ VldStillTrue
  BY FlagsExactIsFlags DEF IInv
<1>1. CASE Negedge
  <2>1. fifo' \in FifoState /\ FlagsExact(fifo')
    BY <1>0, <1>1, ClockedType, ClockedFlags DEF Negedge, TypeOK
  <2>2. TypeOK'
    BY <1>0, <1>1, <2>1 DEF Negedge, Drive, TypeOK, Slot
  <2>3. FlagsTellFullFromEmpty'
    BY <2>1 DEF FlagsTellFullFromEmpty, FlagsExact
  <2>4. QED
    BY <1>1, <2>2, <2>3 DEF IInv, Negedge, OutputIsHead, VldStillTrue
<1>2. CASE Posedge
  <2>1. fifo' = fifo
    BY <1>2 DEF Posedge
  <2>2. TypeOK'
    BY <1>0, <1>2 DEF Posedge, TypeOK, FifoState, Vld, AlmostEmpty
  <2>3. FlagsTellFullFromEmpty' /\ OutputIsHead' /\ VldStillTrue'
    BY <1>0, <1>2, <2>1 DEF Posedge, FlagsTellFullFromEmpty, FlagsExact,
                            OutputIsHead, VldStillTrue
  <2>4. QED
    BY <2>2, <2>3 DEF IInv
<1>3. CASE Reset
  <2>1. fifo' \in FifoState /\ FlagsExact(fifo')
    BY <1>0, <1>3, ClearedOK DEF Reset, TypeOK
  <2>2. TypeOK'
    BY <1>0, <1>3, <2>1 DEF Reset, TypeOK, Slot
  <2>3. fifo'.tmp_empty
    BY <1>0, <1>3 DEF Reset, Cleared, TypeOK, FifoState
  <2>4. QED
    BY <1>3, <2>1, <2>2, <2>3 DEF IInv, Reset, FlagsTellFullFromEmpty,
                                  FlagsExact, OutputIsHead, VldStillTrue
<1>4. CASE UNCHANGED vars
  BY <1>0, <1>4 DEF IInv, vars, TypeOK, FlagsTellFullFromEmpty, FlagsExact,
                    OutputIsHead, VldStillTrue
<1>5. QED
  BY <1>1, <1>2, <1>3, <1>4 DEF Next

\* The inductive invariant holds in every reachable state.
THEOREM SpecIInv == Spec => []IInv
  BY InitIInv, NextIInv, PTL DEF Spec

\* The state of the channel always has its type.
THEOREM TypeCorrect == Spec => []TypeOK
<1>1. IInv => TypeOK
  BY DEF IInv
<1>2. QED
  BY SpecIInv, <1>1, PTL

\* Full and empty are never confused, for every depth.
THEOREM FlagsCorrect == Spec => []FlagsTellFullFromEmpty
<1>1. IInv => FlagsTellFullFromEmpty
  BY DEF IInv
<1>2. QED
  BY SpecIInv, <1>1, PTL

\* The byte a read removes is the byte the channel shows.
THEOREM OutputCorrect == Spec => []OutputIsHead
<1>1. IInv => OutputIsHead
  BY DEF IInv
<1>2. QED
  BY SpecIInv, <1>1, PTL

\* A receiver that reads only while data_vld is high never empties the buffer.
THEOREM ValidCorrect == Spec => ReadingWhileValidNeverEmpties
<1>1. IInv /\ [Next]_vars => [Negedge /\ data_vld => ~fifo'.tmp_empty]_vars
  <2> SUFFICES ASSUME IInv, Negedge, data_vld PROVE ~fifo'.tmp_empty
    OBVIOUS
  <2>1. Vld(fifo, write_enb)
    BY DEF IInv, VldStillTrue, Negedge
  <2>2. QED
    BY <2>1, VldLeavesOne DEF IInv, TypeOK, Negedge
<1>2. QED
  BY SpecIInv, <1>1, PTL DEF Spec, ReadingWhileValidNeverEmpties

-----------------------------------------------------------------------------
(***************************************************************************)
(* The refinement.                                                         *)
(***************************************************************************)

\* The flags seen from the queue.
LEMMA QueueFlags ==
  ASSUME NEW f \in FifoState, FlagsExact(f)
  PROVE  /\ f.tmp_empty = (Contents(f) = << >>)
         /\ f.tmp_full = (Len(Contents(f)) = Depth)
  BY ContentsFacts, CountFacts DEF FifoState

\* One clock edge of fifo_core is one edge of the queue.
LEMMA ClockedContents ==
  ASSUME TypeOK, FlagsExact(fifo)
  PROVE  Contents(Clocked(fifo, write_enb, read_enb, in_data))
           = Queue!Served(Contents(fifo))
<1>0. fifo \in FifoState /\ in_data \in Slot /\ write_enb \in BOOLEAN
      /\ read_enb \in BOOLEAN
  BY DEF TypeOK
<1>1. /\ Contents(fifo) = << >> <=> fifo.tmp_empty
      /\ Len(Contents(fifo)) < Depth <=> ~fifo.tmp_full
  BY <1>0, ContentsFacts, CountFacts, DepthAssumption
<1>2. CASE write_enb /\ read_enb
  BY <1>0, <1>1, <1>2, ReadWriteContents DEF Clocked, Queue!Served
<1>3. CASE write_enb /\ ~read_enb
  BY <1>0, <1>1, <1>3, WriteContents DEF Clocked, Queue!Served
<1>4. CASE ~write_enb /\ read_enb
  BY <1>0, <1>1, <1>4, ReadContents DEF Clocked, Queue!Served
<1>5. CASE ~write_enb /\ ~read_enb
  BY <1>0, <1>5 DEF Clocked, Queue!Served
<1>6. QED
  BY <1>0, <1>2, <1>3, <1>4, <1>5

\* After reset the channel is an empty queue.
LEMMA InitRefines == Init => Queue!Init
<1> SUFFICES ASSUME Init PROVE Queue!Init
  OBVIOUS
<1>1. fifo \in FifoState /\ FlagsExact(fifo) /\ fifo.tmp_empty
      /\ ~fifo.tmp_full
  BY InitIInv, FlagsExactIsFlags DEF IInv, TypeOK, Init, PowerUp
<1>2. Contents(fifo) = << >>
  BY <1>1, ContentsFacts
<1>3. QED
  BY <1>1, <1>2 DEF Init, Queue!Init

\* Every step of the channel is a step of the queue, or none.
LEMMA NextRefines ==
  IInv /\ IInv' /\ [Next]_vars => [Queue!Next]_Queue!vars
<1> SUFFICES ASSUME IInv, IInv', [Next]_vars PROVE [Queue!Next]_Queue!vars
  OBVIOUS
<1>0. /\ fifo \in FifoState /\ FlagsExact(fifo)
      /\ fifo' \in FifoState /\ FlagsExact(fifo')
  BY FlagsExactIsFlags DEF IInv, TypeOK, FlagsTellFullFromEmpty, FlagsExact
<1>1. /\ fifo'.tmp_empty = (Contents(fifo') = << >>)
      /\ fifo'.tmp_full = (Len(Contents(fifo')) = Depth)
  BY <1>0, QueueFlags
<1>2. /\ Contents(fifo) = << >> <=> fifo.tmp_empty
      /\ ~fifo.tmp_empty => Head(Contents(fifo)) = fifo.ram[fifo.read_ptr]
  BY <1>0, ContentsFacts
<1>3. CASE Negedge
  <2>1. Contents(fifo') = Queue!Served(Contents(fifo))
    BY <1>0, <1>3, ClockedContents DEF Negedge, IInv
  <2>2. Contents(fifo) # << >> => data_out = Head(Contents(fifo))
    BY <1>2, <1>3 DEF Negedge, IInv, OutputIsHead
  <2>3. Queue!Serve
    BY <1>1, <1>3, <2>1, <2>2 DEF Negedge, Queue!Serve, Queue!Flags
  <2>4. QED
    BY <2>3 DEF Queue!Next
<1>4. CASE Posedge
  <2>1. Contents(fifo) # << >> => data_out' = Head(Contents(fifo))
    BY <1>2, <1>4 DEF Posedge
  <2>2. Queue!Show
    BY <1>4, <2>1 DEF Posedge, Queue!Show
  <2>3. QED
    BY <2>2 DEF Queue!Next
<1>5. CASE Reset
  <2>1. fifo'.tmp_empty
    BY <1>0, <1>5 DEF Reset, Cleared, FifoState
  <2>2. Contents(fifo') = << >>
    BY <1>0, <2>1, ContentsFacts
  <2>3. Queue!Clear
    BY <1>1, <1>5, <2>2 DEF Reset, Queue!Clear, Queue!Flags
  <2>4. QED
    BY <2>3 DEF Queue!Next
<1>6. CASE UNCHANGED vars
  BY <1>6 DEF vars, Queue!vars
<1>7. QED
  BY <1>3, <1>4, <1>5, <1>6 DEF Next

\* Every behaviour of the buffer is a behaviour of the bounded queue.
THEOREM Refinement == Spec => ImplementsByteQueue
<1>1. Spec => Queue!Spec
  BY InitRefines, NextRefines, SpecIInv, PTL DEF Spec, Queue!Spec
<1>2. QED
  BY <1>1 DEF ImplementsByteQueue
=============================================================================
