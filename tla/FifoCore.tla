------------------------------ MODULE FifoCore ------------------------------
(***************************************************************************)
(* The circular buffer of one output channel (module fifo of               *)
(* router_rtl/yapp_router.v), as operators on a record that holds the      *)
(* registers of one instance.  The router has three instances, so the      *)
(* state is a value here and a variable only in the modules that use it.   *)
(*                                                                         *)
(* The RTL has sixteen slots and four-bit pointers that wrap by overflow.  *)
(* Here the number of slots is Depth and Inc wraps at Depth.               *)
(***************************************************************************)
EXTENDS Integers, Sequences

CONSTANTS Depth,    \* number of slots of ram (16 in the RTL)
          Byte,     \* what a slot can hold once it was written
          NoByte    \* a slot, or a bus, that nobody has driven yet

ASSUME DepthAssumption == Depth \in Nat /\ Depth >= 2
ASSUME NoByteAssumption == NoByte \notin Byte

Ptr  == 0 .. Depth - 1
Slot == Byte \cup {NoByte}

FifoState == [ram : [Ptr -> Slot], write_ptr : Ptr, read_ptr : Ptr,
              tmp_empty : BOOLEAN, tmp_full : BOOLEAN]

\* Variant: the pointer wraps one slot late.
IncWrapsLate(p) == IF p = Depth THEN 0 ELSE p + 1

Inc(p) == IF p = Depth - 1 THEN 0 ELSE p + 1

\* Variant: reset forgets the empty flag.
ClearedKeepsFlag(f) == [f EXCEPT !.write_ptr = 0, !.read_ptr = 0,
                                 !.tmp_full = FALSE]

\* The reset branch; ram is not reset.
Cleared(f) == [f EXCEPT !.write_ptr = 0, !.read_ptr = 0,
                        !.tmp_empty = TRUE, !.tmp_full = FALSE]

PowerUp == [ram |-> [p \in Ptr |-> NoByte], write_ptr |-> 0, read_ptr |-> 0,
            tmp_empty |-> TRUE, tmp_full |-> FALSE]

-----------------------------------------------------------------------------
(***************************************************************************)
(* fifo_core, the negative clock edge: a read and a write together, a      *)
(* write alone, a read alone.                                              *)
(***************************************************************************)

\* An empty buffer only takes the byte; otherwise both pointers move, which
\* a full buffer survives because the slot written is the slot being read.
ReadWrite(f, d) ==
  [f EXCEPT !.ram       = [@ EXCEPT ![f.write_ptr] = d],
            !.write_ptr = Inc(@),
            !.read_ptr  = IF f.tmp_empty THEN @ ELSE Inc(@),
            !.tmp_empty = FALSE]

\* Variant: a write does not look at the full flag.
WriteOverFull(f, d) ==
  [f EXCEPT !.ram       = [@ EXCEPT ![f.write_ptr] = d],
            !.write_ptr = Inc(@),
            !.tmp_full  = @ \/ f.read_ptr = Inc(f.write_ptr),
            !.tmp_empty = FALSE]

\* A write to a full buffer is dropped without a trace.
Write(f, d) ==
  [f EXCEPT !.ram       = IF f.tmp_full THEN @
                          ELSE [@ EXCEPT ![f.write_ptr] = d],
            !.write_ptr = IF f.tmp_full THEN @ ELSE Inc(@),
            !.tmp_full  = @ \/ f.read_ptr = Inc(f.write_ptr),
            !.tmp_empty = FALSE]

\* Variant: a read does not clear the full flag.
ReadKeepsFull(f) ==
  [f EXCEPT !.read_ptr  = IF f.tmp_empty THEN @ ELSE Inc(@),
            !.tmp_empty = @ \/ f.write_ptr = Inc(f.read_ptr)]

Read(f) ==
  [f EXCEPT !.read_ptr  = IF f.tmp_empty THEN @ ELSE Inc(@),
            !.tmp_full  = FALSE,
            !.tmp_empty = @ \/ f.write_ptr = Inc(f.read_ptr)]

Clocked(f, write_enb, read_enb, d) ==
  CASE write_enb /\ read_enb   -> ReadWrite(f, d)
    [] write_enb /\ ~read_enb  -> Write(f, d)
    [] ~write_enb /\ read_enb  -> Read(f)
    [] ~write_enb /\ ~read_enb -> f

\* The combinational outputs.
AlmostEmpty(f, write_enb) == f.write_ptr = Inc(f.read_ptr) /\ ~write_enb

\* Variant: data_vld follows the empty flag only.
VldWhileNotEmpty(f, write_enb) == ~f.tmp_empty

\* What yapp_router registers in data_vld_x at the positive edge.
Vld(f, write_enb) == ~f.tmp_empty /\ ~AlmostEmpty(f, write_enb)

-----------------------------------------------------------------------------
(***************************************************************************)
(* How the registers are read as a queue.                                  *)
(***************************************************************************)

Ahead(p, i) == IF p + i < Depth THEN p + i ELSE p + i - Depth

Count(f) == IF f.tmp_full THEN Depth
            ELSE IF f.write_ptr >= f.read_ptr
                 THEN f.write_ptr - f.read_ptr
                 ELSE f.write_ptr - f.read_ptr + Depth

Contents(f) == [i \in 1 .. Count(f) |-> f.ram[Ahead(f.read_ptr, i - 1)]]
=============================================================================
