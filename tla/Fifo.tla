-------------------------------- MODULE Fifo --------------------------------
(***************************************************************************)
(* One output channel of the router seen on its own: the fifo instance,    *)
(* the output register data_out and the data_vld register that yapp_router *)
(* keeps for it.  Whatever stands on either side is free: the input FSM    *)
(* may raise write_enb in any cycle, the receiver may raise or drop        *)
(* suspend in any cycle, and reset may come between any two edges.         *)
(*                                                                         *)
(* Registers change at a negative edge, outputs at a positive edge.  The   *)
(* inputs are driven at negative edges with nonblocking assignments, so a  *)
(* negative edge samples the values chosen at the one before it.           *)
(***************************************************************************)
EXTENDS FifoCore

VARIABLES clock,                          \* the last edge: 1 posedge, 0 negedge
          write_enb, read_enb, in_data,   \* read_enb is !suspend
          fifo,                           \* the registers of the instance
          data_out, data_vld

vars == <<clock, write_enb, read_enb, in_data, fifo, data_out, data_vld>>

TypeOK == /\ clock \in {0, 1}
          /\ write_enb \in BOOLEAN /\ read_enb \in BOOLEAN
          /\ in_data \in Slot
          /\ write_enb => in_data \in Byte
          /\ fifo \in FifoState
          /\ data_out \in Slot
          /\ data_vld \in BOOLEAN

-----------------------------------------------------------------------------
\* The state the first reset pulse leaves.
Init == /\ clock \in {0, 1}
        /\ write_enb = FALSE /\ read_enb = FALSE /\ in_data = NoByte
        /\ fifo = PowerUp
        /\ data_out = NoByte
        /\ data_vld = FALSE

\* The drivers' next values.
Drive == /\ write_enb' \in BOOLEAN
         /\ read_enb' \in BOOLEAN
         /\ in_data' \in IF write_enb' THEN Byte ELSE {NoByte}

Negedge == /\ clock = 1
           /\ clock' = 0
           /\ fifo' = Clocked(fifo, write_enb, read_enb, in_data)
           /\ Drive
           /\ UNCHANGED <<data_out, data_vld>>

Posedge == /\ clock = 0
           /\ clock' = 1
           /\ data_out' = fifo.ram[fifo.read_ptr]
           /\ data_vld' = Vld(fifo, write_enb)
           /\ UNCHANGED <<write_enb, read_enb, in_data, fifo>>

\* Reset is asynchronous.  The same event resets the FSM and the UVC
\* drivers, so no write is pending and the receiver suspends.
Reset == /\ fifo' = Cleared(fifo)
         /\ data_vld' = FALSE
         /\ write_enb' = FALSE /\ read_enb' = FALSE /\ in_data' = NoByte
         /\ UNCHANGED <<clock, data_out>>

Next == Negedge \/ Posedge \/ Reset

Spec == Init /\ [][Next]_vars

-----------------------------------------------------------------------------
(***************************************************************************)
(* Properties.                                                             *)
(***************************************************************************)

\* The two flags tell apart the two situations in which the pointers meet,
\* after any history of single and simultaneous reads and writes: the flags
\* are set in different branches of fifo_core and never recomputed.
FlagsTellFullFromEmpty ==
  /\ fifo.tmp_empty => fifo.write_ptr = fifo.read_ptr /\ ~fifo.tmp_full
  /\ fifo.tmp_full  => fifo.write_ptr = fifo.read_ptr
  /\ fifo.write_ptr = fifo.read_ptr => fifo.tmp_empty \/ fifo.tmp_full

\* Between a positive and a negative edge the output register shows the byte
\* that a read at that negative edge removes, so a receiver that samples the
\* channel once per read neither skips a byte nor sees one twice.
OutputIsHead ==
  clock = 1 /\ ~fifo.tmp_empty
    => data_out = fifo.ram[fifo.read_ptr]

\* data_vld falls one byte early: a receiver that only reads while data_vld
\* is high never empties the buffer, whatever the writer does meanwhile.
ReadingWhileValidNeverEmpties ==
  [][Negedge /\ data_vld => ~fifo'.tmp_empty]_vars

\* The buffer is a bounded queue with exact flags and a registered head.
Queue == INSTANCE ByteQueue
           WITH Capacity <- Depth, queue <- Contents(fifo), shown <- data_out,
                empty <- fifo.tmp_empty, full <- fifo.tmp_full

ImplementsByteQueue == Queue!Spec
=============================================================================
