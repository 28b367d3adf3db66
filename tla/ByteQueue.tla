----------------------------- MODULE ByteQueue ------------------------------
(***************************************************************************)
(* What an output channel's buffer promises to the logic around it: a      *)
(* bounded first-in first-out queue with a registered output.  Nothing is  *)
(* said of pointers or of flags that have to be kept in step.              *)
(***************************************************************************)
EXTENDS Integers, Sequences

CONSTANTS Capacity, Byte, NoByte

VARIABLES clock,      \* 0 after a negative edge, 1 after a positive edge
          write_enb, read_enb, in_data,   \* inputs, stable around an edge
          queue,      \* the bytes held, oldest first
          shown,      \* the output register
          empty, full

vars == <<clock, write_enb, read_enb, in_data, queue, shown, empty, full>>

Flags(q) == empty' = (q = << >>) /\ full' = (Len(q) = Capacity)

Init == /\ clock \in {0, 1}
        /\ write_enb = FALSE /\ read_enb = FALSE /\ in_data = NoByte
        /\ queue = << >> /\ shown = NoByte
        /\ empty = TRUE /\ full = FALSE

\* The queue after a negative edge.  A byte that leaves is the byte shown.
Served(q) ==
  CASE read_enb /\ write_enb   -> IF q = << >> THEN <<in_data>>
                                  ELSE Append(Tail(q), in_data)
    [] read_enb /\ ~write_enb  -> IF q = << >> THEN q ELSE Tail(q)
    [] ~read_enb /\ write_enb  -> IF Len(q) < Capacity THEN Append(q, in_data)
                                  ELSE q
    [] ~read_enb /\ ~write_enb -> q

Serve == /\ clock = 1 /\ clock' = 0
         /\ read_enb /\ queue # << >> => shown = Head(queue)
         /\ queue' = Served(queue)
         /\ Flags(queue')
         /\ shown' = shown

Show == /\ clock = 0 /\ clock' = 1
        /\ queue # << >> => shown' = Head(queue)
        /\ UNCHANGED <<write_enb, read_enb, in_data, queue, empty, full>>

Clear == /\ queue' = << >>
         /\ Flags(queue')
         /\ UNCHANGED <<clock, shown>>

Next == Serve \/ Show \/ Clear

Spec == Init /\ [][Next]_vars
=============================================================================
