---------------------------- MODULE RegisterFile ----------------------------
(***************************************************************************)
(* What the host interface promises: registers that are written and read   *)
(* one access at a time.  reported is the last access the rest of the test *)
(* bench was told of, and it is told of each at the moment it takes place. *)
(***************************************************************************)
EXTENDS Integers

CONSTANTS Files,             \* the sets of registers there may be
          Access,            \* the [hwr_rd, haddr, hdata] that are requested
          Initial, None,     \* the registers after reset; nothing reported yet
          Stored(_, _, _),   \* what a register keeps of the data written to it
          Unmapped           \* what a read of no register reports

VARIABLES file,       \* which of them it is
          regs,       \* address -> contents
          reported

vars == <<file, regs, reported>>

Init == file \in Files /\ regs = Initial[file] /\ reported = None

Write(a, d) ==
  /\ regs' = [r \in DOMAIN regs |-> IF r = a THEN Stored(file, a, d) ELSE regs[r]]
  /\ reported' = [hwr_rd |-> TRUE, haddr |-> a, hdata |-> d]

Read(a) ==
  /\ reported' = [hwr_rd |-> FALSE, haddr |-> a,
                  hdata |-> IF a \in DOMAIN regs THEN regs[a] ELSE Unmapped]
  /\ UNCHANGED regs

Next == /\ \E t \in Access :
             IF t.hwr_rd THEN Write(t.haddr, t.hdata) ELSE Read(t.haddr)
        /\ UNCHANGED file

Spec == Init /\ [][Next]_vars
=============================================================================
