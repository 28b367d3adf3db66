------------------------------ MODULE HostBus -------------------------------
(***************************************************************************)
(* The host bus edge by edge: the HBUS master, whatever answers it (the    *)
(* router's host_ctl, or the UVC's slave when there is no router), the bus *)
(* monitor, and the reference model's copy of the registers that the       *)
(* monitor's transactions keep up to date.                                 *)
(*                                                                         *)
(* hdata_w is a net with two drivers: the interface variable hdata, which  *)
(* master and slave assign, and the router's int_data.  At a negative edge *)
(* tasks read the values from before it; the tasks that wait for hen to    *)
(* rise run after all nonblocking assignments of the edge.                 *)
(***************************************************************************)
EXTENDS Integers, HbusPkg

CONSTANTS Access,        \* the [hwr_rd, haddr, hdata] the sequences request
          WaitCycles,    \* wait_between_cycle; {1} is the fixed delay
          Responders,    \* who may answer: "dut", "slave"
          Z, X           \* an undriven byte, and one driven to two values

ASSUME RespondersAssumption == Responders \subseteq {"dut", "slave"}
ASSUME AccessAssumption ==
  Access \subseteq [hwr_rd : BOOLEAN, haddr : 0 .. 31, hdata : 0 .. 255]
ASSUME WaitAssumption == WaitCycles \subseteq Nat \ {0}
ASSUME LevelsAssumption == Z \notin 0 .. 255 /\ X \notin 0 .. 255 /\ X # Z

\* The sequences write 0 or 1 to the enable register, of which the router keeps
\* one bit.
ASSUME EnableAssumption ==
  \A t \in Access : t.hwr_rd /\ t.haddr = ENABLE_ADDR => t.hdata \in {0, 1}

VARIABLES clock,
          responder,                   \* who answers: fixed when the bench is built
          hen, hwr_rd, haddr, hdata,   \* hbus_if
          int_data,                    \* host_ctl's driver of the bus
          regs,                        \* the responder's registers
          master,    \* drive_transaction: [pc, left, tr]
          slave,     \* send_response: [pc, haddr]
          monitor,   \* collect_transactions: [pc, tr]
          reported,  \* the transaction last written to the analysis port
          ref,       \* router_reference: the mirrored registers
          hen_was    \* hen at the previous sample of the assertions

wires == <<hen, hwr_rd, haddr, hdata>>
vars  == <<clock, responder, wires, int_data, regs, master, slave, monitor, reported,
           ref, hen_was>>

-----------------------------------------------------------------------------
(* Values on the bus. *)

Resolved(a, b) == CASE a = Z           -> b
                    [] b = Z           -> a
                    [] a = b           -> a
                    [] OTHER           -> X

hdata_w == Resolved(hdata, int_data)

\* Assigned to a two-state variable, an unknown byte is zero.
TwoState(v) == IF v \in {X, Z} THEN 0 ELSE v

\* The router has two registers, of which enable_reg is one bit; the slave
\* has those and a memory, all of eight bits.
MappedIn(r) == IF r = "dut" THEN {MAX_PKT_ADDR, ENABLE_ADDR}
               ELSE {MAX_PKT_ADDR, ENABLE_ADDR} \cup {t.haddr : t \in Access}

Mapped == MappedIn(responder)

StoredIn(r, a, d) == IF r = "dut" /\ a = ENABLE_ADDR /\ d # X
                     THEN d % 2 ELSE d

Stored(a, d) == StoredIn(responder, a, d)

Default(a) == CASE a = MAX_PKT_ADDR -> 63
                [] a = ENABLE_ADDR  -> 1
                [] OTHER            -> 0

NoAccess == [hwr_rd |-> FALSE, haddr |-> 0, hdata |-> 0]

Init == /\ clock = 0
        /\ responder \in Responders
        /\ hen = FALSE /\ hwr_rd = FALSE /\ haddr = Z /\ hdata = Z
        /\ int_data = IF responder = "dut" THEN 0 ELSE Z
        /\ regs = [a \in Mapped |-> Default(a)]
        /\ master = [pc |-> "get", left |-> 0, tr |-> NoAccess]
        /\ slave = [pc |-> "sync", haddr |-> 0]
        /\ monitor = [pc |-> "armed", tr |-> NoAccess]
        /\ reported = NoAccess
        /\ ref = [a \in {MAX_PKT_ADDR, ENABLE_ADDR} |-> Default(a)]
        /\ hen_was = FALSE

-----------------------------------------------------------------------------
(***************************************************************************)
(* The master.                                                             *)
(***************************************************************************)

\* Variant: a read samples the bus at the first positive edge.
AfterStartShort(write) == IF write THEN "write" ELSE "read1"

\* A read spends one positive edge on driving the bus before it samples it.
AfterStart(write) == IF write THEN "write" ELSE "read0"

\* Variant: the master is done with a write as soon as hen falls.
AfterWriteHasty == "item"

AfterWrite == "end"

\* get_next_item blocks until a sequence has an item; the item may be there
\* already when the task asks.
MasterWaits ==
  /\ master.pc \in {"get", "item"}
  /\ master' = [master EXCEPT !.pc = "item"]
  /\ UNCHANGED wires

MasterGetsItem ==
  /\ master.pc \in {"get", "item"}
  /\ \E t \in Access, n \in WaitCycles :
       master' = [pc |-> "delay", left |-> n, tr |-> t]
  /\ UNCHANGED wires

MasterDelays ==
  /\ master.pc = "delay" /\ master.left > 1
  /\ master' = [master EXCEPT !.left = @ - 1]
  /\ UNCHANGED wires

MasterStarts ==
  /\ master.pc = "delay" /\ master.left = 1
  /\ hen' = TRUE
  /\ haddr' = master.tr.haddr
  /\ hwr_rd' = master.tr.hwr_rd
  /\ hdata' = IF master.tr.hwr_rd THEN master.tr.hdata ELSE hdata
  /\ master' = [master EXCEPT !.pc = AfterStart(master.tr.hwr_rd),
                              !.left = 0]

MasterEndsWrite ==
  /\ master.pc = "write"
  /\ hen' = FALSE /\ hwr_rd' = FALSE /\ hdata' = Z
  /\ master' = [master EXCEPT !.pc = AfterWrite]
  /\ UNCHANGED haddr

MasterEndsRead ==
  /\ master.pc = "read2"
  /\ hen' = FALSE
  /\ master' = [master EXCEPT !.pc = "end"]
  /\ UNCHANGED <<hwr_rd, haddr, hdata>>

MasterHolds ==
  /\ master.pc \in {"read0", "read1", "end"}
  /\ UNCHANGED <<master, wires>>

MasterNegedge ==
  \/ MasterWaits
  \/ MasterGetsItem
  \/ MasterDelays
  \/ MasterStarts
  \/ MasterEndsWrite
  \/ MasterEndsRead
  \/ MasterHolds

\* Variant: the echo is taken before the slave has driven the bus.
EchoedEarly(bus) == hdata

\* #0 lets the slave drive the bus first.
Echoed(bus) == bus

\* What the master assigns to hdata at a positive edge, and the result of a
\* read; bus is the net after the slave's assignment at the same edge.
MasterPosedge(shown, bus) ==
  CASE master.pc = "read0" -> /\ hdata' = Echoed(bus)
                              /\ master' = [master EXCEPT !.pc = "read1"]
    [] master.pc = "read1" -> /\ hdata' = shown
                              /\ master' = [master EXCEPT !.pc = "read2",
                                                      !.tr.hdata = TwoState(bus)]
    [] master.pc = "end"   -> /\ hdata' = Z
                              /\ master' = [master EXCEPT !.pc = "get"]
    [] OTHER               -> /\ hdata' = shown
                              /\ UNCHANGED master

-----------------------------------------------------------------------------
(***************************************************************************)
(* The responders.                                                         *)
(***************************************************************************)

\* Variant: the router does not release the bus after a read.
ReleasedNever == int_data

Released == Z

\* host_ctl, at a negative edge.
HostCtl ==
  /\ int_data' = CASE ~hen           -> Released
                   [] hen /\ ~hwr_rd -> IF haddr \in Mapped THEN regs[haddr]
                                        ELSE Z
                   [] hen /\ hwr_rd  -> int_data
  /\ regs' = [a \in Mapped |-> IF hen /\ hwr_rd /\ haddr = a
                               THEN Stored(a, hdata_w) ELSE regs[a]]

HenRises == ~hen /\ hen'

\* Variant: the slave lets go of the bus one cycle later.
AfterReleaseLate == "read1"

AfterRelease == "sync"

\* The slave takes the write data as soon as hen rises.
SlaveNegedge ==
  /\ slave' = CASE slave.pc = "armed" /\ HenRises ->
                     [pc |-> IF hwr_rd' THEN "write" ELSE "read0",
                      haddr |-> haddr']
                [] slave.pc = "write" -> [slave EXCEPT !.pc = "sync"]
                [] slave.pc = "read1" -> [slave EXCEPT !.pc = "read2"]
                [] OTHER              -> slave
  /\ regs' = [a \in Mapped |->
                 IF slave.pc = "armed" /\ HenRises /\ hwr_rd' /\ haddr' = a
                 THEN Stored(a, TwoState(hdata')) ELSE regs[a]]

SlaveDrives == CASE slave.pc = "read0"           -> regs[haddr]
                 [] slave.pc = "read2" /\ ~hen  -> Z
                 [] OTHER                        -> hdata

SlavePosedge ==
  slave' = [slave EXCEPT !.pc =
              CASE slave.pc = "sync"            -> "armed"
                [] slave.pc = "read0"           -> "read1"
                [] slave.pc = "read2" /\ ~hen  -> AfterRelease
                [] OTHER                        -> slave.pc]

RespondNegedge ==
  \/ responder = "dut" /\ HostCtl /\ UNCHANGED slave
  \/ responder = "slave" /\ SlaveNegedge /\ UNCHANGED int_data

RespondPosedge ==
  \/ responder = "dut" /\ UNCHANGED slave
  \/ responder = "slave" /\ SlavePosedge

-----------------------------------------------------------------------------
(***************************************************************************)
(* The monitor and the reference model behind its analysis port, which     *)
(* mirrors the data of writes and of reads.                                *)
(***************************************************************************)
Publishes == monitor.pc \in {"write1", "read2"}

\* Variant: reads are collected like writes.
CollectsAsWrite(write) == "write0"

Collects(write) == IF write THEN "write0" ELSE "read0"

MonitorNegedge ==
  /\ monitor' = CASE monitor.pc = "armed" /\ HenRises ->
                       [monitor EXCEPT !.pc = Collects(hwr_rd')]
                  [] Publishes -> [monitor EXCEPT !.pc = "armed"]
                  [] OTHER     -> monitor
  /\ reported' = IF Publishes THEN monitor.tr ELSE reported
  /\ ref' = [a \in DOMAIN ref |-> IF Publishes /\ monitor.tr.haddr = a
                                  THEN monitor.tr.hdata ELSE ref[a]]

\* Variant: the data of a read is the master's variable, not the net.
ReadDataOfHdata(bus) == TwoState(hdata)

ReadData(bus) == TwoState(bus)

MonitorPosedge(bus) ==
  monitor' = CASE monitor.pc = "write0" ->
                    [pc |-> "write1",
                     tr |-> [hwr_rd |-> TRUE, haddr |-> haddr,
                             hdata |-> TwoState(hdata)]]
               [] monitor.pc = "read0" ->
                    [pc |-> "read1",
                     tr |-> [monitor.tr EXCEPT !.hwr_rd = FALSE,
                                               !.haddr = haddr]]
               [] monitor.pc = "read1" ->
                    [pc |-> "read2",
                     tr |-> [monitor.tr EXCEPT !.hdata = ReadData(bus)]]
               [] OTHER -> monitor

-----------------------------------------------------------------------------
Negedge == /\ clock = 1 /\ clock' = 0
           /\ MasterNegedge
           /\ RespondNegedge
           /\ MonitorNegedge
           /\ hen_was' = hen
           /\ UNCHANGED responder

Posedge == /\ clock = 0 /\ clock' = 1
           /\ LET shown == SlaveDrives
                  bus   == Resolved(shown, int_data)
              IN  MasterPosedge(shown, bus) /\ MonitorPosedge(bus)
           /\ RespondPosedge
           /\ UNCHANGED <<responder, hen, hwr_rd, haddr, int_data, regs, reported,
                          ref, hen_was>>

Next == Negedge \/ Posedge

Spec == Init /\ [][Next]_vars

-----------------------------------------------------------------------------
(***************************************************************************)
(* Properties.                                                             *)
(***************************************************************************)
Data == 0 .. 255

\* The registers and what the monitor reports are never unknown: at no edge
\* at which somebody looks do two drivers disagree on the bus.
TypeOK == /\ clock \in {0, 1}
          /\ {hen, hwr_rd, hen_was} \subseteq BOOLEAN
          /\ haddr \in 0 .. 31 \cup {Z}
          /\ {hdata, int_data} \subseteq Data \cup {Z}
          /\ hdata_w # X
          /\ regs \in [Mapped -> Data]
          /\ master.tr \in [hwr_rd : BOOLEAN, haddr : 0 .. 31, hdata : Data]
          /\ reported \in [hwr_rd : BOOLEAN, haddr : 0 .. 31, hdata : Data]
          /\ ref \in [{MAX_PKT_ADDR, ENABLE_ADDR} -> Data]

\* input_read_then_enable_2_cycles and input_read_then_address_stable of
\* hbus_if, on the values sampled before a negative edge.
ReadEnableTwoCycles ==
  [][Negedge /\ hen /\ ~hen_was /\ ~hwr_rd => hen' /\ haddr' = haddr]_vars

\* Whoever waits for hen to rise is waiting when it does: neither the monitor
\* nor the slave, which come back to that wait at other edges than the
\* master, misses the next access, however soon it comes.
NobodyMissesAnAccess ==
  [][Negedge /\ HenRises => /\ monitor.pc = "armed"
                            /\ responder = "slave" => slave.pc = "armed"]_vars

\* What the monitor reports is the access the master is making, with the data
\* the master itself has read.
ReportedIsRequested ==
  [][Negedge /\ Publishes => monitor.tr = master.tr]_vars

\* The reference model's copy of the registers is the router's at every edge,
\* for the data the sequences write (enable 0 or 1).  The slave takes a write
\* a cycle before the monitor reports it.
WriteUnderWay == responder = "slave" /\ monitor.pc \in {"write0", "write1"}

ReferenceFollows == ~WriteUnderWay => \A a \in DOMAIN ref : ref[a] = regs[a]

\* The registers, as the monitor reports the accesses, are written and read
\* one at a time; the slave's write counts as reported when the slave takes it.
FileReported == IF WriteUnderWay
                THEN [hwr_rd |-> TRUE, haddr |-> haddr, hdata |-> hdata]
                ELSE reported

File == INSTANCE RegisterFile
          WITH Files <- Responders, file <- responder,
               Initial <- [r \in Responders |->
                             [a \in MappedIn(r) |-> Default(a)]],
               None <- NoAccess, Stored <- StoredIn, Unmapped <- 0,
               reported <- FileReported

ImplementsRegisterFile == File!Spec

\* Seen at the router's pins, the master is the host of RouterTb.
HostPc == CASE master.pc = "write"                            -> "busy"
            [] master.pc \in {"end", "get"} /\ master.tr.hwr_rd -> "rest"
            [] OTHER                                          -> "idle"
Port == INSTANCE HostPort
          WITH HostWrites <- {[haddr |-> t.haddr, hdata |-> t.hdata] :
                                t \in {u \in Access : u.hwr_rd}},
               hbus <- IF hen /\ hwr_rd THEN HbusWrite(haddr, hdata)
                       ELSE HbusIdle,
               host <- HostPc

ImplementsHostPort == Port!Spec
=============================================================================
