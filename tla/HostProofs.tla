----------------------------- MODULE HostProofs -----------------------------
(***************************************************************************)
(* Proofs about HostBus, for every set of accesses, every delay between    *)
(* them and both responders.                                               *)
(*                                                                         *)
(* Master, monitor and slave are three tasks that wait at clock edges of   *)
(* their own; what makes the bus work is that their positions fit together *)
(* at every edge.  The invariant says how.                                 *)
(***************************************************************************)
EXTENDS HostBus, TLAPS

Transactions == [hwr_rd : BOOLEAN, haddr : 0 .. 31, hdata : Data]

Mirrored == {MAX_PKT_ADDR, ENABLE_ADDR}

AtRest == master.pc \in {"get", "item", "delay", "end"}

\* What a read of address a brings.
Contents(a) == IF a \in Mapped THEN regs[a] ELSE 0

\* A negative edge has passed since the read was shown to the responder.
Answered == master.pc = "read2" \/ (master.pc = "read1" /\ clock = 0)

Types ==
  /\ clock \in {0, 1}
  /\ responder \in Responders
  /\ hen \in BOOLEAN /\ hwr_rd \in BOOLEAN /\ hen_was \in BOOLEAN
  /\ haddr \in 0 .. 31 \cup {Z}
  /\ regs \in [Mapped -> Data]
  /\ ref \in [Mirrored -> Data]
  /\ master \in [pc : {"get", "item", "delay", "end", "write", "read0",
                       "read1", "read2"},
                 left : Nat, tr : Transactions]
  /\ monitor \in [pc : {"armed", "write0", "write1", "read0", "read1", "read2"},
                  tr : Transactions]
  /\ slave \in [pc : {"sync", "armed", "write", "read0", "read1", "read2"},
                haddr : 0 .. 31]
  /\ reported \in Transactions

\* Where the monitor is, and what is on the control wires, when the master is
\* at each of its edges.
InStep ==
  /\ AtRest => ~hen /\ ~hwr_rd /\ monitor.pc = "armed"
  /\ master.pc = "delay" => master.left >= 1 /\ master.tr \in Access
  /\ master.pc = "end" => clock = 0
  /\ ~AtRest => hen /\ haddr = master.tr.haddr
              /\ (hwr_rd <=> master.tr.hwr_rd)
  /\ ~AtRest => \E t \in Access : t.haddr = haddr /\ (t.hwr_rd <=> hwr_rd)
  /\ hwr_rd => master.pc = "write"
  /\ master.pc = "write" =>
       /\ hwr_rd /\ hdata = master.tr.hdata /\ master.tr \in Access
       /\ clock = 0 => monitor.pc = "write0"
       /\ clock = 1 => monitor.pc = "write1" /\ monitor.tr = master.tr
  /\ master.pc = "read0" => clock = 0 /\ ~hen_was /\ monitor.pc = "read0"
  /\ master.pc = "read1" => /\ (hen_was <=> clock = 0)
                            /\ monitor.pc = "read1"
                            /\ monitor.tr.haddr = haddr /\ ~monitor.tr.hwr_rd
  /\ master.pc = "read2" => /\ clock = 1 /\ hen_was
                            /\ monitor.pc = "read2"
                            /\ monitor.tr = master.tr
                            /\ master.tr.hdata = Contents(haddr)

\* The router holds the bus from the edge after a read starts to the edge after
\* it ends; nobody else drives it then.
RouterOnBus ==
  responder = "dut" =>
    /\ slave.pc = "sync"
    /\ int_data \in Data \cup {Z}
    /\ master.pc # "write" => hdata = Z
    /\ master.pc \in {"item", "delay", "write", "read0"} => int_data = Z
    /\ master.pc = "read1" /\ clock = 1 => int_data = Z
    /\ Answered =>
         int_data = IF haddr \in Mapped THEN regs[haddr] ELSE Z

\* The slave is back at its wait a half cycle before the earliest start of the
\* next access.
SlaveOnBus ==
  responder = "slave" =>
    /\ int_data = Z
    /\ AtRest /\ master.pc # "end" =>
         /\ hdata = Z /\ slave.pc \in {"sync", "armed"}
         /\ master.pc \in {"item", "delay"} /\ clock = 1 => slave.pc = "armed"
    /\ ~AtRest => haddr \in Mapped
    /\ master.pc = "end" => /\ hdata \in Data \cup {Z}
                            /\ slave.pc \in {"sync", "read2"}
    /\ master.pc = "write" => slave.pc = "write"
    /\ master.pc = "read0" => slave.pc = "read0" /\ hdata = Z
    /\ master.pc \in {"read1", "read2"} => hdata = regs[haddr]
    /\ master.pc = "read1" /\ clock = 1 => slave.pc = "read1"
    /\ Answered =>
         slave.pc = "read2"

\* The mirrored registers; the slave's are one write ahead while the monitor
\* is still collecting it.
Mirror ==
  \A a \in Mirrored :
    regs[a] = IF WriteUnderWay /\ a = haddr THEN hdata ELSE ref[a]

IInv == Types /\ InStep /\ RouterOnBus /\ SlaveOnBus /\ Mirror

-----------------------------------------------------------------------------
(***************************************************************************)
(* The operators on values.                                                *)
(***************************************************************************)

\* An undriven bus has the value of its one driver.
LEMMA OneDriver ==
  ASSUME NEW v \in Data
  PROVE  Resolved(v, Z) = v /\ Resolved(Z, v) = v /\ TwoState(v) = v
  BY LevelsAssumption DEF Resolved, TwoState, Data

\* One that nobody drives reads as zero.
LEMMA NoDriver == Resolved(Z, Z) = Z /\ TwoState(Z) = 0
  BY DEF Resolved, TwoState

\* A register keeps what the sequences write to it.
LEMMA StoredAccess ==
  ASSUME NEW t \in Access, t.hwr_rd
  PROVE  Stored(t.haddr, t.hdata) = t.hdata
<1>1. CASE t.haddr = ENABLE_ADDR
  BY <1>1, EnableAssumption DEF Stored, StoredIn
<1>2. CASE t.haddr # ENABLE_ADDR
  BY <1>2 DEF Stored, StoredIn
<1>3. QED
  BY <1>1, <1>2

\* Every responder has the mirrored registers; the slave has all that are asked
\* for.
LEMMA MappedFacts ==
  /\ Mirrored \subseteq Mapped
  /\ responder = "slave" => \A t \in Access : t.haddr \in Mapped
  BY DEF Mirrored, Mapped, MappedIn

-----------------------------------------------------------------------------
(***************************************************************************)
(* The invariant holds at the start and at every edge.                     *)
(***************************************************************************)
LEMMA InitIInv == ASSUME Init PROVE IInv
<1>1. \A a : Default(a) \in Data
  BY DEF Default, Data
<1>2. Types
  <2>1. NoAccess \in Transactions
    BY DEF NoAccess, Transactions, Data
  <2>2. regs \in [Mapped -> Data] /\ ref \in [Mirrored -> Data]
    BY <1>1 DEF Init, Mirrored
  <2>3. master \in [pc : {"get", "item", "delay", "end", "write", "read0",
                          "read1", "read2"},
                    left : Nat, tr : Transactions]
    BY <2>1 DEF Init
  <2>4. monitor \in [pc : {"armed", "write0", "write1", "read0", "read1",
                           "read2"},
                     tr : Transactions]
    BY <2>1 DEF Init
  <2>5. slave \in [pc : {"sync", "armed", "write", "read0", "read1", "read2"},
                   haddr : 0 .. 31]
    BY DEF Init
  <2>6. QED
    BY <2>1, <2>2, <2>3, <2>4, <2>5 DEF Init, Types
<1>3. InStep
  BY DEF Init, InStep, AtRest
<1>4. RouterOnBus /\ SlaveOnBus
  BY RespondersAssumption, LevelsAssumption
     DEF Init, RouterOnBus, SlaveOnBus, AtRest, Answered, Data
<1>5. Mirror
  BY MappedFacts DEF Init, Mirror, WriteUnderWay, Mirrored
<1>6. QED
  BY <1>2, <1>3, <1>4, <1>5 DEF IInv

\* The master's position decides what a positive edge does.
LEMMA PosedgeIInv == ASSUME IInv, Posedge PROVE IInv'
<1> DEFINE shown == SlaveDrives
           bus   == Resolved(shown, int_data)
<1>1. /\ MasterPosedge(shown, bus) /\ MonitorPosedge(bus) /\ RespondPosedge
      /\ clock = 0 /\ clock' = 1
      /\ UNCHANGED <<responder, hen, hwr_rd, haddr, int_data, regs, reported,
                     ref, hen_was>>
  BY DEF Posedge
<1> HIDE DEF shown, bus
<1>2. Mapped' = Mapped
  BY <1>1 DEF Mapped, MappedIn
<1>3. responder \in {"dut", "slave"}
  BY RespondersAssumption DEF IInv, Types
<1>4. shown = SlaveDrives /\ bus = Resolved(shown, int_data)
  BY DEF shown, bus
<1>5. haddr \in Mapped => regs[haddr] \in Data
  BY DEF IInv, Types
\* What is on the bus.
<1>6. /\ master.pc \in {"get", "item", "delay", "write", "read1"} => shown = hdata
      /\ master.pc = "read0" => bus = IF responder = "dut" THEN Z ELSE regs[haddr]
      /\ master.pc = "read1" => TwoState(bus) = Contents(haddr)
  <2>1. CASE responder = "dut"
    <3>1. shown = hdata
      BY <1>4, <2>1 DEF IInv, RouterOnBus, SlaveDrives
    <3>2. ASSUME master.pc = "read0" PROVE bus = Z
      BY <1>4, <2>1, <3>1, <3>2, NoDriver DEF IInv, RouterOnBus
    <3>3. ASSUME master.pc = "read1" PROVE TwoState(bus) = Contents(haddr)
      <4>1. hdata = Z /\ int_data = IF haddr \in Mapped THEN regs[haddr] ELSE Z
        BY <1>1, <2>1, <3>3 DEF IInv, RouterOnBus, Answered
      <4>2. QED
        BY <1>4, <1>5, <3>1, <4>1, OneDriver, NoDriver DEF Contents
    <3>4. QED
      BY <2>1, <3>1, <3>2, <3>3
  <2>2. CASE responder = "slave"
    BY <1>1, <1>4, <1>5, <2>2, OneDriver
       DEF IInv, InStep, SlaveOnBus, AtRest, Answered, SlaveDrives, Contents
  <2>3. QED
    BY <1>3, <2>1, <2>2
<1>7. CASE master.pc \in {"get", "item", "delay"}
  <2>1. UNCHANGED <<master, monitor, hdata>>
    BY <1>1, <1>6, <1>7 DEF MasterPosedge, MonitorPosedge, IInv, InStep, AtRest
  <2>2. /\ responder = "dut" => slave' = slave
        /\ responder = "slave" => slave' = [slave EXCEPT !.pc = "armed"]
    BY <1>1, <1>7 DEF RespondPosedge, SlavePosedge, IInv, SlaveOnBus, AtRest, Types
  <2>3. Types'
    BY <1>1, <1>2, <1>3, <2>1, <2>2 DEF IInv, Types
  <2>4. InStep'
    BY <1>1, <1>7, <2>1 DEF IInv, InStep, AtRest
  <2>5. RouterOnBus' /\ SlaveOnBus'
    BY <1>1, <1>2, <1>7, <2>1, <2>2
       DEF IInv, Types, RouterOnBus, SlaveOnBus, AtRest, Answered
  <2>6. Mirror'
    BY <1>1, <2>1 DEF IInv, Mirror, WriteUnderWay
  <2>7. QED
    BY <2>3, <2>4, <2>5, <2>6 DEF IInv
<1>8. CASE master.pc = "end"
  <2>1. /\ hdata' = Z /\ master' = [master EXCEPT !.pc = "get"]
        /\ monitor' = monitor
    BY <1>1, <1>8 DEF MasterPosedge, MonitorPosedge, IInv, InStep, AtRest
  <2>2. /\ responder = "dut" => slave' = slave
        /\ responder = "slave" => /\ slave' \in [pc : {"sync", "armed"}, haddr : 0 .. 31]
    BY <1>1, <1>8
       DEF RespondPosedge, SlavePosedge, AfterRelease, IInv, InStep, SlaveOnBus,
           AtRest, Types
  <2>3. Types'
    BY <1>1, <1>2, <1>3, <2>1, <2>2 DEF IInv, Types
  <2>4. InStep'
    BY <1>1, <1>8, <2>1 DEF IInv, Types, InStep, AtRest
  <2>5. RouterOnBus' /\ SlaveOnBus'
    BY <1>1, <1>2, <1>8, <2>1, <2>2
       DEF IInv, Types, RouterOnBus, SlaveOnBus, AtRest, Answered
  <2>6. Mirror'
    BY <1>1, <1>8, <2>1 DEF IInv, InStep, AtRest, Mirror, WriteUnderWay
  <2>7. QED
    BY <2>3, <2>4, <2>5, <2>6 DEF IInv
<1>9. CASE master.pc = "write"
  <2>1. /\ hdata' = hdata /\ master' = master
        /\ monitor' = [pc |-> "write1", tr |-> master.tr]
    <3>1. hdata' = hdata /\ master' = master
      BY <1>1, <1>6, <1>9 DEF MasterPosedge
    <3>2. master.tr = [hwr_rd |-> TRUE, haddr |-> haddr, hdata |-> hdata]
      BY <1>9 DEF IInv, Types, InStep, AtRest, Transactions
    <3>3. TwoState(hdata) = hdata
      BY <1>9, OneDriver DEF IInv, Types, InStep, Transactions
    <3>4. QED
      BY <1>1, <1>9, <3>1, <3>2, <3>3 DEF MonitorPosedge, IInv, InStep
  <2>2. slave' = slave
    BY <1>1, <1>9 DEF RespondPosedge, SlavePosedge, IInv, SlaveOnBus, Types
  <2>3. Types'
    BY <1>1, <1>2, <1>3, <2>1, <2>2 DEF IInv, Types
  <2>4. InStep'
    BY <1>1, <1>9, <2>1 DEF IInv, InStep, AtRest
  <2>5. RouterOnBus' /\ SlaveOnBus'
    BY <1>1, <1>2, <1>9, <2>1, <2>2
       DEF IInv, RouterOnBus, SlaveOnBus, AtRest, Answered
  <2>6. Mirror'
    BY <1>1, <1>9, <2>1 DEF IInv, InStep, Mirror, WriteUnderWay
  <2>7. QED
    BY <2>3, <2>4, <2>5, <2>6 DEF IInv
<1>10. CASE master.pc = "read0"
  <2>1. /\ hdata' = IF responder = "dut" THEN Z ELSE regs[haddr]
        /\ master' = [master EXCEPT !.pc = "read1"]
        /\ monitor' = [pc |-> "read1", tr |-> [monitor.tr EXCEPT !.hwr_rd = FALSE,
                                                               !.haddr = haddr]]
    BY <1>1, <1>6, <1>10 DEF MasterPosedge, Echoed, MonitorPosedge, IInv, InStep
  <2>2. /\ responder = "dut" => slave' = slave
        /\ responder = "slave" => slave' = [slave EXCEPT !.pc = "read1"]
    BY <1>1, <1>10 DEF RespondPosedge, SlavePosedge, IInv, SlaveOnBus, Types
  <2>3. haddr = master.tr.haddr /\ haddr \in 0 .. 31 /\ ~hwr_rd /\ hen
    BY <1>10 DEF IInv, Types, InStep, AtRest, Transactions
  <2>4. monitor.tr \in Transactions /\ monitor'.tr \in Transactions
    BY <2>1, <2>3 DEF IInv, Types, Transactions
  <2>5. Types'
    BY <1>1, <1>2, <1>3, <2>1, <2>2, <2>4 DEF IInv, Types
  <2>6. InStep'
    <3>1. /\ master'.pc = "read1" /\ master'.tr = master.tr
          /\ monitor'.pc = "read1"
          /\ monitor'.tr.haddr = haddr /\ ~monitor'.tr.hwr_rd
      BY <2>1, <2>4 DEF IInv, Types, Transactions
    <3>2. /\ (hwr_rd <=> master.tr.hwr_rd) /\ ~hen_was
          /\ \E t \in Access : t.haddr = haddr /\ (t.hwr_rd <=> hwr_rd)
      BY <1>10 DEF IInv, InStep, AtRest
    <3>3. QED
      BY <1>1, <2>3, <3>1, <3>2 DEF InStep, AtRest
  <2>7. RouterOnBus' /\ SlaveOnBus'
    BY <1>1, <1>2, <1>10, <2>1, <2>2
       DEF IInv, Types, RouterOnBus, SlaveOnBus, AtRest, Answered
  <2>8. Mirror'
    BY <1>1, <1>10, <2>1 DEF IInv, InStep, Mirror, WriteUnderWay
  <2>9. QED
    BY <2>5, <2>6, <2>7, <2>8 DEF IInv
<1>11. CASE master.pc = "read1"
  <2>1. /\ hdata' = hdata
        /\ master' = [master EXCEPT !.pc = "read2", !.tr.hdata = Contents(haddr)]
        /\ monitor' = [pc |-> "read2",
                       tr |-> [monitor.tr EXCEPT !.hdata = Contents(haddr)]]
    BY <1>1, <1>6, <1>11 DEF MasterPosedge, MonitorPosedge, ReadData, IInv, InStep
  <2>2. slave' = slave
    BY <1>1, <1>11 DEF RespondPosedge, SlavePosedge, IInv, InStep, SlaveOnBus,
                       Answered, AtRest, Types
  <2>3. Contents(haddr) \in Data
    BY <1>5 DEF Contents, Data
  <2>4. master'.tr = monitor'.tr /\ master'.tr \in Transactions
    BY <1>11, <2>1, <2>3 DEF IInv, Types, InStep, AtRest, Transactions
  <2>5. Types'
    BY <1>1, <1>2, <1>3, <2>1, <2>2, <2>4 DEF IInv, Types
  <2>6. InStep'
    <3>1. /\ master'.pc = "read2" /\ monitor'.pc = "read2"
          /\ master'.tr.haddr = haddr /\ master'.tr.hwr_rd = hwr_rd
          /\ master'.tr.hdata = Contents(haddr)
      BY <1>11, <2>1 DEF IInv, Types, InStep, AtRest, Transactions
    <3>2. Contents(haddr)' = Contents(haddr)
      BY <1>1, <1>2 DEF Contents
    <3>3. /\ hen /\ ~hwr_rd /\ hen_was
          /\ \E t \in Access : t.haddr = haddr /\ (t.hwr_rd <=> hwr_rd)
      BY <1>1, <1>11 DEF IInv, InStep, AtRest
    <3>4. QED
      BY <1>1, <2>4, <3>1, <3>2, <3>3 DEF InStep, AtRest
  <2>7. RouterOnBus' /\ SlaveOnBus'
    BY <1>1, <1>2, <1>11, <2>1, <2>2
       DEF IInv, Types, RouterOnBus, SlaveOnBus, AtRest, Answered
  <2>8. Mirror'
    BY <1>1, <1>11, <2>1 DEF IInv, InStep, Mirror, WriteUnderWay
  <2>9. QED
    BY <2>5, <2>6, <2>7, <2>8 DEF IInv
<1>12. QED
  BY <1>1, <1>7, <1>8, <1>9, <1>10, <1>11 DEF IInv, Types, InStep

\* A negative edge: in every case the monitor and the responder do what fits the
\* master's step.
LEMMA NegedgeFacts ==
  ASSUME IInv, Negedge
  PROVE  /\ clock = 1 /\ clock' = 0 /\ hen_was' = hen /\ responder' = responder
         /\ MasterNegedge /\ RespondNegedge /\ MonitorNegedge
         /\ Mapped' = Mapped
         /\ responder \in {"dut", "slave"}
         /\ responder = "dut" => HostCtl /\ slave' = slave
         /\ responder = "slave" => SlaveNegedge /\ int_data' = int_data
  BY RespondersAssumption
     DEF Negedge, RespondNegedge, Mapped, MappedIn, IInv, Types

\* Without an access under way and without a new one, registers, monitor and
\* slave stay as they are.
LEMMA RestIInv ==
  ASSUME IInv, Negedge, UNCHANGED wires,
         master.pc \in {"get", "item", "delay"},
         master' \in [pc : {"item", "delay"}, left : Nat, tr : Transactions],
         master'.pc = "delay" => master'.left >= 1 /\ master'.tr \in Access
  PROVE  IInv' /\ UNCHANGED <<regs, reported, monitor>>
<1>1. /\ clock = 1 /\ clock' = 0 /\ hen_was' = hen /\ responder' = responder
      /\ MonitorNegedge /\ Mapped' = Mapped
      /\ responder \in {"dut", "slave"}
      /\ responder = "dut" => HostCtl /\ slave' = slave
      /\ responder = "slave" => SlaveNegedge /\ int_data' = int_data
  BY NegedgeFacts
<1>2. /\ UNCHANGED <<hen, hwr_rd, haddr, hdata>>
      /\ ~hen /\ ~hwr_rd /\ monitor.pc = "armed"
  BY DEF wires, IInv, InStep, AtRest
<1>3. UNCHANGED <<monitor, reported, ref>>
  <2>1. ~Publishes /\ ~HenRises
    BY <1>2 DEF Publishes, HenRises
  <2>2. ref' = [a \in DOMAIN ref |-> ref[a]]
    BY <1>1, <2>1 DEF MonitorNegedge
  <2>3. QED
    BY <1>1, <1>2, <2>1, <2>2 DEF MonitorNegedge, IInv, Types
<1>4. regs' = regs
  <2>1. regs' = [a \in Mapped |-> regs[a]]
    BY <1>1, <1>2 DEF HostCtl, SlaveNegedge, HenRises
  <2>2. QED
    BY <2>1 DEF IInv, Types
<1>5. /\ responder = "dut" => int_data' = Z
      /\ responder = "slave" => slave' = slave
  BY <1>1, <1>2 DEF HostCtl, Released, SlaveNegedge, HenRises, IInv, SlaveOnBus, AtRest
<1>6. Types'
  BY <1>1, <1>2, <1>3, <1>4, <1>5 DEF IInv, Types
<1>7. InStep'
  BY <1>1, <1>2, <1>3 DEF IInv, InStep, AtRest
<1>8. RouterOnBus' /\ SlaveOnBus'
  BY <1>1, <1>2, <1>5 DEF IInv, Types, RouterOnBus, SlaveOnBus, AtRest, Answered
<1>9. Mirror'
  BY <1>1, <1>2, <1>3, <1>4 DEF IInv, Mirror, WriteUnderWay
<1>10. QED
  BY <1>3, <1>4, <1>6, <1>7, <1>8, <1>9 DEF IInv

\* The edge at which an access begins: everybody who waits for hen is there.
LEMMA StartIInv ==
  ASSUME IInv, Negedge, MasterStarts
  PROVE  /\ IInv'
         /\ regs' = [a \in Mapped |->
                       IF /\ responder = "slave" /\ master.tr.hwr_rd
                          /\ a = master.tr.haddr
                       THEN master.tr.hdata ELSE regs[a]]
         /\ reported' = reported
<1>1. /\ clock = 1 /\ clock' = 0 /\ hen_was' = hen /\ responder' = responder
      /\ MonitorNegedge /\ Mapped' = Mapped
      /\ responder \in {"dut", "slave"}
      /\ responder = "dut" => HostCtl /\ slave' = slave
      /\ responder = "slave" => SlaveNegedge /\ int_data' = int_data
  BY NegedgeFacts
<1> DEFINE tr == master.tr
           w  == tr.hwr_rd
<1>2. /\ master.pc = "delay" /\ tr \in Access /\ tr \in Transactions
      /\ ~hen /\ ~hwr_rd /\ monitor.pc = "armed" /\ hdata = Z
  BY <1>1 DEF MasterStarts, IInv, Types, InStep, AtRest, RouterOnBus, SlaveOnBus
<1>3. /\ hen' /\ haddr' = tr.haddr /\ hwr_rd' = w
      /\ hdata' = IF w THEN tr.hdata ELSE Z
      /\ master' = [pc |-> IF w THEN "write" ELSE "read0", left |-> 0, tr |-> tr]
  BY <1>2 DEF MasterStarts, AfterStart, IInv, Types
<1>4. HenRises
  BY <1>2, <1>3 DEF HenRises
<1>5. /\ monitor' = [monitor EXCEPT !.pc = IF w THEN "write0" ELSE "read0"]
      /\ reported' = reported /\ ref' = ref
  <2>1. ~Publishes
    BY <1>2 DEF Publishes
  <2>2. ref' = [a \in DOMAIN ref |-> ref[a]]
    BY <1>1, <2>1 DEF MonitorNegedge
  <2>3. QED
    BY <1>1, <1>2, <1>3, <1>4, <2>1, <2>2
       DEF MonitorNegedge, Collects, IInv, Types
<1>6. regs' = [a \in Mapped |-> IF responder = "slave" /\ w /\ a = tr.haddr
                                THEN tr.hdata ELSE regs[a]]
  <2>1. CASE responder = "dut"
    BY <1>1, <1>2, <2>1 DEF HostCtl
  <2>2. CASE responder = "slave"
    <3>1. slave.pc = "armed"
      BY <1>1, <1>2, <2>2 DEF IInv, SlaveOnBus, AtRest
    <3>2. regs' = [a \in Mapped |->
                     IF w /\ tr.haddr = a THEN Stored(a, TwoState(hdata')) ELSE regs[a]]
      BY <1>1, <1>3, <1>4, <2>2, <3>1 DEF SlaveNegedge
    <3>3. ASSUME w PROVE Stored(tr.haddr, TwoState(hdata')) = tr.hdata
      BY <1>2, <1>3, <3>3, OneDriver, StoredAccess DEF Transactions
    <3>4. QED
      BY <2>2, <3>2, <3>3
  <2>3. QED
    BY <1>1, <2>1, <2>2
<1>7. /\ responder = "dut" => int_data' = Z
      /\ responder = "slave" =>
           slave' = [pc |-> IF w THEN "write" ELSE "read0", haddr |-> tr.haddr]
  BY <1>1, <1>2, <1>3, <1>4
     DEF HostCtl, Released, SlaveNegedge, IInv, SlaveOnBus, AtRest
<1>8. Types'
  <2>1. regs' \in [Mapped -> Data]
    BY <1>2, <1>6 DEF IInv, Types, Transactions
  <2>2. QED
    BY <1>1, <1>2, <1>3, <1>5, <1>7, <2>1 DEF IInv, Types, Transactions
<1>9. InStep'
  BY <1>1, <1>2, <1>3, <1>5 DEF IInv, Types, InStep, AtRest, Transactions
<1>10. RouterOnBus' /\ SlaveOnBus'
  BY <1>1, <1>2, <1>3, <1>7, MappedFacts
     DEF IInv, Types, RouterOnBus, SlaveOnBus, AtRest, Answered
<1>11. Mirror'
  <2>1. \A a \in Mirrored : regs[a] = ref[a] /\ a \in Mapped
    BY <1>2, MappedFacts DEF IInv, Mirror, WriteUnderWay
  <2>2. WriteUnderWay' <=> responder = "slave" /\ w
    BY <1>1, <1>5 DEF WriteUnderWay, IInv, Types
  <2>3. QED
    BY <1>2, <1>3, <1>5, <1>6, <2>1, <2>2 DEF Mirror
<1>12. QED
  BY <1>5, <1>6, <1>8, <1>9, <1>10, <1>11 DEF IInv

\* The edge at which a write ends: the router and the reference model take it.
LEMMA EndWriteIInv ==
  ASSUME IInv, Negedge, MasterEndsWrite
  PROVE  /\ IInv'
         /\ regs' = [a \in Mapped |-> IF responder = "dut" /\ a = haddr
                                      THEN hdata ELSE regs[a]]
         /\ reported' = master.tr
<1>1. /\ clock = 1 /\ clock' = 0 /\ hen_was' = hen /\ responder' = responder
      /\ MonitorNegedge /\ Mapped' = Mapped
      /\ responder \in {"dut", "slave"}
      /\ responder = "dut" => HostCtl /\ slave' = slave
      /\ responder = "slave" => SlaveNegedge /\ int_data' = int_data
  BY NegedgeFacts
<1> DEFINE tr == master.tr
<1>2. /\ master.pc = "write" /\ tr \in Access /\ tr \in Transactions
      /\ hen /\ hwr_rd /\ tr.hwr_rd /\ haddr = tr.haddr /\ hdata = tr.hdata
      /\ monitor.pc = "write1" /\ monitor.tr = tr /\ int_data = Z
  BY <1>1 DEF MasterEndsWrite, IInv, Types, InStep, AtRest, RouterOnBus, SlaveOnBus
<1>3. /\ hen' = FALSE /\ hwr_rd' = FALSE /\ hdata' = Z /\ haddr' = haddr
      /\ master' = [master EXCEPT !.pc = "end"]
  BY DEF MasterEndsWrite, AfterWrite
<1>4. Publishes /\ ~HenRises
  BY <1>2, <1>3 DEF Publishes, HenRises
<1>5. /\ monitor' = [monitor EXCEPT !.pc = "armed"]
      /\ reported' = tr
      /\ ref' = [a \in Mirrored |-> IF a = haddr THEN hdata ELSE ref[a]]
  BY <1>1, <1>2, <1>4 DEF MonitorNegedge, IInv, Types
<1>6. regs' = [a \in Mapped |-> IF responder = "dut" /\ a = haddr
                                THEN hdata ELSE regs[a]]
  <2>1. CASE responder = "dut"
    <3>1. hdata_w = hdata
      BY <1>2, OneDriver DEF hdata_w, Transactions
    <3>2. Stored(haddr, hdata) = hdata
      BY <1>2, StoredAccess
    <3>3. QED
      BY <1>1, <1>2, <2>1, <3>1, <3>2 DEF HostCtl
  <2>2. CASE responder = "slave"
    BY <1>1, <1>4, <2>2 DEF SlaveNegedge
  <2>3. QED
    BY <1>1, <2>1, <2>2
<1>7. /\ int_data' = Z
      /\ responder = "dut" => slave' = slave
      /\ responder = "slave" => slave' = [slave EXCEPT !.pc = "sync"]
  BY <1>1, <1>2, <1>4
     DEF HostCtl, Released, SlaveNegedge, IInv, SlaveOnBus, AtRest
<1>8. Types'
  <2>1. regs' \in [Mapped -> Data] /\ ref' \in [Mirrored -> Data]
    BY <1>2, <1>5, <1>6 DEF IInv, Types, Transactions
  <2>2. QED
    BY <1>1, <1>2, <1>3, <1>5, <1>7, <2>1 DEF IInv, Types, Transactions
<1>9. InStep'
  BY <1>1, <1>3, <1>5 DEF IInv, Types, InStep, AtRest
<1>10. RouterOnBus' /\ SlaveOnBus'
  BY <1>1, <1>2, <1>3, <1>7
     DEF IInv, Types, RouterOnBus, SlaveOnBus, AtRest, Answered
<1>11. Mirror'
  <2>1. \A a \in Mirrored : /\ a \in Mapped
                            /\ regs[a] = IF responder = "slave" /\ a = haddr
                                         THEN hdata ELSE ref[a]
    BY <1>2, MappedFacts DEF IInv, Mirror, WriteUnderWay
  <2>2. ~WriteUnderWay'
    BY <1>5 DEF WriteUnderWay, IInv, Types
  <2>3. QED
    BY <1>1, <1>5, <1>6, <2>1, <2>2 DEF Mirror
<1>12. QED
  BY <1>5, <1>6, <1>8, <1>9, <1>10, <1>11 DEF IInv

\* The edge at which a read ends: what is reported is what the register holds,
\* so the mirrored value does not change.
LEMMA EndReadIInv ==
  ASSUME IInv, Negedge, MasterEndsRead
  PROVE  IInv' /\ regs' = regs /\ reported' = master.tr
<1>1. /\ clock = 1 /\ clock' = 0 /\ hen_was' = hen /\ responder' = responder
      /\ MonitorNegedge /\ Mapped' = Mapped
      /\ responder \in {"dut", "slave"}
      /\ responder = "dut" => HostCtl /\ slave' = slave
      /\ responder = "slave" => SlaveNegedge /\ int_data' = int_data
  BY NegedgeFacts
<1>2. /\ master.pc = "read2" /\ hen /\ ~hwr_rd
      /\ monitor.pc = "read2" /\ monitor.tr = master.tr
      /\ master.tr.haddr = haddr /\ master.tr.hdata = Contents(haddr)
      /\ master.tr \in Transactions
  BY DEF MasterEndsRead, IInv, Types, InStep, AtRest
<1>3. /\ hen' = FALSE /\ UNCHANGED <<hwr_rd, haddr, hdata>>
      /\ master' = [master EXCEPT !.pc = "end"]
  BY DEF MasterEndsRead
<1>4. Publishes /\ ~HenRises
  BY <1>2, <1>3 DEF Publishes, HenRises
<1>5. \A a \in Mirrored : regs[a] = ref[a]
  BY <1>2 DEF IInv, Mirror, WriteUnderWay
<1>6. /\ monitor' = [monitor EXCEPT !.pc = "armed"]
      /\ reported' = master.tr
      /\ ref' = ref
  <2>1. ref' = [a \in Mirrored |-> IF haddr = a THEN Contents(haddr) ELSE ref[a]]
    BY <1>1, <1>2, <1>4 DEF MonitorNegedge, IInv, Types
  <2>2. \A a \in Mirrored : ref'[a] = ref[a]
    BY <1>5, <2>1, MappedFacts DEF Contents
  <2>3. ref' = ref
    BY <2>1, <2>2 DEF IInv, Types
  <2>4. QED
    BY <1>1, <1>2, <1>4, <2>3 DEF MonitorNegedge
<1>7. regs' = regs
  <2>1. regs' = [a \in Mapped |-> regs[a]]
    BY <1>1, <1>2, <1>4 DEF HostCtl, SlaveNegedge
  <2>2. QED
    BY <2>1 DEF IInv, Types
<1>8. /\ responder = "dut" => int_data' = IF haddr \in Mapped THEN regs[haddr] ELSE Z
      /\ responder = "slave" => slave' = slave
  BY <1>1, <1>2, <1>4
     DEF HostCtl, SlaveNegedge, IInv, SlaveOnBus, AtRest, Answered
<1>9. Types'
  BY <1>1, <1>2, <1>3, <1>6, <1>7, <1>8 DEF IInv, Types
<1>10. InStep'
  BY <1>1, <1>2, <1>3, <1>6 DEF IInv, Types, InStep, AtRest
<1>11. RouterOnBus' /\ SlaveOnBus'
  BY <1>1, <1>2, <1>3, <1>8
     DEF IInv, Types, RouterOnBus, SlaveOnBus, AtRest, Answered
<1>12. Mirror'
  BY <1>5, <1>6, <1>7 DEF Mirror, WriteUnderWay, IInv, Types
<1>13. QED
  BY <1>6, <1>7, <1>9, <1>10, <1>11, <1>12 DEF IInv

\* The edge between the two half cycles of a read at which the router takes the
\* bus; the slave has taken it at the positive edge before.
LEMMA HoldIInv ==
  ASSUME IInv, Negedge, MasterHolds
  PROVE  IInv' /\ UNCHANGED <<regs, reported, monitor>>
<1>1. /\ clock = 1 /\ clock' = 0 /\ hen_was' = hen /\ responder' = responder
      /\ MonitorNegedge /\ Mapped' = Mapped
      /\ responder \in {"dut", "slave"}
      /\ responder = "dut" => HostCtl /\ slave' = slave
      /\ responder = "slave" => SlaveNegedge /\ int_data' = int_data
  BY NegedgeFacts
<1>2. /\ master.pc = "read1" /\ hen /\ ~hwr_rd /\ monitor.pc = "read1"
      /\ UNCHANGED <<master, hen, hwr_rd, haddr, hdata>>
  BY <1>1 DEF MasterHolds, wires, IInv, InStep, AtRest
<1>3. ~Publishes /\ ~HenRises
  BY <1>2 DEF Publishes, HenRises
<1>4. UNCHANGED <<monitor, reported, ref>>
  <2>1. ref' = [a \in DOMAIN ref |-> ref[a]]
    BY <1>1, <1>3 DEF MonitorNegedge
  <2>2. QED
    BY <1>1, <1>2, <1>3, <2>1 DEF MonitorNegedge, IInv, Types
<1>5. regs' = regs
  <2>1. regs' = [a \in Mapped |-> regs[a]]
    BY <1>1, <1>2, <1>3 DEF HostCtl, SlaveNegedge
  <2>2. QED
    BY <2>1 DEF IInv, Types
<1>6. /\ responder = "dut" => int_data' = IF haddr \in Mapped THEN regs[haddr] ELSE Z
      /\ responder = "slave" => slave' = [slave EXCEPT !.pc = "read2"]
  BY <1>1, <1>2, <1>3 DEF HostCtl, SlaveNegedge, IInv, SlaveOnBus, AtRest
<1>7. Types'
  BY <1>1, <1>2, <1>4, <1>5, <1>6 DEF IInv, Types
<1>8. InStep'
  BY <1>1, <1>2, <1>4 DEF IInv, InStep, AtRest
<1>9. RouterOnBus' /\ SlaveOnBus'
  BY <1>1, <1>2, <1>5, <1>6
     DEF IInv, Types, RouterOnBus, SlaveOnBus, AtRest, Answered
<1>10. Mirror'
  BY <1>1, <1>2, <1>4, <1>5 DEF IInv, Mirror, WriteUnderWay
<1>11. QED
  BY <1>4, <1>5, <1>7, <1>8, <1>9, <1>10 DEF IInv

\* The master waits for an item, gets one, or lets its delay pass.
LEMMA WaitIInv ==
  ASSUME IInv, Negedge, MasterWaits \/ MasterGetsItem \/ MasterDelays
  PROVE  IInv' /\ UNCHANGED <<regs, reported, monitor>>
<1>1. CASE MasterWaits
  <2>1. /\ master.pc \in {"get", "item", "delay"} /\ UNCHANGED wires
        /\ master' \in [pc : {"item"}, left : Nat, tr : Transactions]
    BY <1>1 DEF MasterWaits, IInv, Types
  <2>2. QED
    BY <2>1, RestIInv
<1>2. CASE MasterGetsItem
  <2>1. PICK t \in Access, n \in WaitCycles :
          master' = [pc |-> "delay", left |-> n, tr |-> t]
    BY <1>2 DEF MasterGetsItem
  <2>2. t \in Transactions /\ n \in Nat /\ n >= 1
    BY AccessAssumption, WaitAssumption DEF Transactions, Data
  <2>3. QED
    BY <1>2, <2>1, <2>2, RestIInv DEF MasterGetsItem
<1>3. CASE MasterDelays
  <2>1. /\ master.pc = "delay" /\ master.left - 1 \in Nat /\ master.left - 1 >= 1
        /\ master.tr \in Access /\ UNCHANGED wires
        /\ master' = [master EXCEPT !.left = master.left - 1]
    BY <1>3 DEF MasterDelays, IInv, Types, InStep
  <2>2. /\ master' \in [pc : {"delay"}, left : Nat, tr : Transactions]
        /\ master'.left >= 1 /\ master'.tr \in Access
    BY <2>1 DEF IInv, Types
  <2>3. QED
    BY <2>1, <2>2, RestIInv
<1>4. QED
  BY <1>1, <1>2, <1>3

LEMMA NegedgeIInv == ASSUME IInv, Negedge PROVE IInv'
  BY WaitIInv, StartIInv, EndWriteIInv, EndReadIInv, HoldIInv, NegedgeFacts
     DEF MasterNegedge

LEMMA StutterIInv == ASSUME IInv, UNCHANGED vars PROVE IInv'
  BY DEF vars, wires, IInv, Types, InStep, RouterOnBus, SlaveOnBus, Mirror, AtRest,
         Answered, Contents, WriteUnderWay, Mapped, MappedIn

LEMMA SpecIInv == Spec => []IInv
<1>1. Init => IInv
  BY InitIInv
<1>2. IInv /\ [Next]_vars => IInv'
  BY PosedgeIInv, NegedgeIInv, StutterIInv DEF Next
<1>3. QED
  BY <1>1, <1>2, PTL DEF Spec

-----------------------------------------------------------------------------
(***************************************************************************)
(* What follows.                                                           *)
(***************************************************************************)

\* Types, and no edge at which two drivers disagree: the router, the slave and
\* the master release the bus in time for each other, however close the
\* accesses are.
THEOREM TypeCorrect == Spec => []TypeOK
<1>1. ASSUME IInv PROVE TypeOK
  <2>1. hdata \in Data \cup {Z} /\ int_data \in Data \cup {Z}
        /\ (hdata = Z \/ int_data = Z)
    BY <1>1, RespondersAssumption
       DEF IInv, Types, InStep, RouterOnBus, SlaveOnBus, AtRest, Transactions
  <2>2. hdata_w # X
    BY <2>1, LevelsAssumption, OneDriver, NoDriver DEF hdata_w, Data
  <2>3. QED
    BY <1>1, <2>1, <2>2 DEF IInv, Types, TypeOK, Transactions, Mirrored
<1>2. QED
  BY <1>1, SpecIInv, PTL

\* The reference model's copy of the two registers is the responder's.
THEOREM ReferenceCorrect == Spec => []ReferenceFollows
<1>1. IInv => ReferenceFollows
  BY DEF IInv, Types, Mirror, ReferenceFollows
<1>2. QED
  BY <1>1, SpecIInv, PTL

\* Monitor and slave are waiting for hen whenever it rises.
THEOREM NobodyMisses == Spec => NobodyMissesAnAccess
<1>1. ASSUME IInv, Negedge, HenRises
      PROVE  monitor.pc = "armed" /\ (responder = "slave" => slave.pc = "armed")
  BY <1>1, NegedgeFacts
     DEF MasterNegedge, MasterWaits, MasterGetsItem, MasterDelays, MasterStarts,
         MasterEndsWrite, MasterEndsRead, MasterHolds, wires, HenRises,
         IInv, InStep, SlaveOnBus, AtRest
<1>2. IInv => [Negedge /\ HenRises => /\ monitor.pc = "armed"
                                      /\ responder = "slave" => slave.pc = "armed"]_vars
  BY <1>1
<1>3. QED
  BY <1>2, SpecIInv, PTL DEF NobodyMissesAnAccess

\* The monitor reports the access the master makes.
THEOREM ReportsRequests == Spec => ReportedIsRequested
<1>1. IInv => [Negedge /\ Publishes => monitor.tr = master.tr]_vars
  BY DEF Negedge, Publishes, IInv, Types, InStep, AtRest
<1>2. QED
  BY <1>1, SpecIInv, PTL DEF ReportedIsRequested

\* The two assertions of hbus_if on reads.
THEOREM ReadsTakeTwoCycles == Spec => ReadEnableTwoCycles
<1>1. ASSUME IInv, Negedge, hen, ~hen_was, ~hwr_rd
      PROVE  hen' /\ haddr' = haddr
  <2>1. master.pc = "read1"
    BY <1>1 DEF Negedge, IInv, Types, InStep, AtRest
  <2>2. QED
    BY <1>1, <2>1
       DEF Negedge, MasterNegedge, MasterWaits, MasterGetsItem, MasterDelays,
           MasterStarts, MasterEndsWrite, MasterEndsRead, MasterHolds, wires
<1>2. IInv => [Negedge /\ hen /\ ~hen_was /\ ~hwr_rd => hen' /\ haddr' = haddr]_vars
  BY <1>1
<1>3. QED
  BY <1>2, SpecIInv, PTL DEF ReadEnableTwoCycles
-----------------------------------------------------------------------------
(***************************************************************************)
(* HostBus implements its two abstract specifications: RegisterFile, what  *)
(* the rest of the test bench may rely on, and HostPort, what the router's *)
(* pins see and RouterTb is composed with.                                 *)
(***************************************************************************)

\* A positive edge moves no register and reports nothing, and a write stays on
\* the bus.
LEMMA PosedgeEffect ==
  ASSUME IInv, Posedge
  PROVE  /\ clock = 0 /\ clock' = 1
         /\ UNCHANGED <<responder, hen, hwr_rd, haddr, regs, reported>>
         /\ WriteUnderWay' <=> WriteUnderWay
         /\ hwr_rd => hdata' = hdata /\ master' = master
<1>1. CASE hwr_rd
  <2>1. master.pc = "write" /\ monitor.pc = "write0"
    BY <1>1 DEF IInv, InStep, Posedge
  <2>2. SlaveDrives = hdata
    BY <1>1, <2>1, RespondersAssumption
       DEF SlaveDrives, IInv, Types, RouterOnBus, SlaveOnBus, AtRest
  <2>3. hdata' = hdata /\ master' = master /\ monitor'.pc = "write1"
    BY <2>1, <2>2 DEF Posedge, MasterPosedge, MonitorPosedge
  <2>4. QED
    BY <1>1, <2>1, <2>3 DEF Posedge, WriteUnderWay
<1>2. CASE ~hwr_rd
  <2>1. monitor.pc \notin {"write0", "write1"}
    BY <1>2 DEF IInv, Types, InStep, AtRest
  <2>2. monitor'.pc \notin {"write0", "write1"}
    BY <2>1 DEF Posedge, MonitorPosedge
  <2>3. QED
    BY <1>2, <2>1, <2>2 DEF Posedge, WriteUnderWay
<1>3. QED
  BY <1>1, <1>2

\* Writes are under way exactly while the wires show them.
LEMMA UnderWay ==
  ASSUME IInv PROVE WriteUnderWay <=> responder = "slave" /\ hwr_rd
  BY DEF IInv, Types, InStep, AtRest, WriteUnderWay

LEMMA UnderWayNext ==
  ASSUME IInv' PROVE WriteUnderWay' <=> (responder' = "slave" /\ hwr_rd')
  BY DEF IInv, Types, InStep, AtRest, WriteUnderWay

-----------------------------------------------------------------------------
(* The registers. *)

LEMMA FileInit == ASSUME Init PROVE File!Init
<1>1. ~WriteUnderWay
  BY DEF Init, WriteUnderWay
<1>2. QED
  BY <1>1 DEF Init, File!Init, FileReported, Mapped

\* Each access takes place at one edge: a write when the slave or the router
\* stores it, a read when the monitor reports it.
LEMMA FileNext ==
  ASSUME IInv, IInv', [Next]_vars PROVE [File!Next]_File!vars
<1>1. CASE Posedge
  <2>1. FileReported' = FileReported
    BY <1>1, PosedgeEffect, UnderWay DEF FileReported
  <2>2. QED
    BY <1>1, <2>1, PosedgeEffect DEF File!vars
<1>2. CASE Negedge
  <2>1. /\ responder' = responder /\ responder \in {"dut", "slave"}
        /\ MasterNegedge
        /\ DOMAIN regs = Mapped
    BY <1>2, NegedgeFacts DEF IInv, Types
  <2>2. CASE MasterStarts
    <3>1. /\ master.pc = "delay" /\ master.tr \in Access /\ ~hwr_rd
          /\ reported' = reported
          /\ regs' = [a \in Mapped |-> IF /\ responder = "slave" /\ master.tr.hwr_rd
                                          /\ a = master.tr.haddr
                                       THEN master.tr.hdata ELSE regs[a]]
          /\ haddr' = master.tr.haddr
          /\ hwr_rd' = master.tr.hwr_rd
          /\ master.tr.hwr_rd => hdata' = master.tr.hdata
      BY <1>2, <2>2, StartIInv DEF MasterStarts, IInv, InStep, AtRest
    <3>2. CASE responder = "slave" /\ master.tr.hwr_rd
      <4>1. FileReported' = [hwr_rd |-> TRUE, haddr |-> master.tr.haddr,
                             hdata |-> master.tr.hdata]
        BY <2>1, <3>1, <3>2, UnderWayNext DEF FileReported
      <4>2. StoredIn(responder, master.tr.haddr, master.tr.hdata) = master.tr.hdata
        BY <3>1, <3>2, StoredAccess DEF Stored
      <4>3. regs' = [r \in DOMAIN regs |->
                       IF r = master.tr.haddr
                       THEN StoredIn(responder, master.tr.haddr, master.tr.hdata)
                       ELSE regs[r]]
        BY <2>1, <3>1, <3>2, <4>2
      <4>4. File!Write(master.tr.haddr, master.tr.hdata)
        BY <4>1, <4>3 DEF File!Write
      <4>5. QED
        BY <2>1, <3>1, <3>2, <4>4 DEF File!Next
    <3>3. CASE ~(responder = "slave" /\ master.tr.hwr_rd)
      <4>1. regs' = [a \in Mapped |-> regs[a]]
        BY <3>1, <3>3
      <4>2. regs' = regs
        BY <4>1 DEF IInv, Types
      <4>3. ~WriteUnderWay
        BY <3>1, UnderWay
      <4>4. ~WriteUnderWay'
        BY <2>1, <3>1, <3>3, UnderWayNext
      <4>5. QED
        BY <2>1, <3>1, <4>2, <4>3, <4>4 DEF FileReported, File!vars
    <3>4. QED
      BY <3>2, <3>3
  <2>3. CASE MasterEndsWrite
    <3>1. /\ master.pc = "write" /\ hwr_rd /\ master.tr.hwr_rd
          /\ master.tr \in Access
          /\ haddr = master.tr.haddr /\ hdata = master.tr.hdata
          /\ ~hwr_rd' /\ reported' = master.tr
          /\ regs' = [a \in Mapped |-> IF responder = "dut" /\ a = haddr
                                       THEN hdata ELSE regs[a]]
      BY <1>2, <2>3, EndWriteIInv DEF MasterEndsWrite, IInv, InStep, AtRest
    <3>2. master.tr = [hwr_rd |-> TRUE, haddr |-> haddr, hdata |-> hdata]
      BY <3>1 DEF IInv, Types, Transactions
    <3>3. FileReported' = master.tr
      BY <3>1, UnderWayNext DEF FileReported
    <3>4. CASE responder = "dut"
      <4>1. Stored(haddr, hdata) = hdata
        BY <3>1, StoredAccess
      <4>2. File!Write(haddr, hdata)
        BY <2>1, <3>1, <3>2, <3>3, <3>4, <4>1 DEF File!Write, Stored
      <4>3. QED
        BY <2>1, <3>1, <4>2 DEF File!Next
    <3>5. CASE responder = "slave"
      <4>1. FileReported = master.tr
        BY <3>1, <3>2, <3>5, UnderWay DEF FileReported
      <4>2. regs' = [a \in Mapped |-> regs[a]]
        BY <3>1, <3>5
      <4>3. regs' = regs
        BY <4>2 DEF IInv, Types
      <4>4. QED
        BY <2>1, <3>3, <4>1, <4>3 DEF File!vars
    <3>6. QED
      BY <2>1, <3>4, <3>5
  <2>4. CASE MasterEndsRead
    <3>1. /\ regs' = regs /\ reported' = master.tr /\ ~hwr_rd /\ ~hwr_rd'
          /\ master.tr = [hwr_rd |-> FALSE, haddr |-> haddr,
                          hdata |-> Contents(haddr)]
          /\ \E t \in Access : t.haddr = haddr /\ ~t.hwr_rd
      BY <1>2, <2>4, EndReadIInv
         DEF MasterEndsRead, IInv, Types, InStep, AtRest, Transactions
    <3>2. FileReported' = master.tr
      BY <3>1, UnderWayNext DEF FileReported
    <3>3. File!Read(haddr)
      BY <2>1, <3>1, <3>2 DEF File!Read, Contents
    <3>4. QED
      BY <2>1, <3>1, <3>3 DEF File!Next
  <2>5. CASE MasterWaits \/ MasterGetsItem \/ MasterDelays \/ MasterHolds
    <3>1. UNCHANGED <<regs, reported, monitor>>
      BY <1>2, <2>5, WaitIInv, HoldIInv
    <3>2. ~hwr_rd /\ UNCHANGED hwr_rd
      BY <2>5 DEF MasterWaits, MasterGetsItem, MasterDelays, MasterHolds, wires,
                  IInv, InStep
    <3>3. FileReported' = FileReported
      BY <3>1, <3>2, UnderWay, UnderWayNext DEF FileReported
    <3>4. QED
      BY <2>1, <3>1, <3>3 DEF File!vars
  <2>6. QED
    BY <2>1, <2>2, <2>3, <2>4, <2>5 DEF MasterNegedge
<1>3. CASE UNCHANGED vars
  BY <1>3 DEF vars, wires, File!vars, FileReported, WriteUnderWay
<1>4. QED
  BY <1>1, <1>2, <1>3 DEF Next

\* Whoever answers, the bus is a file of registers, written and read one at a
\* time, each access reported when it takes place.
THEOREM FileRefinement == Spec => ImplementsRegisterFile
<1>1. Spec => File!Spec
  BY FileInit, FileNext, SpecIInv, PTL DEF Spec, File!Spec
<1>2. QED
  BY <1>1 DEF ImplementsRegisterFile

-----------------------------------------------------------------------------
(* The pins. *)

LEMMA PortInit == ASSUME Init PROVE Port!Init
  BY DEF Init, Port!Init, HostPc, NoAccess, HbusIdle, Port!HbusIdle

LEMMA PortNext ==
  ASSUME IInv, [Next]_vars PROVE [Port!Next]_Port!vars
<1> DEFINE hbus == IF hen /\ hwr_rd THEN HbusWrite(haddr, hdata) ELSE HbusIdle
<1>1. CASE Posedge
  <2>1. hbus' = hbus
    BY <1>1, PosedgeEffect
  <2>2. HostPc' = HostPc
    BY <1>1, PosedgeEffect
       DEF Posedge, MasterPosedge, HostPc, IInv, Types, InStep, AtRest
  <2>3. QED
    BY <1>1, <2>1, <2>2 DEF Posedge, Port!Next, Port!Posedge
<1>2. CASE Negedge
  <2>1. clock = 1 /\ clock' = 0 /\ MasterNegedge
    BY <1>2 DEF Negedge
  <2>2. CASE MasterStarts
    <3>1. /\ master.pc = "delay" /\ master.tr \in Access /\ ~hen
          /\ hen' /\ haddr' = master.tr.haddr /\ hwr_rd' = master.tr.hwr_rd
          /\ master.tr.hwr_rd => hdata' = master.tr.hdata
          /\ master'.pc = IF master.tr.hwr_rd THEN "write" ELSE "read0"
      BY <2>2 DEF MasterStarts, AfterStart, IInv, Types, InStep, AtRest
    <3>2. CASE master.tr.hwr_rd
      <4> DEFINE w == [haddr |-> master.tr.haddr, hdata |-> master.tr.hdata]
      <4>0. w \in {[haddr |-> t.haddr, hdata |-> t.hdata] :
                     t \in {u \in Access : u.hwr_rd}}
        BY <3>1, <3>2
      <4>1. Port!HostStarts
        <5>1. hbus' = Port!HbusWrite(w.haddr, w.hdata)
          BY <3>1, <3>2 DEF HbusWrite, Port!HbusWrite
        <5>2. HostPc = "idle" /\ HostPc' = "busy"
          BY <3>1, <3>2 DEF HostPc
        <5>3. QED
          BY <4>0, <5>1, <5>2 DEF Port!HostStarts
      <4>2. QED
        BY <2>1, <4>1 DEF Port!Next, Port!Negedge, Port!HostNegedge
    <3>3. CASE ~master.tr.hwr_rd
      <4>1. Port!HostStays
        BY <3>1, <3>3 DEF Port!HostStays, HostPc
      <4>2. QED
        BY <2>1, <4>1 DEF Port!Next, Port!Negedge, Port!HostNegedge
    <3>4. QED
      BY <3>2, <3>3
  <2>3. CASE MasterEndsWrite
    <3>1. Port!HostEnds
      BY <2>3 DEF MasterEndsWrite, AfterWrite, Port!HostEnds, HostPc,
                  HbusIdle, Port!HbusIdle, IInv, Types, InStep, AtRest
    <3>2. QED
      BY <2>1, <3>1 DEF Port!Next, Port!Negedge, Port!HostNegedge
  <2>4. CASE MasterEndsRead
    <3>1. Port!HostStays
      BY <2>4 DEF MasterEndsRead, Port!HostStays, HostPc, IInv, Types, InStep, AtRest
    <3>2. QED
      BY <2>1, <3>1 DEF Port!Next, Port!Negedge, Port!HostNegedge
  <2>5. CASE MasterHolds
    <3>1. Port!HostStays
      BY <2>1, <2>5 DEF MasterHolds, wires, Port!HostStays, HostPc, IInv, InStep, AtRest
    <3>2. QED
      BY <2>1, <3>1 DEF Port!Next, Port!Negedge, Port!HostNegedge
  <2>6. CASE MasterWaits \/ MasterGetsItem \/ MasterDelays
    <3>1. /\ ~hen /\ ~hen' /\ master.pc \in {"get", "item", "delay"}
          /\ master'.pc \in {"item", "delay"}
      BY <2>6 DEF MasterWaits, MasterGetsItem, MasterDelays, wires,
                  IInv, Types, InStep, AtRest
    <3>2. Port!HostStays \/ Port!HostRests
      BY <3>1 DEF Port!HostStays, Port!HostRests, HostPc
    <3>3. QED
      BY <2>1, <3>2 DEF Port!Next, Port!Negedge, Port!HostNegedge
  <2>7. QED
    BY <2>1, <2>2, <2>3, <2>4, <2>5, <2>6 DEF MasterNegedge
<1>3. CASE UNCHANGED vars
  BY <1>3 DEF vars, wires, Port!vars, HostPc
<1>4. QED
  BY <1>1, <1>2, <1>3 DEF Next

\* The host that RouterTb is composed with allows whatever the master does to
\* the router's pins.
THEOREM PortRefinement == Spec => ImplementsHostPort
<1>1. Spec => Port!Spec
  BY PortInit, PortNext, SpecIInv, PTL DEF Spec, Port!Spec
<1>2. QED
  BY <1>1 DEF ImplementsHostPort
=============================================================================
