# YAPP router: TLA+ models, model checking and proofs

The repository is a training kit for SystemVerilog and UVM. Its substance is a
packet router in Verilog (`uvm/router_rtl/yapp_router.v`), the verification
components that drive and watch it (`uvm/yapp`, `uvm/channel`, `uvm/hbus`,
`uvm/router`), the test bench that puts them together (`uvm/lab09c`), a second
scoreboard (`uvm/.solutions/lab10`), and a smaller design: a four-port packet
switch with class-based drivers (`essential_sv/essential3`). The class
reference it ships with is a set of pages that run two scripts of their own,
`main.js` and `searchdata.js` under `uvm/uvm1-1_cdns/docs/html/javascript`.
Paths below are relative to `src/uvm_training_1.1/`. Everything else is earlier
stages of the same files (lab01 to lab09b, `.solutions`) or the vendored UVM
library.

## 1. Inventory

| Component | State | Operations | Talks to |
|---|---|---|---|
| Channel buffer: `module fifo` (`yapp_router.v:96-170`) and the output and `data_vld` registers (`:119-121`, `:362-374`) | 16 slots, two 4-bit pointers, `tmp_empty`, `tmp_full`, `data_out` | write, read, both at one negative edge; show at the positive edge; asynchronous reset | input FSM, channel receiver |
| Input FSM: `port_fsm` (`:180-306`) | `state_r`, `dest_chan_r`, `parity`, `error` | take or hold a header, load, dump, check parity | driver through `in_suspend`, buffers through `write_enb`, host registers |
| Host registers: `host_ctl` (`:43-94`) | `max_pkt_reg`, `enable_reg`, `int_data` | register write and read over a shared bus | HBUS, FSM |
| YAPP packet | header, payload, parity byte | parity calculation | driver, monitor |
| YAPP TX agent | position in `send_to_dut`; bytes collected by the monitor | drive header, payload, parity, release; collect | sequencer, router input, scoreboards |
| Channel RX agent (x 3) | stall counter; monitor's two forked tasks | stall, drain, raise suspend; collect packet, measure delay | router output, scoreboards |
| HBUS UVC | position in `drive_transaction`, `send_response`, `collect_transactions`; the slave's registers | write, read, answer, collect | host_ctl, reference models |
| Module UVC | mirrored registers and counters; one queue per channel | `write_hbus`, `write_yapp`, `write_chan0..2` | all monitors, by direct calls through analysis ports |
| lab10 FIFO scoreboard | four TLM FIFOs, mirrored registers, the packet `check_packet` waits with | block on an input packet, judge it, block on its channel, compare; take a register transaction | the same monitors |
| Test bench lab09c | which sequence runs | virtual sequence: host, then packets; or both side by side | sequencers |
| Packet switch | four input and four output queues, ring slots, check/shift state, `suspend_ip` | load, inject, copy, shift, unload | drivers and monitors of `pds_vc.sv` |
| Class reference viewer | groups of the menu; search panel with two timers; the frame with its document; tooltip and its timer; widths of blockquotes; rows of a page of results | click, key, focus, choice of topic, timeout, frame loads, mouse enters and leaves, window resized, toggle, search | the browser |
| Channel TX agent, packet exercises, earlier labs, UVM library | | | not modelled; see section 5 |

Hardware and test bench interact through wires sampled at clock edges, through
tasks blocked at event controls, and through analysis ports, which are plain
calls. The parts of the viewer interact through the browser's event loop. What
is hard here:

- **Edges.** Registers change at negative edges with blocking or nonblocking
  assignments, outputs at positive edges; `almost_empty` looks one write ahead.
  One edge more or less duplicates or skips a byte.
- **Back pressure in a circle.** The driver waits for the router, the router for
  the buffer of the destination to be *empty* (for a header) or *not full* (for
  a payload byte), the buffer for the receiver, the receiver for `data_vld`.
- **Limits.** Payloads one below, at and above the number of slots; a length
  limit of six bits compared with a register of eight.
- **Blocking assignments at a shared edge.** `host_ctl` against the FSM; the
  ring of the switch against the processes that load and unload its queues.
- **Two views of one event.** The reference model judges a packet when its
  parity byte is collected, the router when its header arrives, the lab10
  scoreboard when the packet before it has come out.
- **Waits that are re-armed.** HBUS master, slave and monitor return to their
  waits at different half cycles.
- **Timers that outlive their reason** (viewer): a key timer that fires on an
  inactive panel, one that was overtaken and cannot be cleared any more, a
  tooltip's timer after the mouse has left, a document that is still loading
  when the next search is made in it.

What makes each part correct: the buffer is a bounded queue with exact flags;
the router delivers every legal packet exactly once, whole and in order, and
nothing of the others; the error output tells bad parity from good; `in_suspend`
never stays up; the monitors see what was sent, however it was stalled; the
mirrored registers are the router's; both scoreboards come to the same result;
the switch copies each packet to each target once; the reader of the reference
sees the results for what is in the search field, the tooltip of the link under
the mouse and no other, and exactly the symbols of the row clicked at. The
hazards are listed one by one, with their lines and the properties aimed at
them, in `PROJECT.json`.

## 2. Modules

Router and test bench:

| Module | Models | Notes |
|---|---|---|
| `FifoCore` | the registers of one `fifo` as a record and `fifo_core` as operators on it | shared by `Fifo` and, three times, by `YappRouter` |
| `ByteQueue` | abstract specification: a bounded queue with a registered head | |
| `Fifo` | one output channel under free inputs and reset | refines `ByteQueue` |
| `Packets` | packets, bytes, parity | a byte is (packet, position), an exclusive-or the set of bytes occurring an odd number of times |
| `RouterIf` | the wires and the clock | |
| `YappRouter` | `host_ctl` writes, `port_fsm`, three buffers | `DutNegedge`, `DutPosedge` |
| `YappTxUvc` | YAPP driver and monitor | |
| `ChannelUvc` | RX driver and monitor of every channel | |
| `RouterScoreboard` | `router_reference.sv`, `router_scoreboard.sv` | |
| `FifoScoreboard` | `router_fifo_scoreboard.sv` | `check_packet` runs until it blocks: an operator on the record of the tasks |
| `HostPort` | abstract specification: what the router's pins see of the HBUS master | used as the host in `RouterTb` |
| `RouterTb` | all of the above in `top_dut.sv` | one step is one clock edge |
| `RegisterFile` | abstract specification: registers written and read one access at a time | |
| `HostBus` | HBUS master, monitor, the responder (slave or `host_ctl`), mirrored registers, shared bus | refines `RegisterFile` and `HostPort` |
| `SwitchRing` | `switch_port.sv` with `pds_vc.sv` | |

Class reference viewer:

| Module | Models | Notes |
|---|---|---|
| `ViewerPage` | browser detection, the window, positions | a user agent is the set of the substrings looked for |
| `SearchData` | `searchdata.js` | sets of sections instead of maps to `true` |
| `MenuGroups` | `ToggleMenu`, `HideAllBut` | |
| `SearchPanel` | the class of that name, its controls, and the frame | a handler is one step; loading the frame is two more |
| `SearchResults` | the class of that name | `Toggle`'s loop takes one step per element |
| `Tooltips` | `ShowTip`, `ReallyShowTip`, `HideTip` | |
| `BlockquoteFix` | `NDOnLoad`, `NDOnResize`, `NDDoResize` | |
| `Viewer` | a page that runs one of these parts | |

`MCFifo`, `MCRouterTb`, `MCHostBus`, `MCSwitchRing`, `MCViewer` are the
instances for TLC; `FifoCoreProofs`, `FifoProofs`, `RouterProofs`,
`ScoreboardProofs`, `HostProofs`, `SwitchProofs` and `ViewerProofs` hold the
theorems, and `Recursions` the lemmas on induction and on functions defined by
recursion that two of them rest on.

How state and steps correspond to the code:

- A variable is a register, a wire or the place at which a task is blocked;
  `pc` names that place ("payload" is `@(negedge clock iff !in_suspend)` before
  a payload byte, and so on). Names are the source's.
- `Negedge` and `Posedge` take every process sensitive to that edge together.
  Nonblocking assignments make the processes read the values from before the
  edge, which is what unprimed variables are. `RouterTb!Negedge` therefore is a
  conjunction of the components' parts, not an interleaving.
- Where blocking assignments make the result depend on the simulator's order,
  the model offers every order: `DutNegedge` lets next state and write enable
  each see the length limit before or after `host_ctl`'s update; `SwitchRing`
  lets every input and output process run before or after the ring, wherever
  both use the same queue at that edge, and the registered suspend of port 0
  see the queue before, between or after.
- A wait that is satisfied by a nonblocking assignment (`@(posedge hen)`,
  `@(posedge data_vld)`) resumes after the assignments of the edge: those
  processes read primed variables in `HostBus` and act one half cycle later in
  `ChannelUvc`.
- What sequences randomize is chosen: which of `Kinds`, when (`packet_delay`
  is any number of edges), `resp_delay` out of `RespDelays`, the accesses out
  of `Access`.
- A byte that is read as a header and is none has arbitrary bits
  (`LengthField`), and a bus with two drivers has the value `X`.
- In the viewer a step is a turn of the browser's event loop. What the reader
  does comes in any order with the timers and the frame; only a timeout of zero
  passes before the reader does anything else (`ReaderActs`). A document that
  has been asked for replaces the old one later, and its script runs later
  still; a request made in between replaces the one before it.

Definitions introduced by "Variant:" are not part of any specification. Each
stands before the definition it varies and is a bug that definition could
plausibly have; replacing the one by the other must break the property
`PROJECT.json` names ("mutants").

## 3. Runs

All passing runs are exhaustive.

| Run | States | Shows |
|---|---|---|
| `fifo` | 7 800 | one channel under every order of writes, reads and resets is a bounded queue (`ImplementsByteQueue`), flags exact, output register right, a receiver guided by `data_vld` never empties the buffer |
| `tb_long` | 35 570 | packets that fit, that overflow the buffer with bad parity, for a second channel, and for the address without a channel; receivers at once or after the buffer is full; register writes between packets. Buffers hold gapless runs of one packet (`BuffersHoldOnePacket`), the scoreboard never complains (`ScoreboardClean`), lab10's scoreboard agrees with it although it waits for one channel at a time (`ScoreboardsAgree`) and its FIFOs run empty (`FifosDrain`), parity verdicts are right, measured delays are the applied ones, suspension ends, forwarded packets arrive |
| `tb_short` | 29 379 | lengths one below, at and above the number of slots with early receivers, host side by side with the packets |
| `host` | 5 748 | reads and writes at any spacing, answered by the router or by the UVC's slave: no access is missed (`NobodyMissesAnAccess`), reports are requests, the bus behaves like a register file (`ImplementsRegisterFile`), the reference model mirrors the registers, and at the pins the master is the host of `RouterTb` (`ImplementsHostPort`) |
| `switch` | 48 385 | two packets from each of three ports, back to back, broadcast or single, all process orders: each target gets each packet exactly once and in order |
| `viewer` | 55 021 | each part of the pages under every order of the reader's events, timers and the frame, in two browsers and both output modes |

The longest take about two minutes. The properties of `viewer`:

- `FocusKeepsPanel`, `LeavingDeactivates`: moving the focus inside the panel
  never resets it, leaving it does. Each blur starts an inactivation, which the
  next control must cancel before it fires.
- `ResultsForField`, `RestBringsResults`: when nothing is pending the frame
  shows the page for the text in the field, filtered by it, with the entries
  there are to be seen; and when the reader rests this state is reached. Both
  hold `main.js` to this except where it does otherwise, and `FrameShows` states
  these two cases (section 5 tells how they come about): the reader's own page
  stays when the panel takes it for `NoResults.html` and the text has no page
  (`LeftAlone`), and a search made in a document about to be replaced is lost
  (`misled`), though the right page comes up. TLC reaches both in this run:
  without either exception `ResultsForField` is violated.
- `OnlyTipUnderMouse`, `RestShowsTip`, `TipFitsPage`: the tooltip of the link
  under the mouse comes up, no other one, and inside the page.
- `BoxesFit`: blockquotes are as wide as the window also after it was narrowed.
- `TogglesItsRow`, `WalkEnds`: for every tree of five elements the loop of
  `Toggle`, which climbs and descends with nothing but the current element,
  turns each index below the row over exactly once, nothing else, and ends.
- `RowsMatch`: rows and texts are compared in an encoding made by thirty-one
  replacements, each working on the result of those before; the rows shown are
  those whose names begin with the text.

The assumptions of `MCViewer`, which TLC evaluates, compare operators without
state with what they are meant to compute: the browser detection for user
agents of the time, `HideAllBut` for every set of six groups, and
`searchdata.js` with the number of pages that lie in `docs/html/search`.

Runs that show a disagreement between the code and what its text says; the
lines are in `PROJECT.json` under "findings":

| Run | Property refuted | What happens |
|---|---|---|
| `tb_tight` | `ScoreboardClean` | a payload of one byte less than the buffer has slots, and a receiver that stalls past its end: the parity byte is written into a full buffer and lost |
| `tb_disable` | `ScoreboardClean` | `router_enable` is not looked at by the FSM; the reference model drops what the router forwards |
| `tb_late` | `SameDrops` | a packet waits in lab10's scoreboard because another channel is slow; a limit written meanwhile decides it, and a packet the router forwards is reported as dropped |
| `tb_race` | `BuffersHoldOnePacket` | the length limit is lowered at the very edge that takes a header: the header stays in the buffer without its packet |
| `tb_wide` | `ForwardedPacketsArrive` | a limit of 65 is 65 for the reference model and 1 for the router |
| `switch_suspend` | `SuspendedInputTakesNothing` | a port that reports itself suspended stores the packet its driver holds again at every edge. A queue that gains a packet at every edge and loses one at every other never falls below the limit again, so on ports 1 to 3 the driver is never let go. The instance is small (queue limit 2, one rest cycle) to keep the trace short |

The passing runs are kept away from these situations by their inputs, not by
the model: `tb_long` sends no payload of `Depth - 1` bytes with a late receiver,
writes the registers only between packets, keeps the router enabled and uses
limits below 64; `switch` stops before a queue reaches its limit. The one
exception is lab10's scoreboard: `tb_long` does contain packets judged late,
and `ScoreboardsAgree` and `FifosDrain` except the states after one (`late`).

An observation that is no finding, since nothing written decides it: the
waveform in the router's header comment draws `error` as a pulse, while the
register keeps its value through the gap between packets. `ParityVerdict` says
what the code does.

### Bounds

- `Depth`: 16 in the code, 4 in `tb_long` and the runs that refute, 6 in
  `tb_short`. Pointers wrap by overflow in the code and by comparison in `Inc`;
  with a power of two both are the same function. Four slots are enough for
  every relation between a packet and the buffer: shorter, exactly filling
  (2 payload bytes), overflowing (5, which passes round the buffer once). The
  theorems of section 4 hold for every depth of at least two.
- `MaxLength`: 5 or 6 instead of 63; what matters is the length relative to
  `Depth` and to the limit.
- `RespDelays`: `{0, 5}` at depth 4 is a receiver that begins at once and one
  that begins when everything that fits has arrived; `{0, 2}` at depth 6 stands
  for the code's delays of less than half the buffer.
- `MaxPackets` 3, `MaxHostWrites` 1: three packets are the fewest with which one
  is in the driver, one in a buffer and one in the scoreboard's queue. Packet
  identities are distinct, so a fourth adds no new relation between two.
- `HostBus` needs no bound: its state space is finite although the accesses go
  on for ever. The data are two values per register, one unmapped address. The
  theorems hold for all accesses.
- `SwitchRing`: three ports instead of four, two packets each, one rest cycle
  instead of five so that packets queue up behind each other.
- `SearchPanel`: three texts (empty, and two of which one begins the other, with
  a space), two topics of which one has pages for these texts and for the prompt
  and the other, like four of the nine in `searchdata.js`, for none of them, and
  `MaxStray`, the number of overtaken timers at a time: one is enough for such a
  timer to fire before, between and after the regular one and to clear its
  handle.
- `Tooltips`: two links that share a tooltip and one with another; the widths
  are such that a tooltip fits, is moved, and meets the left edge.
  `BlockquoteFix`: two boxes, three widths.
- `SearchResults`: all trees of five elements with four kinds of elements, and
  one page of five rows whose names begin alike.

### Fairness

The clocked models have `WF_vars(Next)` only: the clock generator is an
unconditional `always #...` and never stops. Nothing is assumed of the choices:
receivers stall for a drawn, finite `resp_delay` because the code counts it
down, and a driver that waits does so because of a signal. `HostBus` and `Fifo`
have safety properties only.

The viewer assumes what a browser does: a timer that was set and a document
that is loading get their turn (`WF_panelVars(Timers \/ Frame)`,
`WF_tipVars(ReallyShowTip)`), and a loop that runs takes its steps
(`WF_srVars(ToggleLoop)`). Nothing is assumed of the reader; `RestBringsResults`
is about behaviours in which the reader rests from some point on.

Deadlock is checked in every run: a step is always possible.

## 4. Proofs

Every theorem is proved from the named assumptions of the modules, for all
values of the constants that satisfy them. Some have hypotheses of their own
(`ASSUME ... PROVE`); each of these is false in a run that refutes the property
or is discussed below, and true in the runs that pass.

**Buffer** (`FifoCoreProofs`, `FifoProofs`; `DepthAssumption`,
`NoByteAssumption`). `TypeCorrect`, `FlagsCorrect` and
`OutputCorrect` are the three invariants of `Fifo`. Exactness of the flags is
what the pointers' distance means, and `OutputIsHead` holds only between a
positive and a negative edge, so the three go into one invariant `IInv`
together with `VldStillTrue`: while the clock is high, a raised `data_vld` still
describes the registers and the write enable it was computed from. Without that
conjunct the next negative edge cannot be judged. `ValidCorrect` follows from
`IInv` and one lemma on the operators, `VldLeavesOne`. `Refinement`: `Fifo`
implements `ByteQueue` when the registers are read through `Contents`; `Ahead`
is injective on positions, so `Write`, `Read` and `ReadWrite` act on the
sequence as append, tail and both, and the flags are determined by the length.

**Router in its test bench** (`RouterProofs`; the assumptions of `FifoCore`,
`Packets`, `YappRouter`, `YappTxUvc`, `RouterTb`). `TypeCorrect` and
`ParityCorrect`: the verdict at the end of each loaded packet is right. What
has to be known is that driver and router take each byte at the same edge,
however often the port is suspended. `IInv` says so by the driver's position:
with the byte at position `i` on the bus the parity register holds the bytes
before `i`, once a byte was taken the FSM has left `HEADER_WAIT` and `error` is
low, and between packets the register is empty. The step lemmas come in two
halves, what the router does at an edge (`FsmStep`, `ParityStep`,
`RegistersStep`) and one for each place the driver can be in. It covers the
race of `host_ctl` with the FSM: whichever limit each sees, a header that is
taken leaves `HEADER_WAIT`.

`BuffersCorrect` and `HeldCorrect` need two hypotheses. `WritesHarmless`: the
virtual sequence writes registers between packets, or no limit written changes
the fate of a packet; `tb_race` shows what happens otherwise. `ParityFits`: when
all bytes of a packet but the parity fill a buffer, its receiver begins to read
before that; `tb_tight` shows what happens otherwise. Both hold in the passing
runs and in the test bench as it stands with the random `resp_delay` of less
than 8 and 16 slots; the second fails for the response sequence that draws
longer delays. The invariant is `Flow`, one conjunct per channel and concern
(`Channel`): while a packet is loaded its buffer holds a gapless run that ends
just before the byte on the bus, or the reader has already taken the beginning
(`BufferLoading`); afterwards the run ends with the parity byte
(`BufferLoaded`); a receiver is where the run lets it be (`Receiver`); and
while the number of slots left can still become zero, the receiver's countdown
is ahead of the writer (`Pace`). `Pace` is what a first attempt lacked: the
driver stops looking at `in_suspend` at the parity byte, so that byte has to
find a slot, which is a matter of how many edges ago the header was taken.

**Monitors and scoreboards** (`ScoreboardProofs`; the same two hypotheses).
`DelayCorrect` and, for the scoreboard, `ScoreboardCorrect`, with a third one:
`ReferenceMirrors`, the reference model starts with the router's limit, is not
disabled (`tb_disable`), and six bits hold the limits (`tb_wide`). The invariant
`Checkers` follows a packet from wire to wire: each monitor has the bytes before
the one it waits for (`InputMonitor`, `Delivery`); the verdict of the reference
model, made when the parity byte is collected, is the router's, made when the
header was taken (`Verdict`); and the scoreboard's queue of a channel is what
is on its way through that channel. `ScoreboardsCorrect` is about the scoreboard
of lab10, with a fourth hypothesis, `SecondMirrors`: its limit of 63 means the
same as the reference model's, and only a 1 is written to the enable register,
because `check_packet` takes the router for enabled by a 1 and the reference
model by anything but 0. The two scoreboards are never in the same state, so
`Agreement` says per channel that the packet `check_packet` waits with, followed
by those in the input FIFO that will be passed on to the channel, are the
packets that came out and lie in the channel's FIFO, followed by those the first
scoreboard still waits for; and that the packets dropped are those the reference
model dropped, less those still in the FIFO. The packets of a FIFO that will be
passed on are a recursive function of the FIFO (`Selected`), of which
`Recursions` proves what appending and removing a packet do. States after a late
verdict are excepted, as in the run (`tb_late`).

**Host bus** (`HostProofs`; the assumptions of `HostBus`). All
seven properties of the run are theorems. The argument is that the positions of
master, monitor and responder fit together at every edge (`InStep`, `RouterOnBus`,
`SlaveOnBus`): which of them may drive the shared wires, and that monitor and
slave are back at their waits when the master starts again. `WaitAssumption`, a
delay of at least one cycle between accesses, is what the driver's loop gives;
`EnableAssumption`, only 0 and 1 are written to the enable register, is needed
because the router keeps one bit of it and the reference model eight.
`FileRefinement` maps registers to registers, except that a write to the slave
counts when the monitor reports it; `PortRefinement` joins this model to
`RouterTb`.

**Switch** (`SwitchProofs`; `SwitchAssumption`). `TypeCorrect` with the bounds of
the queues, and `NoMisrouting`: what a port delivers was sent to it. `IInv` says
of every place a packet can be in that what is left of its targets is part of
them; the lemmas `InputQueue` and `OutputQueue` are stated for either order of
the processes that share a queue.
`ExactlyOnceUnlessHeld` and `SourceOrderUnlessHeld` follow the packets of each
source round the ring: every copy is in one input queue, on the ring with the
targets still before it, in an output queue or delivered; the packets of a
source are in order in its input queue (`Queued`), on the ring by their distance
from the source (`RingOrder`), between ring and output queue (`OffRing`) and in
the output queue (`OutOrder`), and each place is behind the next (`Behind`).
Their hypothesis is about the behaviour, `[]NotHeld`: no driver is held with a
packet its port has taken, for then the port takes it again
(`switch_suspend`). `ExactlyOnceCorrect` and `SourceOrderCorrect` derive it from
a condition on the test, `FewPackets`: no source sends as many packets as
suspend its port. It holds in the run and in `top_4pds_vc.sv`, with one packet per port; for the
four packets of the single source in `top_1pds_vc.sv`, as many as suspend a
port, there are the first two theorems.

**Viewer** (`ViewerProofs`). `TipsCorrect`: a pending timer is that of the link
under the mouse (`TipsInv`). `BoxesCorrect`: setting one box after the other
does not change the width they are taken from (`BoxesInv`). `PanelStaysActive`:
every operation but the focus moving away keeps the two facts it is made of
(`PanelInv`), whatever is searched and loaded. `TipsFit`: a tooltip narrower
than the page is inside it, by what `OffsetLeft` sums up and both corrections.

`ResultsCorrect`: what the panel knows of its last search is what the frame
shows or is about to show (`ResultsInv`: `PanelKnows`, `Unfocused`,
`FrameKnows`). It assumes nothing of topics and index. The page (`RightPage`)
and the text it is filtered by (`Filtered`) are separate facts, since a search
in a document on its way out spoils only the second. The page can be wrong in
one way, which the proof found: on framed pages a key timer that fires after
the reader has left the panel searches for the prompt; if the topic has no page
for "S", the panel remembers `NoResults.html`, and when the reader then follows
a link in that frame and searches for something that has no page either, the
panel believes the frame shows `NoResults.html` already and leaves the other
document there. Two history variables, which no step looks at, record the
causes: `astray` that the reader has followed a link since the panel sent the
frame to `NoResults.html`, `misled` that a document was on its way when the
last search was made. That every other link is harmless rests on `Unfocused`:
the reader can only follow one when the panel is back at its prompt.

`TogglesCorrect`: every element below the row is visited once, in document
order. `Below` and `Climb` are recursive functions; the lemmas that unfold them
come from `Recursions`, which proves induction from the library's least element
of a set of numbers. `GoesOn` says of a step of the loop that it goes to the
least element below the row after the current one, or to the row if there is
none; `SuccessorGoesOn` proves it of the code's three cases for every tree in
document order (`Dom`).

`RowsCorrect`: for all names and texts the rows shown are those whose names
begin with the text. The encoding of a text is the result of thirty-one
replacements, each of which works on what those before have made. The proof
follows one symbol at the end of a text through them (`PassedPiece`,
`NextReplacement`): until its own replacement comes it stays, then it becomes
its code, which no later replacement touches, because the underscore is replaced
first and no symbol is a word of a code. So all of them together are one
translation, symbol by symbol, of the text with its runs of spaces joined
(`PassesCoded`), and that is how the ids of the rows are made. The translation
keeps beginnings in both directions (`NamesAgree`), because the pieces of two
symbols differ where they can be compared (`PiecesMeet`). A text with a symbol
that has no code finds nothing, whatever the last replacement makes of it
(`OtherShows`, `PassesShow`). The hypothesis `NamesCoded` is about the data:
names of rows consist of letters, digits and symbols with a code, as on every
page on disk, and what is typed is symbols, none of which is the word of a code.
The invariant is `SearchedInv`: what is shown are the matches of the text asked
for last, also while an index is being opened.

`TypeCorrect` holds for all parts; in particular `MaxStray` is a bound of the
reader's behaviour and is never passed by a timer firing.

Only model-checked: all liveness, which the prover does not do (`SuspendEnds`,
`ForwardedPacketsArrive`, `FifosDrain`, `Delivered`, `LeavingDeactivates`,
`RestBringsResults`, `RestShowsTip`, `WalkEnds`). Every safety property of the
passing runs is a theorem.

## 5. Not modelled, and why

Components:

- Channel TX agent (`channel_tx_driver.sv`): no test bench of the repository
  that has the router uses it; it needs the stand-alone bench of the channel UVC.
- Packet class exercises: data classes with print and randomize only.
- Earlier labs: progressive copies of the agents lab09c completes.
- UVM library: vendored; phases, objections, the factory and the sequencer's
  arbitration. A sequence is a set of choices, an analysis FIFO a sequence.

Within modelled components:

- Reset in the middle of traffic: `Fifo` has it, `RouterTb`, `HostBus` and
  `SwitchRing` start after the one reset their tops apply.
- Packet handles: packets are values. The monitors of `.solutions`, which lab10
  compiles, make a new packet for each collection
  (`.solutions/yapp/sv/yapp_tx_monitor.sv:73`); the monitor of lab09c fills one
  packet over and over, but everything it is written to clones it
  (`router_scoreboard.sv:38`, `router_reference.sv:45`).
- Payload values, delays inside a cycle, messages, coverage, printing.
- `suspend_op` of the switch: its monitors hold it low for ever.
- Register reads in `RouterTb`: they change nothing the router looks at;
  `HostBus!ImplementsHostPort` is the link.
- Vertical positions, the mouse position `ReallyShowTip` falls back to when a
  link reports no position, `MoveToPosition`'s two ways to set a style, the
  browser's Back button.
- A reader who types the prompt "Search" itself, with or without spaces
  (`PromptAssumption`): the panel takes the text for the prompt (`main.js:640`).

Behaviours of `main.js` the properties leave out, by a stated exception:

- A search made in a document that is about to be replaced (`misled`): whether
  the frame has finished loading is read from its current document, which is
  the old one (`:580`). The new page is the right one; its text is an older one.
- Inactivation leaves a pending key timer alone (`:664`). It fires on the
  inactive panel and searches for the prompt. On framed pages it can leave
  `NoResults.html` behind as the page searched for last, when the topic has no
  page for "S"; in `searchdata.js` Files, Types, Classes and Macros have none,
  and `menu.html` offers all nine topics. If the reader then follows a link in
  the frame and searches for a text without a page, the comparison at `:561`
  leaves the reader's page where `NoResults.html` should come up (`LeftAlone`).
  The run has such a topic and reaches this; property and theorem state it.
- The last replacement of the encoding, `/[^a-z0-9\_]i/gi` (`:797`), matches a
  symbol only together with an `i` behind it. `ReplacedOther` does what it says.
  It makes no difference to `RowsMatch` as long as no row's name has such a
  symbol (`NamesCoded`), which is so on every page on disk and in the instance.
- The timeout of the inactivation is never given a length: the constructor sets
  `deactivateTimeoutLength` (`:399`), the code reads `inactivateTimeoutLength`
  (`:645`), which is undefined and counts as zero.

## 6. Plan

Done: buffer, router with its agents and both scoreboards, host bus, switch,
viewer; theorems for every safety property the passing runs check, and for the three
refinements.

What would come next:

1. An abstract router, per-channel queues of whole packets, with `RouterTb`
   shown to implement it; `Flow` and `Checkers` contain the mapping.
2. A register write inside a packet: the reference model's verdict against the
   router's. The channel TX agent in loop-back with the RX agent. Reset in the
   middle of traffic in `RouterTb`.
