# sharkpsx: specifications and proofs

TLA+ modules that model sharkpsx, a PlayStation emulator written in C++, TLC
configurations that check them on small instances, and TLAPS proofs of the
properties that matter most. Paths below are relative to `src/src/`; the map
from each definition to the lines it models is in `PROJECT.json`.

The documented build is a Release build (`src/DOC.md`), in which assertions
are compiled out. The models follow that build; an assertion is treated as a
claim of the program about itself, never as a guard.

## 1. Inventory

### How the parts interact

`System::tick` (`core/System.cpp` 31-35) calls `CPU::tick`, `GPU::tick` and
`EventScheduler::tick`, in this order and on one thread, the *emulator's
thread*. The CPU reaches every device through the bus, at most once per tick.
Devices answer by raising a line of the interrupt controller, which the CPU
polls in each tick it does not spend waiting, or by adding events to the
scheduler. `frontend/main.cpp` starts the emulator's thread, which runs the
debugger (console or GDB stub): it is the debugger's continue loop that calls
`System::tick` again and again. The *frontend's thread* (the main one) turns in
`App::run`: it stores the pad's switches in an atomic word and copies finished
pictures out of a buffer protected by a mutex. A signal handler records SIGINT
for the debugger. These are all the threads and all the shared state.

### Components

| component | state | operations | what is hard | what makes it correct |
|---|---|---|---|---|
| System (`System.cpp`) | none of its own | `tick` | the order of CPU, GPU and events in a tick | at most one access of the CPU between two turns of a device |
| CPU (`CPU.cpp`) | registers, one delayed load, two program counters and two flags for delay slots, a halt counter, HI/LO with a buffer and a counter, COP0 | `tick` and an operation per instruction | a load, a write, a stall, a branch and an exception that meet in one tick | the register file is that of a machine without cycles; a stall ends with its unit; EPC restarts the program; interrupts are served |
| GTE (`GTE.cpp`) | 64 registers, a countdown | `tick`, `cmd`, register reads and writes | saturation and flags, timing | a wrong result leaves a flag; the registers can be saved and restored; the CPU waits while a command runs |
| Interrupt controller (`IntCtl.cpp`) | `m_stat`, `m_mask` | `set_interrupt`, `pending`, the two stores | a device raises while the program acknowledges | no interrupt is lost |
| Event scheduler (`EventScheduler.cpp`) | a clock, a priority queue | `add`, `tick` | events due at the same time run in any order | due events run, earlier ones first |
| Serial port (`SIO.cpp`) | RX ring, control, status, baud, mode | reads and stores of registers, two events per byte | the program goes on while a byte is on its way: resets, changes of port, deselections, a second byte, an RX ring that overflows | answers in order, none lost without an overflow, the interrupt after the answer, the transmitter ready again |
| Controller (`Controller.cpp`) | position in the exchange, atomic switches | `set_cs`, `exch`, `set_switches` | the frontend's thread writes between two bytes | a report is the pad's five bytes in order |
| Ring buffer (`util/Fifo.hpp`) | slots, front, back | `push`, `pop`, `peek`, `size`, `clear` | `size` after a wrap | it is a queue |
| GPU (`GPU.cpp`) | a queue of 16 words, a union of command records with a state, display registers, a clock | stores to GP0 and GP1, GPUREAD, GPUSTAT, `tick` | commands of many words parsed one word per tick into records that overlap, resets in the middle, blanks | each command gets its own words in its own fields; the queue never fills; a blank per frame |
| Software renderer (`renderer/`) | VRAM, a dirty flag | draw, blit, `vblank` | the hand-over of pictures between threads | no torn picture, none forgotten |
| Frontend (`frontend/`) | window, texture, picture buffer | `App::run`, key callbacks | two threads, one mutex, closing the window | the last picture is shown |
| Bus and memories (`Bus.cpp`, `MemBlockDevice.cpp`, ...) | bytes | reads and writes of 8, 16, 32 bits | region limits, mirrors | every address goes to one region, no access reaches behind a device, the unaligned instructions move whole words |
| Debug core (`BasicDebug.cpp`) | breakpoints, watchpoints, sideload | `step`, `cont`, `set_*` | stops in the middle of stalls, two watchpoints in one step | steps make progress; a run never passes what it was asked to stop at |
| Debugger console (`Debugger.cpp`, `gdb/strUtil.cpp`) | script or prompt, what the command line does | command lines, scripts, `run`, `run_file` | what is caught and what ends the process, SIGINT, the thread of the window | SIGINT ends a run and not the next one |
| GDB transport (`gdb/SockIO.cpp`) | a ring of 4096 bytes, a socket | `read`, `read_to`, `write`, `buf_fill`, `buf_pop` | blocking reads into a ring of two segments | bytes in order; no read waits for bytes that are not needed |
| GDB protocol (`gdb/GDBServer.cpp`, `core/PSXServer.cpp`) | the packet, `m_ack` | `next`, `write`, `handle_rsp` | bad checksums, interrupts in the middle of a run | what is acknowledged was done |
| Server and signals (`gdb/Server.cpp`, `util/SigCapture.cpp`) | listening socket, pending flag | `run`, `enable` | SIGINT between a check and a blocking call | the server can be stopped |
| Logging, bit fields (`util/`) | none | formatting, accessors | nothing | nothing |

## 2. Modules

| module | models | role |
|---|---|---|
| `IntCtl` | `core/IntCtl.cpp` | component; used by `CPU`, `SIO`, `GPU` |
| `CPU` | `core/CPU.cpp`, the timing of `core/GTE.cpp` | component |
| `RegFile` | the promise of `CPU.hpp` about registers | abstract specification |
| `CPURefinement` | | the refinement mapping from `CPU` to `RegFile` |
| `CPUProofs` | | theorems about `CPU` and the refinement |
| `MCCPURegs`, `MCCPUControl` | | instances for TLC |
| `Words` | unaligned loads and stores and overflow of `core/CPU.cpp`, byte order of `core/MemBlockDevice.cpp` | operators; evaluated with `MCCPURegs` |
| `UNR` | `GTE::divide` | operators at the real width |
| `GTE`, `MCGTE` | `core/GTE.cpp` | component, instance for TLC |
| `GTEProofs` | | theorems |
| `Bus` | `Bus::map_addr` | operators; used by `Debug` |
| `Fifo` | `util/Fifo.hpp` | operators on a record; used by `SIO` and `GPU` |
| `EventSched` | `core/EventScheduler.cpp` | component |
| `Controller` | `core/Controller.cpp` | component |
| `SIO` | `core/SIO.cpp`; composes `IntCtl`, `Controller`, `EventSched`, `Fifo` | component and composition |
| `FifoProofs`, `SIOProofs` | | theorems |
| `MCSIO` | | instance for TLC |
| `GPUWords` | the words of GP0, decoded | shared definitions |
| `GPUCommands` | lengths of commands and order of their words | abstract specification |
| `GPU` | `core/GPU.cpp`, `blit_valid` of `renderer/rendererUtil.cpp` | component |
| `GPUProofs`, `MCGPU` | | theorems about `GPU` and `Display`, instance for TLC |
| `Display` | `renderer/SWRenderer.cpp`, `frontend/App.cpp` | composition of two threads |
| `CharStream` | the promise of `gdb/SockIO.hpp` to its callers | abstract specification |
| `SockIO` | `gdb/SockIO.cpp` | component; run directly |
| `SockIOProofs` | | theorems |
| `Debug` | `core/Debugger.cpp`, `core/BasicDebug.cpp`, `util/SigCapture.cpp`, the loop of `gdb/Server.cpp`, `frontend/main.cpp` | composition of the console's thread with the machine, signals and the window |
| `DebugProofs`, `MCDebug` | | theorems about `Debug`, `Bus` and `Words`; instance for TLC |
| `GDBStub` | `gdb/GDBServer.cpp`, `core/PSXServer.cpp`, points and `cont` of `core/BasicDebug.cpp`, a connection of `gdb/Server.cpp` | composition of stub and client; run directly |
| `StubProofs` | | theorems about `GDBStub` |

Variables keep the names of the members they model. Variables that begin with
`h_` are history: no guard reads them, and they exist so that a property can
speak of the past. `turn` and the `*_pc` variables are control: which
component or which point of a function is next. A definition whose name ends in
`_Mut` is a wrong variant of the one next to it, used to see that a property
fails when the code has that fault.

### CPU

One action is one call of `CPU::tick`. `Halted` is the early return while
`m_rem_halt` counts down, `Misaligned` and `Interrupted` the two exceptions
found before the instruction, and every other action one group of instructions
that act alike on the pipeline. `Background` is what each of them does besides
(`tick_multdiv`, `gte.tick`, the poll of the interrupt controller) and `Retire`
the end of the tick (loads land, program counters move). A `Panic` leaves the
tick where the exception is thrown: the units have advanced, the registers have
been committed, the program counters have not moved.

The result of an instruction that computes is its operand: what the properties
tell apart is which content of which register an instruction saw, not the
arithmetic. Memory is open: the word at `m_cur_pc` is any of `Instrs`, chosen
anew when the program counter moves, and kept when it does not, which covers
self-modifying code and every program. `RegFile` says what a program may rely
on: no cycles, HI and LO ready at once, a load seen by the second instruction
after it, a write cancelling the load of its register. Its constant `Quirks`
names the two departures the code makes.

What single instructions do to words is in `Words`, apart from the pipeline:
the sixteen cases of `LWL`, `LWR`, `SWL` and `SWR`, and the test by which `ADD`,
`ADDI` and `SUB` trap.

### GTE

The unit is a record of the registers as words, the accumulators that are wider
than their registers, and the set of flags. `Read` and `Write` are the accessors
with their side effects (IRGB and ORGB, SXYP, LZCR, MAC, the summary bit of
FLAG). Every command is a function of the record, composed as in the code: the
matrix product with its partial sums, the projection, the interpolation, and the
commands that run these three times on what the run before left. `Tick` executes
the command when its countdown ends, on the registers as they are then: a
register written in the meantime counts. An unknown opcode takes 0 cycles, so
its countdown passes 0 and wraps. The widths are constants that keep the
proportions of the source. The division of the source depends on 16 bits, by its
table; it is modelled at its width in `UNR`, and `GTE` rounds exactly, at the
widths it is given. `GTE()` leaves the registers undefined; a behaviour starts
when the program has written each of them.

### Bus

`Bus` has the numbers of `map_addr`, and its comparisons in their order. It has
no state but the addresses of the last access, which belong to the debugger and
are part of `Debug`.

### Debug core, console and server

The machine of `Debug` is what a step can tell of the one of `CPU`: an
instruction is fetched and executed, or waits for a unit and halts the CPU for
as long as that runs, or gives way to an exception or a panic; the fetch and the
data access leave their addresses on the bus. A program is a function from
addresses to instructions, and each instruction has a set of successors. The
commands of the console are actions. `cont` is one action per step, with the
tests behind it in the order of the code (`HitsBreakpoint`, `HitsRead`,
`HitsWrite`) and the addresses it forgets while it looks (`Looked`). SIGINT may
come between any two steps; where it goes depends on `enable` and on whether the
window's library still has its handler. The server's loop asks `pending` before
each `accept`; what a session may do is the subject of `GDBStub`, and here it
may use the commands both have. `console` says how the thread ended: `ended` by
`quit`, `dead` by an exception that nothing catches.

### Serial port

The actions of the CPU's turn are the register accesses; those of the
scheduler's turn run a due event or end the tick. An event keeps the ticks
left until its time, so there is no clock in the state. The pad and the empty
port are both there; the frontend may store switches at any time. Bytes are
named by what they are (idle line, identification, halves of the switches).
Left out: MODE, which nothing but the program reads back, and the baud rate and
the error bits of STAT, which nothing sets.

### GPU

The CPU's turn stores a word to GP0, clears or resets by GP1, reads GPUREAD, or
acknowledges the blank. The GPU's turn counts the clock and gives one word to
the parser (`ProcessCmd`), which has an alternative for each state of the code.
A word of a command is represented by its number within the command and a word
of an earlier command by 0, so that a field that was not written for this
command shows. The union of records is an array of `Cells`, with the overlaps
of the C++ union. Colours, coordinates and pixels are left out, as are GP1 02
to 08 and 10, which keep what was written, and the environment commands E1 to
E6, whose cases the dispatch on the top three bits never reaches.
`BlitGoesOn` is `blit_valid` as coded: a transfer whose height is not 0 ends
with its first word.

### Display

The emulator's thread draws, and at a blank with `m_dirty` set locks, copies
VRAM in two steps, raises the flag and unlocks; the frontend's thread locks,
tests and clears the flag, copies and unlocks, or quits. A picture is the number
of the drawing that completed it, so a copy of two halves shows whether it is
torn.

### GDB transport

The stub's thread is at one point of one call: `pc` names the loop it is in
(`read`, `read_to`, `write`, the loop of `buf_fill`, the `recv` of
`base_read`), and the records `fill` and `base` hold the locals of the two inner
functions. Between any two steps the client may send a character or close.
`recv` returns any part of what has arrived, or 0 if the client has closed or
the segment has no room. A character is the delimiter or another one.
`CharStream` is what the callers of `read` and `read_to` see: the characters in
order, as many as asked for, or up to the delimiter. Bytes sent are only
counted. A `recv` or `send` that a signal interrupts is repeated by the code and
is no step; the other errors of a socket count as a client that has closed.

### GDB protocol

The symbols of the stream are whole packets, acknowledgements and the interrupt
character; what `recv` has read ahead is in `ring`, the rest in `toStub`, and
`pending_int` looks at the latter only. The stub is in `next`, in `cont`, or in
the read of an acknowledgement inside `write` (`last_ack` when the handler turns
acknowledgements off next). `next` reads a packet in three pieces. Two of them
end at a delimiter and wait for nothing behind it (`DelimiterIsFound`), so they
need no point of their own; the checksum does: where the ring's end cuts it, its
read waits for what stands behind the packet (`ChecksumWaits`, the fault run
`waits` shows in `SockIO`). Where in the ring a packet ends is not part of the
state, so that any packet that is the last one received may meet it. Each command of `handle_rsp` is an action; commands
that only answer share `ServeQuery`. `Run` is one `step` and the tests behind it:
the program goes anywhere, touches any address, or panics. The debug core's sets
outlive sessions, the handler does not.

The client is gdb as the stub sees it: one command at a time, `+` for each
answer until both sides have agreed to do without, the packet again after `-`,
one interrupt per run. Any packet may arrive with a wrong checksum, and the
client may leave at any time. It connects again when the stub has closed: one
that connects earlier waits in the backlog of `listen` (`gdb/Server.cpp` 44) and
is to the stub one that connects then. What this leaves out is its wait, which is
endless behind a run whose client has left and that meets no point.
A `Panic` thrown by `s` or `m` is caught nowhere and ends the process
(`PanicEscapes`), as may a `send` to a client that has left (`PipeBreaks`).

## 3. Runs

Every passing run is exhaustive. "Violation" runs check a claim of a comment or an
assertion in the sources that the code does not keep (section 6).

| run | checks | bounds |
|---|---|---|
| `regs` | `CPUTypeOK`, `StallCoversUnit`, `ImplementsRegFile` | two registers, one address, counters of 3 values, no interrupts |
| `cancel` (violation) | `WritesCancelLoads` | as `regs` |
| `control` | `SlotsOK`, `RestartsAtBranch`, `InterruptServed`, `ProgramAdvances` | three words of code, vectors at 4 and 8, counters of 4 values, one interrupt line |
| `gte` | `GTETypeOK`, `ContextSurvives`, `ExactOrFlagged`, `Saturated`, `TripleIsThreeSingles` | registers of 12 bits, three contents at the start, two writes or commands behind them; the division at 16 bits |
| `sio` | `SIOTypeOK`, `RingHoldsAnswers`, `AnswersAnnounced`, `ReportsInOrder`, `AnswersInOrder`, `InterruptAfterAnswer`, `TransmitterRecovers` | ring of 2, delays 2 and 3, four bytes sent |
| `peeks` (violation) | `PeeksStayInside` | as `sio` |
| `gpu` | `GPUTypeOK`, `StoresSeeParser`, `ParserOK`, `BlankInTime`, `ImplementsCommands` | ring of 2, period 3, clock of 4 values, every kind of word |
| `display` | `PicturesShown`, `DrawingsShown` | six drawings |
| `sockio` | `SockTypeOK`, `SegmentIsFree`, `ImplementsStream`, `DelimiterIsFound` | ring of 4, calls of 2, 3 and 4 characters, up to 3 characters wait in the socket |
| `waits` (violation) | `ReadIsServed` | as `sockio` |
| `stub` | `StubTypeOK`, `AnswersFit`, `AcksAreAcks`, `BreaksHeld`, `InterruptStops`, `AnswerArrives` | two addresses, an interrupt is looked for every third step |
| `debug` | `DebugTypeOK`, `StopsWhereAsked`, `StepsExecute`, `InterruptEndsRun` | seven instructions, a unit of two cycles, one breakpoint, one watched word, SIGINT looked for every second step |

What the runs show:

* `regs`: whatever the sequence of instructions, the register file seen by a
  program is that of `RegFile` with the two quirks, and a stall lasts exactly as
  long as the unit that caused it.
* `control`: with branches anywhere (in delay slots too), targets that are
  misaligned, traps, stalls and interrupts, the pair of program counters is
  sequential outside delay slots, the flag of a misaligned target does not
  outlive the slot, and EPC is the instruction to restart. No stall repeats, and
  an enabled interrupt is taken whatever the program does.
* `gte`: a sum that does not fit its accumulator leaves a flag, and without one
  the result is the exact one (`ExactOrFlagged`); what is limited is the limit
  and is flagged (`Saturated`); the commands for three vertices or colours give
  what three single ones give, although each run starts on registers that the
  one before has changed (colours with their flags, vertices by what they put into
  the two queues); the words a program can read are enough to restore
  the unit, whatever it holds. `UNR`'s assumption: at divisors around the powers
  of two and on a grid between them, the table with its two Newton steps is
  within 3 of the quotient and never leaves 17 bits.
* `sio`: answers arrive in order, are announced, precede their interrupts, and
  are all in the ring as long as no more are unread than it holds, across
  wraps. An overflow loses them all (lemma `PushOverruns`): `RingHoldsAnswers`
  ends there (`h_over`), while the order, the announcement and the reports hold
  behind it too. The transmitter is ready again unless `tx_en` is off when the
  answer is due, and then it need not be; reports are never out of order, whatever resets, deselections
  and changes of port happen while a byte is on its way.
* `gpu`: the parser cuts the stream into commands of the right lengths, and the
  renderer never gets a word of another command or field, through resets and
  overlapping records. The GP0 queue is empty whenever the program stores.
* `display`: pictures are whole, none is forgotten, the last one is shown.
* `sockio`: callers see the characters in order whatever the pieces they arrive
  in and wherever the ring wraps; a call never fails while the client is there;
  `read_to` does not wait for anything behind its delimiter.
* `stub`: over any number of sessions the client takes no answer but the one to
  its last command, and an interrupt that loses the race against the end of a run
  does not eat a command. A client that is served gets that answer or sees the
  session end, with one exception: the stub is left in the read of a checksum
  (`StuckInChecksum`). Without it `AnswerArrives` is false, in five steps. Of the
  wait in the backlog it says nothing.
* `debug`: a run stops at every breakpoint and watchpoint it meets, through
  halts, exceptions, panics and a sideload, but for a breakpoint on its first
  instruction or on the first one of an executable put in place in that step; no
  number of stalls makes the user step in place; SIGINT ends a run within the steps
  between two polls, and one that comes late does not end the next.

Why the bounds are enough. *Registers:* two, one of them the zero register, make
every case of "same register, other register, `$0`". *Counters:* the longest
operation takes two cycles (`regs`), long enough to be found inactive, at its
last cycle and before; `CounterSize` is one more, so the counter of the GTE
passes 0 and wraps. *Addresses:* three words give a branch, its slot and the
target, and wrap around at the end of the address space; two vectors make the
handler overlap with the code. *SIO:* with a delay of 2 and one access per tick
two bytes are on their way at once, and with an acknowledgement at 3 the
interrupt of a byte meets the answer to the next. Four answers wrap a ring
of 2 (three slots) and overflow it. *GPU:* the clock's size is no multiple of
the period, as 2^32 is none of 883000, so the short frame at the wrap happens.
Every command has all combinations of the attributes that decide its length.
*Transport:* calls of 2 are shorter than what
the ring holds (3), calls of 3 fill it, calls of 4 take two turns of `read`;
head and tail take all 16 positions, and the socket holds more than a call
asks for, so that `recv` reads ahead. *Protocol:* address 0, which the
parsing of `z` makes special, and another one; three steps give a poll,
and two steps between polls; nothing else is bounded, since a client that waits for
its answers never has more than three symbols on their way. *GTE:* 12 bits leave
room for halves, colours, screen coordinates, accumulators and shifts that are
in the order of the source's. One content of the registers overflows nowhere,
one has numbers of all sizes, one the limits of both signs; two steps are a
command after another, a write before a command, or a write into its countdown. *Debug:* one
instruction starts the unit and another one waits, in the ROM and across the
sideload; the last ones store to the watched word, to the ROM, and go where no
memory is, so that a store and a fetch are refused. A unit of two cycles is
waited for at its start and at its end. Two steps between polls are one that is
polled and one that is not. *Display:* a picture can be on its way in each of the four places (VRAM, shared
buffer, the frontend's copy, window) while a fifth is drawn.

Deadlock is checked in every run but `display`, where the program may stop
drawing and the window may be closed, and `stub`, where the process may end. In
`debug` the end of the process is a step of its own (`Exited`), and in `gte` a
register may always be read or a command is counted down. TLC computes the
three runs of a command for three vertices one by one (`Thrice`), which keeps
its evaluation shallow.

### Fairness

* `FairCPUSpec`: weak fairness of `Tick`; `FairSIOSpec`: of each turn. The
  debugger's continue loop ticks again and again, and nothing in `tick` waits.
  No fairness is asked of the program, the devices or the frontend.
* `FairDisplaySpec`: weak fairness of the steps inside a copy and of the blank;
  strong fairness of the two locks. `std::mutex` promises no order, but each
  thread holds it only for a copy, and then leaves it for a frame's time, so
  neither can be kept out for ever in the running program. Drawing and closing
  the window are never forced.
* `FairSockSpec`: weak fairness of the stub's thread. Client and callers are not
  forced to do anything, so a `recv` that waits for a silent client waits for
  ever: that is what `DelimiterIsFound` excludes and `ReadIsServed` shows.
* `FairDebugSpec`: weak fairness of the console's thread while it runs the
  machine or leaves a run or the server's loop. It never waits there: `step`
  returns, and `pending` reads a variable. Command lines, clients, signals and
  the window are not forced.
* `FairStubSpec`: weak fairness of the stub's thread, and of the client taking
  what has been sent to it. No command, interrupt or connection is forced, and
  neither is `ChecksumWaits`: it is a choice of where the ring ends, after which
  the stub waits as `recv` does.

## 4. Theorems

All are proved for every value of the constants that satisfies the assumptions
of the modules, which TLC evaluates in the runs:

* `CPU`: addresses wrap at a multiple of 4, vectors and `J` targets are aligned,
  instructions are decoded ones (`SizeAssumption`, `VectorAssumption`,
  `ProgramAssumption`);
* `SIO`: an exchange takes less time than its acknowledgement, as 100 < 250
  (`DelayAssumption`); what the program stores are control and status words
  (`SIOAssumption`);
* `Debug`: the places an instruction is found at, and what it and the points name,
  are addresses; an instruction's successors are in the program; a unit runs for
  at least one tick (`ProgramAssumption`);
* `GTE`: the widths stand in the order of the source's, 4 colours to a word and
  2 halves, the fraction more than a colour and at least 2 bits less than a half
  (`WidthAssumption`: 32, 16, 12, 8, 11, 5); what is written is a word, and a
  command has its six fields, which are what their bits can hold (`InputAssumption`);
* `FifoAssumption`, `GPUAssumption`, `DrawAssumption`, `SockAssumption`,
  `StubAssumption`: sizes and bounds are numbers, sets have the elements the
  others name.

The theorems about `Bus` and `Words` assume nothing: these modules have no
constants.

| theorem | establishes | argument |
|---|---|---|
| `TypeCorrect` | `CPUTypeOK` | inductive; one step per way through a tick |
| `StallIsExact` | `StallCoversUnit` | inductive with the types: `m_rem_halt` is copied from a counter that has just counted, and both count down in every halted tick |
| `ControlFlow` | `SlotsOK` | its three parts are inductive together; `SlotFollowsBranch` needs `SequentialUnlessSlot` at the branch |
| `ExceptionsRestart` | `RestartsAtBranch` | from the control invariants and `Wrap(Wrap(w + 4) - 4) = w` |
| `RegisterRefinement` | `ImplementsRegFile` | simulation: HI and LO are the buffer while an operation runs, halted ticks are stutters, a stalling tick is `StallCommits` |
| `SIOTypeCorrect` | `SIOTypeOK` | inductive |
| `OrderOfAnswers`, `AnswerBeforeInterrupt` | the two action properties of events | invariant `OrderInv` on the times left: of two exchanges the later has more left, an acknowledgement has more left than its exchange; it holds because the CPU sends at most one byte per tick |
| `AnswersAreAnnounced` | `AnswersAnnounced` | inductive: `rx_notempty` is set after a push and cleared only when the ring is empty, for every capacity and after an overrun |
| `ReportsAreInOrder` | `ReportsInOrder` | invariant `ReportInv`: what the pad would say next may follow the last answer in RX; it relates the ring to the pad's position, the select line and the byte on its way |
| `RingIsQueue` | `RingHoldsAnswers` | `FifoProofs`: push appends, pop is the tail, and `size()` is right about empty and full when the ring is what the code assumes |
| `GPUTypeCorrect` | `GPUTypeOK` | from the invariant below |
| `QueueIsDrained` | `StoresSeeParser` | no word in the queue in the CPU's turn, at most one in the GPU's |
| `ParserInside` | `ParserOK` | from the invariant below |
| `BlanksInTime` | `BlankInTime` | the ticks since a blank are at most `m_clk` modulo the period, also after a wrap |
| `CommandRefinement` | `ImplementsCommands` | simulation of `GPUCommands` |
| `SockTypeCorrect`, `SegmentsAreFree` | `SockTypeOK`, `SegmentIsFree` | from the invariant `SInv` below |
| `StreamRefinement` | `ImplementsStream` | simulation of `CharStream`: steps of `buf_fill` are stutters |
| `PicturesAreWhole` | `PicturesShown` | mutual exclusion, and for each point of each thread which halves of which copies are equal |
| `StubTypeCorrect`, `OneAnswerEach`, `NoCommandLost`, `BreakpointsHeld` | `StubTypeOK`, `AnswersFit`, `AcksAreAcks`, `BreaksHeld` | from the invariant `StubInv` below |
| `DebugTypeCorrect`, `StepsDoExecute`, `StopsAtPoints` | `DebugTypeOK`, `StepsExecute`, `StopsWhereAsked` | from the invariant `DebugInv` below |
| `GTETypeCorrect` | `GTETypeOK` | `UnitOK`, kept by each primitive and so by each command; `GTEInv` adds that the command being counted down is one a program can give |
| `ContextsSurvive` | `ContextSurvives` | `RestoredReads`: reading a register that was written gives the word that was read before, by the widths and signs of `UnitOK` |
| `LimitsReported` | `Saturated` | `Done`: `MAC_INTO_IR` relates IR, the accumulators and FLAG, and what a command does after it disturbs none of the three |
| `CutsReported` | `ExactOrFlagged` | `Held`: an accumulator is the exact partial sum or its overflow bit is set; flags only grow until the command ends (`Onward`) |
| `ThreeAreSingles` | `TripleIsThreeSingles`: the entries of the queues, and for the colour commands the flags | two register files that are `Alike` on what a command reads give the same entry; a run leaves the next one's inputs alone (`Painted`, `Placed`), and each pushes the queue by one |
| `AlignedInside`, `OneAddress` | every aligned access stays inside its device (but one behind the scratchpad); two addresses of one byte differ in their segment only, or are images of the memory | one case per region, in the order of the comparisons |
| `UnalignedLoads`, `UnalignedStores` | `LoadsWhole`, `StoresWhole` at every address | one case per alignment; the words meet in one aligned word or in two that are next to each other |
| `OverflowTraps` | `TrapsIfTooBig` for all pairs of 32-bit words | linear arithmetic by the signs |

The properties of the GPU are not inductive: that the renderer is handed the
right words depends on what every earlier state stored. The inductive invariant
(`IInv` in `GPUProofs`) says for each state of the parser which command is being
read, how many of its words have been, and in which cell each stands
(`ParseInv`), together with the bounds on the queue and on the clock. Commands
of a polygon are split by whether a vertex has its own colour and a texture
coordinate, which gives the number of words per vertex (`PerVertex`).

Of the transport (`SInv` in `SockIOProofs`): what the ring holds plus what
`buf_fill` still misses is what it was called for (`FillInv`), a second turn of
its loop happens only after the first has reached the end of the buffer, and
then the tail is before the head, so what a turn asks for always fits into the
segment it gives to `recv` (`AskedFits`). `PopIs` and `RecvIs` say what the
index arithmetic does to the sequence of characters.

Of the protocol (`StubInv` in `StubProofs`), everything is said of what the stub
has yet to read, in the ring or in the socket, as one sequence (`Pending`): moving
symbols into the ring changes nothing. It holds at most one packet, which is the
client's last command, and only `c` may have an interrupt behind it; from the
client's state and whether that packet is still pending follows what the client
has yet to read (`Progress`). Both sides acknowledge or neither does, except
while the acknowledgement of the last `OK` is on its way, and where the stub waits
for one, the next symbol is one (`Modes`). An answer to `Z` is on its way only
when the breakpoint is in the set (`PointsHeld`).

Of the debug core (`DebugInv` in `DebugProofs`): a halted CPU halts for exactly as
long as the unit runs (`Halted`), which a step that executed nothing establishes
and a halt that is burned ends; so the next step executes. A run that has gone
past its first instruction and goes on does not stand at a breakpoint (`LastOK`).

The GTE is proved for all widths, so powers of two have symbolic exponents, which
no backend knows anything of. `GTEProofs` begins with what it needs of them: `2^n`
is the number of subsets of `1 .. n`, `2^(n + 1)` twice that, and sums of exponents
follow by the least counterexample. Shifts, cuts and sign extensions are then facts
about division.

That a command for three is three commands for one compares two executions. `Alike`
says that two register files agree in the inputs the commands share, in what the
accumulators were last given, and that what one has in FLAG the other has too;
each step of a command keeps two such files alike, up to a result, which is then
the same. The command for one starts from the registers before the command for
three, so the second half of the proof says what a run keeps: the vectors, the
matrices and the colour it did not take. For the colours the queue is also the
input (`dpct` reads `RGB0` three times, as the two pushes before have moved the
next colour there), and for the vertices IR0 may change only in the third run.

Only model-checked: the liveness properties (`InterruptServed`,
`ProgramAdvances`, `TransmitterRecovers`, `DrawingsShown`, `DelimiterIsFound`,
`InterruptStops`, `AnswerArrives`, `InterruptEndsRun`), which the prover cannot
reach. `DivideIsClose` of `UNR` is evaluated at the divisors it names and not
proved for the others.

## 5. Not modelled

* The results of the CPU's arithmetic other than those of `Words`; BADA;
  `putchar` and the characters of the Redux device: data that no property tells
  apart and no other part reads.
* The contents of the memories, beyond the byte order of a word.
* Pixels, colours and the geometry of the renderer, windows and textures;
  display registers of the GPU that only keep what was written.
* Splitting and parsing of command lines, the disassembler, the escape of
  characters in packets and the data in answers.
* `socket`, `bind` and `listen`: they fail before anything runs.
* Construction, ROM loading, logging, bit fields: no behaviour over time.

## 6. Where the code and its comments disagree

* `cancel`: `CPU.hpp` says that `write_reg` must be used to change registers, so
  that loads are cancelled. SRA and SRAV assign to `m_regs`, and the delayed load
  of their target overwrites the result.
* `peeks`: `Fifo::peek` asserts `i < size()`. `size()` of a wrapped ring is
  wrong, so with one unread answer `rd_rx` shifts in stale bytes.
* `waits`: `buf_fill` is to read until the ring has `cnt` characters. What is
  missing is computed once; when the first turn of the loop ends at the end of
  the buffer, the second asks for all of it again. A checksum that arrives after
  its `#` was received, and whose first digit goes into the last slot of the
  buffer, makes the stub wait for a character that the client does not send: the
  session hangs. `ChecksumWaits` has this in the protocol, where it is the one
  way a client that is served is left with neither an answer nor an end.

Modelled as coded, with no property that says otherwise:

* The tick that decides to halt commits the delayed load (`CPU.cpp` 169), so an
  instruction in a load delay slot that waits sees the loaded value, and one
  that does not wait sees the old one. `CPU.hpp` 9 and 196-198 say that a stall
  performs nothing; `RegFile` has it as the quirk `StallCommits`.
* `map_addr` compares with the address one behind the scratchpad
  (`0x1F800400`): it goes to the scratchpad, whose assertion a Release build does
  not have (`MemBlockDevice.cpp` 31). `AlignedInside` leaves that address out.
* GTE: with RTPS and RTPT IR3 is limited as it stands in MAC3, while its flag
  looks at the value shifted by 12 (`lim_A3_SF`); the hidden bits of an accumulator do not survive a save and
  restore; writes while a command is counted down change its operands; an unknown
  opcode makes the next access wait for 2^32 - 1 ticks.
* Breakpoints and watchpoints compare whole virtual addresses: a mirror of the
  same byte is not seen. An executable put in place at a breakpoint on its entry
  point executes its first instruction in that step.
* SIGINT between `pending()` and `accept()` waits for the next connection. Closing
  the window leaves `main` waiting for the console in `t.join`.
* A `Panic` thrown by a step or a store of the console is caught nowhere and ends
  the process.
* The address of a `z` packet is read as 0 (`PSXServer.cpp` 95 cuts at 2, line 72
  at 3): `OK` is answered, the point stays, and a point at 0 goes. `BreaksHeld`
  says that no other point is lost, and says nothing of points that stay.
* Without acknowledgements the interrupt may be read into the ring together with
  the `c` packet. `pending_int` does not see it there, and `next` drops it later:
  `InterruptStops` without the restriction to `clAck` is false.

## 7. Plan

Done, in this order: CPU with `RegFile`, the serial port with its devices, the
GPU with `GPUCommands`, the display, the transport with `CharStream`, the GDB
protocol with the loop of `cont`, the GTE with its division, the address map and
the words of the CPU, the console with the debug core, signals and the server's
loop.

Next:

1. The abstract specification `GDBStub` implements, a client and a server that
   exchange commands and answers, with the refinement proved from `StubInv`.
2. The machine of `Debug` as an abstraction of `CPU`; composition of the CPU with
   the interrupt controller and a device.
3. The pad's report against switches that change between its two halves; the
   debugger's stores to GP0.
