------------------------------- MODULE Debug --------------------------------
(***************************************************************************)
(* The emulator's thread: the console (src/src/core/Debugger.cpp) over the *)
(* debug core (BasicDebug.cpp), which steps and runs the machine, with the *)
(* capture of SIGINT (src/src/util/SigCapture.cpp), the loop of the server *)
(* (src/src/gdb/Server.cpp) and the frontend's thread it shares a process  *)
(* with (src/src/frontend/main.cpp).                                       *)
(*                                                                         *)
(* Of the machine a step needs what CPU.tla shows of it: an instruction is *)
(* fetched and executed, or waits for a unit and halts the CPU for as long *)
(* as the unit runs, or gives way to an exception; and the accesses to the *)
(* bus, with the addresses it refuses (Bus.tla).  The commands a session   *)
(* of the server gives are the subject of GDBStub.tla; here they are those *)
(* the console has too.                                                    *)
(***************************************************************************)
EXTENDS Integers, Bus

CONSTANTS Program,      \* the instruction at each address the PC may have
          ResetPc,
          SideloadPc,   \* 0x80030000, where the executable is put in place
          StartPc,      \* its entry point
          Vector,       \* the exception vector
          UnitTime,     \* how long an instruction's unit runs beside it
          Breaks,       \* addresses that breakpoints are set on
          Watches,      \* addresses that watchpoints are set on
          Targets,      \* addresses of the commands that access memory
          PollEvery     \* cont asks stop_on once in so many steps

None == [seg |-> 8, off |-> 0]              \* not an address: nullopt
Pcs == DOMAIN Program

ASSUME ProgramAssumption ==
  /\ {ResetPc, SideloadPc, StartPc, Vector} \subseteq Pcs
  /\ UnitTime \in Nat \ {0} /\ PollEvery \in Nat \ {0}
  /\ \A a \in Pcs \cup Targets \cup Breaks \cup Watches : IsAddress(a)
  /\ \A pc \in Pcs : LET i == Program[pc] IN
       /\ i.starts \in BOOLEAN /\ i.waits \in BOOLEAN /\ i.next \subseteq Pcs
       /\ \A a \in {i.load, i.store} \ {None} : IsAddress(a)

VARIABLES machine,      \* m_sys, and m_sideload_data
          m_breakpts, m_read_watchpts, m_write_watchpts,
          console,      \* run_file, run, or how the thread ended
          doing,        \* what the command line does
          cnt,          \* of cont, modulo PollEvery
          m_enabled, m_pending,     \* SigCapture
          window,       \* whether App::run is running
          last          \* what the last step did

points == <<m_breakpts, m_read_watchpts, m_write_watchpts>>
signals == <<m_enabled, m_pending>>
vars == <<machine, points, console, doing, cnt, signals, window, last>>

(* A step: the instruction it executed; whether an executable was put in   *)
(* place first; whether it executed nothing because it had to wait; and    *)
(* whether a step of this run has gone past its first instruction.         *)
NoStep == [pc |-> None, sided |-> FALSE, idle |-> FALSE, moved |-> FALSE]
Between(did) == [NoStep EXCEPT !.idle = did.idle]       \* what outlasts a run of it

Init ==
  /\ machine = [pc |-> ResetPc, rem_halt |-> 0, unit |-> 0, sideload |-> FALSE,
                read_addr |-> None, write_addr |-> None]
  /\ m_breakpts = {} /\ m_read_watchpts = {} /\ m_write_watchpts = {}
  /\ console \in {"script", "prompt"} /\ doing = "line"
  /\ cnt = 0 /\ m_enabled = FALSE /\ m_pending = FALSE
  /\ window = TRUE /\ last = NoStep

-----------------------------------------------------------------------------
(* One step of the machine: a set of outcomes [m, out, did]                *)

Outcome(m, out, did) == [m |-> m, out |-> out, did |-> did]

(* The ticks that only count, here all at once                             *)
Burned_Mut(m) == m                          \* Mutant: halt cycles are not burned
Burned(m) ==
  [m EXCEPT !.rem_halt = 0,
            !.unit = IF @ > m.rem_halt THEN @ - m.rem_halt ELSE 0]

Sideloads(m) == m.pc = SideloadPc /\ m.sideload
Sideloaded(m) == IF Sideloads(m) THEN [m EXCEPT !.pc = StartPc, !.sideload = FALSE] ELSE m

(* CPU::tick with its accesses: the fetch and at most one of data.  A      *)
(* refused address leaves m_read_addr and m_write_addr as they were; the   *)
(* ROM refuses a store after the bus has noted it.                         *)
Ticked(m0, sided) ==
  LET m == [m0 EXCEPT !.unit = IF @ > 0 THEN @ - 1 ELSE 0]
      i == Program[m.pc]
      f == [m EXCEPT !.read_addr = m.pc]
      did == [NoStep EXCEPT !.pc = m.pc, !.sided = sided]
      waits == [NoStep EXCEPT !.idle = TRUE]
      after == [f EXCEPT !.read_addr = IF i.load = None THEN @ ELSE i.load,
                         !.write_addr = IF i.store = None THEN @ ELSE i.store,
                         !.unit = IF i.starts THEN UnitTime ELSE @]
  IN  IF m.rem_halt > 0
      THEN {Outcome([m EXCEPT !.rem_halt = @ - 1], "ok", waits)}
      ELSE {Outcome([m EXCEPT !.pc = Vector], "ok", NoStep)}            \* an interrupt
           \cup (IF ~Readable(m.pc) THEN {Outcome(m, "panic", NoStep)}
                 ELSE IF i.waits /\ m.unit > 0
                 THEN {Outcome([f EXCEPT !.rem_halt = m.unit], "ok", waits)}
                 ELSE IF i.load # None /\ ~Readable(i.load)
                 THEN {Outcome(f, "panic", NoStep)}
                 ELSE IF i.store # None /\ ~Readable(i.store)
                 THEN {Outcome(f, "panic", NoStep)}
                 ELSE IF i.store # None /\ ~Writable(i.store)
                 THEN {Outcome([f EXCEPT !.write_addr = i.store], "panic", NoStep)}
                 ELSE {Outcome([after EXCEPT !.pc = n], "ok", did) : n \in i.next})

(* BasicDebug::step *)
Stepped(m) == Ticked(Sideloaded(Burned(m)), Sideloads(Burned(m)))

-----------------------------------------------------------------------------
(* The commands of the console.  What is not caught by the console ends    *)
(* the process: a Panic of a step or a store, the runtime_error of a file. *)

Lives == console \in {"script", "prompt"}
AtLine == Lives /\ doing = "line"
AtCommand == Lives /\ doing \in {"line", "session"}

SetPc(a) ==                                 \* set_pc: nothing else of the CPU
  /\ AtLine
  /\ machine' = [machine EXCEPT !.pc = a]
  /\ UNCHANGED <<points, console, doing, cnt, signals, window, last>>

Examine(a) ==                               \* mem_examine, mem_disassemble
  /\ AtLine
  /\ machine' = IF Readable(a) THEN [machine EXCEPT !.read_addr = a] ELSE machine
  /\ UNCHANGED <<points, console, doing, cnt, signals, window, last>>

MemWrite(a) ==                              \* mem_writew, mem_writeh, mem_writeb
  /\ AtLine
  /\ machine' = IF Readable(a) THEN [machine EXCEPT !.write_addr = a] ELSE machine
  /\ console' = IF Writable(a) THEN console ELSE "dead"
  /\ UNCHANGED <<points, doing, cnt, signals, window, last>>

SysStep ==
  /\ AtCommand
  /\ \E o \in Stepped(machine) :
       /\ machine' = o.m /\ last' = Between(o.did)
       /\ console' = IF o.out = "panic" THEN "dead" ELSE console
  /\ UNCHANGED <<points, doing, cnt, signals, window>>

BreakpointSet(a) ==
  /\ AtCommand
  /\ m_breakpts' = m_breakpts \cup {a}
  /\ UNCHANGED <<machine, m_read_watchpts, m_write_watchpts, console, doing, cnt, signals,
                 window, last>>
BreakpointRemove(a) ==
  /\ AtCommand
  /\ m_breakpts' = m_breakpts \ {a}
  /\ UNCHANGED <<machine, m_read_watchpts, m_write_watchpts, console, doing, cnt, signals,
                 window, last>>
WatchpointSetRead(a) ==
  /\ AtCommand
  /\ m_read_watchpts' = m_read_watchpts \cup {a}
  /\ UNCHANGED <<machine, m_breakpts, m_write_watchpts, console, doing, cnt, signals,
                 window, last>>
WatchpointSetWrite(a) ==
  /\ AtCommand
  /\ m_write_watchpts' = m_write_watchpts \cup {a}
  /\ UNCHANGED <<machine, m_breakpts, m_read_watchpts, console, doing, cnt, signals,
                 window, last>>
WatchpointRemove(a) ==                      \* sys_watchpoint_remove: of both kinds
  /\ AtLine
  /\ m_read_watchpts' = m_read_watchpts \ {a}
  /\ m_write_watchpts' = m_write_watchpts \ {a}
  /\ UNCHANGED <<machine, m_breakpts, console, doing, cnt, signals, window, last>>

(* sys_sideload_set, sys_sideload_remove, bios_writefile: a file that is   *)
(* missing or malformed is a runtime_error.                                *)
Sideload(on) ==
  /\ AtLine
  /\ machine' = [machine EXCEPT !.sideload = on]
  /\ UNCHANGED <<points, console, doing, cnt, signals, window, last>>
BadFile ==
  /\ AtLine
  /\ console' = "dead"
  /\ UNCHANGED <<machine, points, doing, cnt, signals, window, last>>

(* run_file, run: a script ends in the console, by its end or by a command *)
(* that cannot be parsed; quit ends either.                                *)
ScriptEnds ==
  /\ AtLine /\ console = "script"
  /\ console' = "prompt"
  /\ UNCHANGED <<machine, points, doing, cnt, signals, window, last>>
Quit ==
  /\ AtLine
  /\ console' = "ended"
  /\ UNCHANGED <<machine, points, doing, cnt, signals, window, last>>

-----------------------------------------------------------------------------
(* sys_run: SigCapture::enable, cont, SigCapture::disable                  *)

SysRun ==
  /\ AtLine
  /\ m_enabled' = TRUE /\ m_pending' = FALSE
  /\ machine' = [machine EXCEPT !.read_addr = None, !.write_addr = None]
  /\ doing' = "cont" /\ cnt' = 0
  /\ UNCHANGED <<points, console, window, last>>

Polls == cnt = 0 /\ m_pending
Counted_Mut == IF cnt = PollEvery - 1 THEN 1 ELSE cnt + 1   \* Mutant: never 0 again
Counted == (cnt + 1) % PollEvery            \* what cnt << cnt_shift keeps of cnt

(* Why cont returns after a step, in the order of the tests: the second    *)
(* and third forget the address they look at, and the later ones are not   *)
(* made once one of them holds.                                            *)
HitsBreakpoint(m) == m.pc \in m_breakpts
HitsRead(m) == ~HitsBreakpoint(m) /\ m.read_addr \in m_read_watchpts
HitsWrite_Mut(m) == FALSE                   \* Mutant: m_write_addr is not looked at
HitsWrite(m) == ~HitsBreakpoint(m) /\ ~HitsRead(m) /\ m.write_addr \in m_write_watchpts

Looked(m) ==
  [m EXCEPT !.read_addr = IF HitsBreakpoint(m) THEN @ ELSE None,
            !.write_addr = IF HitsBreakpoint(m) \/ HitsRead(m) THEN @ ELSE None]

ContStep ==
  /\ Lives /\ doing = "cont" /\ ~Polls
  /\ cnt' = Counted
  /\ \E o \in Stepped(machine) :
       /\ last' = [o.did EXCEPT !.moved = last.moved \/ ~o.did.idle]
       /\ machine' = IF o.out = "panic" THEN o.m ELSE Looked(o.m)
       /\ doing' = IF \/ o.out = "panic"
                      \/ HitsBreakpoint(o.m) \/ HitsRead(o.m) \/ HitsWrite(o.m)
                   THEN "disable" ELSE "cont"
  /\ UNCHANGED <<points, console, signals, window>>

ContInterrupted ==
  /\ Lives /\ doing = "cont" /\ Polls
  /\ doing' = "disable"
  /\ UNCHANGED <<machine, points, console, cnt, signals, window, last>>

Disable_Mut ==                              \* Mutant: the late SIGINT is kept
  /\ Lives /\ doing = "disable"
  /\ m_enabled' = FALSE
  /\ doing' = "line" /\ last' = Between(last)
  /\ UNCHANGED <<machine, points, console, cnt, m_pending, window>>
Disable ==                                  \* a SIGINT that came too late is forgotten
  /\ Lives /\ doing = "disable"
  /\ m_enabled' = FALSE /\ m_pending' = FALSE
  /\ doing' = "line" /\ last' = Between(last)
  /\ UNCHANGED <<machine, points, console, cnt, window>>

-----------------------------------------------------------------------------
(* The server command: Server::run.  pending() is asked before each call   *)
(* of accept, which a signal interrupts only once it blocks.               *)

StartServer ==
  /\ AtLine
  /\ m_enabled' = TRUE /\ m_pending' = FALSE
  /\ doing' = "serve"                       \* unless the port is taken
  /\ UNCHANGED <<machine, points, console, cnt, window, last>>
Serve ==
  /\ Lives /\ doing = "serve"
  /\ doing' = IF m_pending THEN "disable" ELSE "accept"
  /\ UNCHANGED <<machine, points, console, cnt, signals, window, last>>
Accept(connected) ==                        \* a client waits already, or accept blocks
  /\ Lives /\ doing = "accept"
  /\ doing' = IF connected THEN "session" ELSE "blocked"
  /\ UNCHANGED <<machine, points, console, cnt, signals, window, last>>
Connected ==
  /\ Lives /\ doing = "blocked"
  /\ doing' = "session"
  /\ UNCHANGED <<machine, points, console, cnt, signals, window, last>>
SessionEnds ==
  /\ Lives /\ doing = "session"
  /\ doing' = "serve"
  /\ UNCHANGED <<machine, points, console, cnt, signals, window, last>>

(* SIGINT: the captured one is noted and wakes accept; any other goes to   *)
(* the handler of the window's library while there is a window, which      *)
(* closes it, and ends the process afterwards.                             *)
Interrupt ==
  /\ Lives \/ window
  /\ IF m_enabled
     THEN /\ m_pending' = TRUE
          /\ doing' = IF doing = "blocked" THEN "serve" ELSE doing
          /\ UNCHANGED <<window, console>>
     ELSE /\ window' = FALSE
          /\ console' = IF window THEN console ELSE "dead"
          /\ UNCHANGED <<m_pending, doing>>
  /\ UNCHANGED <<machine, points, cnt, m_enabled, last>>

(* App::run returns; main then waits for the console in t.join.            *)
CloseWindow ==
  /\ window /\ console # "dead"
  /\ window' = FALSE
  /\ UNCHANGED <<machine, points, console, doing, cnt, signals, last>>

Exited == ~Lives /\ (window => console = "dead") /\ UNCHANGED vars

Commands ==
  \/ \E a \in Pcs : SetPc(a)
  \/ \E a \in Targets : Examine(a) \/ MemWrite(a)
  \/ SysStep
  \/ \E a \in Breaks : BreakpointSet(a) \/ BreakpointRemove(a)
  \/ \E a \in Watches : WatchpointSetRead(a) \/ WatchpointSetWrite(a) \/ WatchpointRemove(a)
  \/ \E on \in BOOLEAN : Sideload(on)
  \/ BadFile \/ ScriptEnds \/ Quit
  \/ SysRun \/ StartServer
Proceeds == ContStep \/ ContInterrupted \/ Disable \/ Serve
Next ==
  \/ Commands \/ Proceeds
  \/ (\E connected \in BOOLEAN : Accept(connected)) \/ Connected \/ SessionEnds
  \/ Interrupt \/ CloseWindow \/ Exited

DebugSpec == Init /\ [][Next]_vars

(* The emulator's thread goes on while it has something to do.             *)
FairDebugSpec == DebugSpec /\ WF_vars(Proceeds)

-----------------------------------------------------------------------------
(* Types; the assertions of SigCapture::enable and disable (the signal is  *)
(* captured exactly while a run or the server is on); and that a halt ends *)
(* with the unit the CPU waits for.                                        *)
DebugTypeOK ==
  /\ machine.pc \in Pcs
  /\ machine.unit \in 0 .. UnitTime /\ machine.rem_halt \in {0, machine.unit}
  /\ console \in {"script", "prompt", "ended", "dead"}
  /\ doing \in {"line", "cont", "disable", "serve", "accept", "blocked", "session"}
  /\ m_enabled = (doing # "line") /\ (m_pending => m_enabled)
  /\ cnt \in 0 .. PollEvery - 1
  /\ window \in BOOLEAN

(* BasicDebug::cont stops where it was told to.  The instruction at a      *)
(* breakpoint is executed only as the first one of a run, or as the first  *)
(* one of an executable that is put in place in that step; a load or store *)
(* of a watched address is the last thing a run does, although the address *)
(* is noted in one variable the fetch writes too.                          *)
StopsWhereAsked ==
  [][ContStep =>
       LET pc == last'.pc IN
       /\ pc \in m_breakpts => ~last.moved \/ last'.sided
       /\ pc # None => \/ doing' = "disable"
                       \/ /\ Program[pc].load \notin m_read_watchpts
                          /\ Program[pc].store \notin m_write_watchpts]_vars

(* BasicDebug::step ('burning a halt cycle is NOT a step'): a step may     *)
(* find that the instruction has to wait and execute nothing, but the next *)
(* step does not, wherever it is taken, so no number of stalls makes the   *)
(* user step in place.                                                     *)
StepsExecute ==
  [][(ContStep \/ SysStep) /\ last.idle => ~last'.idle]_vars

(* sys_run: SIGINT ends a run, at the latest after the steps between two   *)
(* polls, whatever the machine does.                                       *)
InterruptEndsRun == (doing = "cont" /\ m_pending) ~> (doing = "line")
=============================================================================
