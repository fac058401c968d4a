--------------------------------- MODULE CPU ---------------------------------
(***************************************************************************)
(* The pipeline of the CPU interpreter (src/src/core/CPU.cpp): one action  *)
(* of this module is one call of CPU::tick.  What is kept is everything    *)
(* that makes a tick depend on the ones before it: the delayed load, the   *)
(* branch delay slot, the multiplier/divider and the GTE that run beside   *)
(* the instruction stream and stall it, the exception state of COP0 and    *)
(* the poll of the interrupt controller.                                   *)
(*                                                                         *)
(* The result of an instruction that computes is represented by the        *)
(* operand it is computed from: what can go wrong is which content of      *)
(* which register it saw, not the arithmetic.  Memory is open: the word at *)
(* m_cur_pc (variable word) and the data of a load are any the constants   *)
(* allow, and a tick that leaves m_cur_pc where it is leaves the word too. *)
(***************************************************************************)
EXTENDS Integers, IntCtl

CONSTANTS NumRegs,      \* general registers, 32 in the code
          RA,           \* Reg::RA
          WordSize,     \* size of the address space, 2^32 in the code
          ExcVec,       \* exception vector, by Status.bev
          CounterSize,  \* the cycle counters are u32: 2^32 values
          InitWords,    \* what uninitialised registers may hold
          Instrs        \* the instruction words a program may contain

Regs == 0 .. NumRegs - 1
Word == 0 .. WordSize - 1
Counter == 0 .. CounterSize - 1
HL == {"hi", "lo"}

ExcCodes == {"INT", "OVF", "RI", "ADEL", "ADES", "SYS", "BP"}

Status == [iec : BOOLEAN, kuc : BOOLEAN, iep : BOOLEAN, kup : BOOLEAN,
           ieo : BOOLEAN, kuo : BOOLEAN, im : BOOLEAN, isc : BOOLEAN,
           bev : BOOLEAN]

(***************************************************************************)
(* Instructions, decoded.  Instructions that act alike on the pipeline     *)
(* share an op.                                                            *)
(***************************************************************************)
Instructions ==
       [op : {"ALU", "SRA"}, rd : Regs, rs : Regs]
  \cup [op : {"TRAP"}, code : ExcCodes \ {"INT"}]
  \cup [op : {"LOAD", "MFC2"}, rt : Regs, val : Word]
  \cup [op : {"LWX", "MFC0_EPC", "MTC0_EPC"}, rt : Regs]
  \cup [op : {"BRANCH"}, taken : BOOLEAN, off : Int, link : BOOLEAN]
  \cup [op : {"JUMP"}, target : Word, link : BOOLEAN]
  \cup [op : {"JR"}, rs : Regs, rd : Regs, link : BOOLEAN]
  \cup [op : {"STORE", "PANIC", "RFE"}]
  \cup [op : {"W_STAT", "W_MASK"}, irqs : SUBSET Irqs]
  \cup [op : {"MTC0_SR"}, sr : Status]
  \cup [op : {"MTC0_CAUSE"}, ip : BOOLEAN]
  \cup [op : {"MF"}, h : HL, rd : Regs]
  \cup [op : {"MT"}, h : HL, rs : Regs]
  \cup [op : {"MULTDIV"}, rs : Regs, rt : Regs, cycles : Counter \ {0}]
  \cup [op : {"MTC2"}, rt : Regs]
  \cup [op : {"GTECMD"}, cycles : Counter]

ASSUME SizeAssumption ==
  /\ NumRegs \in Nat \ {0}
  /\ RA \in Regs
  /\ WordSize \in Nat \ {0}
  /\ WordSize % 4 = 0
  /\ CounterSize \in Nat /\ CounterSize > 1
ASSUME VectorAssumption ==
  /\ ExcVec \in [BOOLEAN -> Word]
  /\ \A bev \in BOOLEAN : ExcVec[bev] % 4 = 0
ASSUME ProgramAssumption ==
  /\ InitWords \subseteq Word
  /\ Instrs \subseteq Instructions
  /\ \A i \in Instrs : i.op = "JUMP" => i.target % 4 = 0

VARIABLES m_regs,
          m_load,       \* m_loads[0]; m_loads[1] is in use inside a tick only
          m_cur_pc, m_next_pc, m_in_bds, m_branch_misaligned,
          m_rem_halt,
          m_hilo,       \* m_hi and m_lo
          m_hilo_buf,   \* m_hi_buf and m_lo_buf
          m_multdiv_active, m_multdiv_rem_cycles,
          gte_inflight, gte_rem_cycles,
          sr, cause, epc,       \* m_cop0.regs[SR], [CAUSE], [EPC]
          word,         \* the word at m_cur_pc
          h_last        \* history: the last tick that moved m_cur_pc

regVars  == <<m_regs, m_load>>
pcVars   == <<m_cur_pc, m_next_pc, m_in_bds, m_branch_misaligned, h_last>>
mdVars   == <<m_hilo, m_hilo_buf, m_multdiv_active, m_multdiv_rem_cycles>>
gteVars  == <<gte_inflight, gte_rem_cycles>>
copVars  == <<sr, cause, epc>>
vars     == <<regVars, pcVars, mdVars, gteVars, copVars, m_rem_halt, word,
              intcVars>>

Tags == {"even", "odd", "trap"}

(* Mutant: addresses that do not wrap. *)
Wrap_Mut(x) == x

Wrap(x) == x % WordSize

(* An entry is a pending register write: a delayed load or a write_reg. *)
Entry(r, v) == [valid |-> TRUE, reg |-> r, val |-> v]
NoEntry == [valid |-> FALSE, reg |-> 0, val |-> 0]
Entries == [valid : BOOLEAN, reg : Regs, val : Word]
Put(regs, e) == IF e.valid THEN [regs EXCEPT ![e.reg] = e.val] ELSE regs

CPUTypeOK ==
  /\ IntCtlTypeOK
  /\ m_regs \in [Regs -> Word]
  /\ m_load \in Entries
  /\ m_cur_pc \in Word /\ m_next_pc \in Word
  /\ m_in_bds \in BOOLEAN /\ m_branch_misaligned \in BOOLEAN
  /\ m_rem_halt \in Counter
  /\ m_hilo \in [HL -> Word] /\ m_hilo_buf \in [HL -> Word]
  /\ m_multdiv_active \in BOOLEAN /\ m_multdiv_rem_cycles \in Counter
  /\ gte_inflight \in BOOLEAN /\ gte_rem_cycles \in Counter
  /\ sr \in Status
  /\ cause \in [ip : BOOLEAN, bd : BOOLEAN, code : ExcCodes]
  /\ epc \in Word
  /\ word \in Instrs
  /\ h_last \in [pc : Word, slot : BOOLEAN, tag : Tags]

(* The constructor; the members it does not name start with any content. *)
CPUInit ==
  /\ IntCtlInit
  /\ m_regs \in {f \in [Regs -> InitWords \cup {0}] : f[0] = 0}
  /\ m_load = NoEntry
  /\ m_cur_pc = 0 /\ m_next_pc = Wrap(4)
  /\ m_in_bds = FALSE /\ m_branch_misaligned = FALSE
  /\ m_rem_halt = 0
  /\ m_hilo = [h \in HL |-> 0] /\ m_hilo_buf = [h \in HL |-> 0]
  /\ m_multdiv_active = FALSE /\ m_multdiv_rem_cycles = 0
  /\ gte_inflight = FALSE /\ gte_rem_cycles = 0
  /\ sr = [iec |-> FALSE, kuc |-> FALSE, iep |-> FALSE, kup |-> FALSE,
           ieo |-> FALSE, kuo |-> FALSE, im |-> FALSE, isc |-> FALSE,
           bev |-> TRUE]
  /\ cause \in [ip : BOOLEAN, bd : {FALSE}, code : {"INT"}]
  /\ epc \in InitWords
  /\ word \in Instrs
  /\ h_last = [pc |-> 0, slot |-> FALSE, tag |-> "even"]

-----------------------------------------------------------------------------
(* The units that run beside the instruction stream. *)

MultdivDone == m_multdiv_active /\ m_multdiv_rem_cycles = 1

(* The state tick_multdiv and GTE::tick leave to the rest of the tick. *)
MultdivActive == m_multdiv_active /\ ~MultdivDone
MultdivRem == IF m_multdiv_active THEN (m_multdiv_rem_cycles - 1) % CounterSize
                                  ELSE m_multdiv_rem_cycles
HiLo == IF MultdivDone THEN m_hilo_buf ELSE m_hilo
GteRem == IF gte_inflight THEN (gte_rem_cycles - 1) % CounterSize
                          ELSE gte_rem_cycles
GteInflight == gte_inflight /\ GteRem # 0

TickMultdiv ==
  /\ m_multdiv_active' = MultdivActive
  /\ m_multdiv_rem_cycles' = MultdivRem
  /\ m_hilo' = HiLo
  /\ UNCHANGED m_hilo_buf

TickGte == gte_inflight' = GteInflight /\ gte_rem_cycles' = GteRem

(* tick() polls the controller; the bit it sets in Cause stays set until an
   exception rewrites Cause or the program does. *)
PolledCause == IF Pending THEN [cause EXCEPT !.ip = TRUE] ELSE cause

TakesInterrupt == sr.iec /\ sr.im /\ PolledCause.ip

(* What a tick does beside its instruction. *)
Background ==
  /\ TickMultdiv /\ TickGte
  /\ cause' = PolledCause
  /\ UNCHANGED <<sr, epc, intcVars>>

-----------------------------------------------------------------------------
(* Retirement: tick_load, tick_reg_writeback, increment_pc. *)

R == [m_regs EXCEPT ![0] = 0]           \* after reset_reg0

NoBranch == [valid |-> FALSE, target |-> 0]
BranchTo(pc) == [valid |-> TRUE, target |-> Wrap(pc)]

(* set_branch_not_taken does not look at the alignment of m_cur_pc + 8. *)
Misaligns(b, taken) == taken /\ b.target % 4 # 0

(* The tick moves m_cur_pc: it retires an instruction, or traps. *)
Moved(tag) == [pc |-> m_cur_pc, slot |-> m_in_bds, tag |-> tag]
NextTag == IF h_last.tag = "even" THEN "odd" ELSE "even"

IncrementPc(b, misaligned) ==
  /\ m_cur_pc' = m_next_pc
  /\ m_branch_misaligned' = (~m_in_bds /\ (m_branch_misaligned \/ misaligned))
  /\ m_in_bds' = b.valid
  /\ m_next_pc' = IF b.valid THEN b.target ELSE Wrap(m_next_pc + 4)
  /\ h_last' = Moved(NextTag)

(* The delayed load l0 lands first, so that a write_reg to its register
   cancels it. *)
Commit(regs, l0, write, load) ==
  /\ m_regs' = Put(Put(regs, l0), write)
  /\ m_load' = load

Retire(l0, write, load) ==
  /\ Commit(R, l0, write, load)
  /\ IncrementPc(NoBranch, FALSE)
  /\ UNCHANGED m_rem_halt
  /\ word' \in Instrs

(* set_load drops a load of the same register that is still delayed. *)
AfterSetLoad_Mut(reg) == m_load          \* Mutant: both loads land
AfterSetLoad(reg) == IF m_load.reg = reg THEN NoEntry ELSE m_load

(* An instruction that waits: the load lands, m_cur_pc stays. *)
Halt_Mut(cycles) == cycles + 1           \* Mutant: one tick too many
Halt(cycles) == m_rem_halt + cycles

Stall(cycles) ==
  /\ Background
  /\ m_rem_halt' = Halt(cycles)
  /\ Commit(R, m_load, NoEntry, NoEntry)
  /\ UNCHANGED <<pcVars, word>>

(* trigger_exception and the rest of the tick. *)
PushedStatus == [sr EXCEPT !.ieo = sr.iep, !.kuo = sr.kup,
                           !.iep = sr.iec, !.kup = sr.kuc,
                           !.iec = FALSE]

Epc_Mut == m_cur_pc                      \* Mutant: forgets the delay slot
Epc == IF m_in_bds THEN Wrap(m_cur_pc - 4) ELSE m_cur_pc

(* Mutant: set_pc that leaves m_next_pc to the old path. *)
PcAfter_Mut(vec) == m_cur_pc' = vec /\ m_next_pc' = Wrap(m_next_pc + 4)

(* set_pc(exn_vec - 4), then increment_pc. *)
PcAfter(vec) == m_cur_pc' = vec /\ m_next_pc' = Wrap(vec + 4)

TriggerException(code) ==
  /\ TickMultdiv /\ TickGte
  /\ Commit(R, m_load, NoEntry, NoEntry)
  /\ cause' = [ip |-> FALSE, bd |-> m_in_bds, code |-> code]
  /\ epc' = Epc
  /\ sr' = PushedStatus
  /\ PcAfter(ExcVec[sr.bev])
  /\ m_in_bds' = FALSE
  /\ m_branch_misaligned' = (m_branch_misaligned /\ ~m_in_bds)
  /\ h_last' = Moved("trap")
  /\ word' \in Instrs
  /\ UNCHANGED <<m_rem_halt, intcVars>>

-----------------------------------------------------------------------------
(* One action per way through CPU::tick. *)

(* Mutant: the stall is not counted down. *)
Halted_MutCount ==
  /\ m_rem_halt > 0
  /\ TickMultdiv /\ TickGte
  /\ UNCHANGED <<regVars, pcVars, copVars, m_rem_halt, word, intcVars>>

(* m_rem_halt > 0: only the units run. *)
Halted ==
  /\ m_rem_halt > 0
  /\ m_rem_halt' = m_rem_halt - 1
  /\ TickMultdiv /\ TickGte
  /\ UNCHANGED <<regVars, pcVars, copVars, word, intcVars>>

Live == m_rem_halt = 0

(* The target of the branch before was misaligned. *)
Misaligned ==
  /\ Live /\ m_branch_misaligned
  /\ TriggerException("ADEL")

Interrupted ==
  /\ Live /\ ~m_branch_misaligned /\ TakesInterrupt
  /\ TriggerException("INT")

(* process_instr finds the handler of the word. *)
Handles(ops) ==
  Live /\ ~m_branch_misaligned /\ ~TakesInterrupt /\ word.op \in ops

(* ADDI .. LUI, SLL .. SLTU but SRA and SRAV: write_reg. *)
Alu ==
  /\ Handles({"ALU"})
  /\ Background
  /\ Retire(m_load, Entry(word.rd, R[word.rs]), NoEntry)

(* SRA, SRAV write m_regs at once: the delayed load lands on top. *)
Sra ==
  /\ Handles({"SRA"})
  /\ Background
  /\ Commit([R EXCEPT ![word.rd] = R[word.rs]], m_load, NoEntry, NoEntry)
  /\ IncrementPc(NoBranch, FALSE)
  /\ UNCHANGED m_rem_halt
  /\ word' \in Instrs

(* SYSCALL, BREAK, an unknown opcode, an overflow, a misaligned address. *)
Trap ==
  /\ Handles({"TRAP"})
  /\ TriggerException(word.code)

(* LB .. LHU, and MFC0/CFC0 of the registers not modelled. *)
Load ==
  /\ Handles({"LOAD"})
  /\ Background
  /\ Retire(AfterSetLoad(word.rt), NoEntry, Entry(word.rt, word.val))

(* LWL, LWR merge into the content their register is about to have: a load
   that is still delayed is extended and delayed once more. *)
LoadPart ==
  /\ Handles({"LWX"})
  /\ Background
  /\ LET base == IF m_load.valid /\ m_load.reg = word.rt THEN m_load.val
                                                      ELSE R[word.rt]
     IN Retire(AfterSetLoad(word.rt), NoEntry, Entry(word.rt, base))

MoveFromEpc ==
  /\ Handles({"MFC0_EPC"})
  /\ Background
  /\ Retire(AfterSetLoad(word.rt), NoEntry, Entry(word.rt, epc))

BranchTail(b, misaligned, write) ==
  /\ Background
  /\ Commit(R, m_load, write, NoEntry)
  /\ IncrementPc(b, misaligned)
  /\ UNCHANGED m_rem_halt
  /\ word' \in Instrs

Link(reg) == IF word.link THEN Entry(reg, Wrap(m_cur_pc + 8)) ELSE NoEntry

(* BEQ, BNE, BLEZ, BGTZ, BcondZ: a branch not taken has a delay slot too. *)
Branch ==
  /\ Handles({"BRANCH"})
  /\ LET b == BranchTo(IF word.taken THEN m_next_pc + 4 * word.off ELSE m_cur_pc + 8)
     IN BranchTail(b, Misaligns(b, word.taken), Link(RA))

(* J, JAL *)
Jump ==
  /\ Handles({"JUMP"})
  /\ LET b == BranchTo(word.target) IN BranchTail(b, Misaligns(b, TRUE), Link(RA))

(* JR, JALR *)
JumpReg ==
  /\ Handles({"JR"})
  /\ LET b == BranchTo(R[word.rs]) IN BranchTail(b, Misaligns(b, TRUE), Link(word.rd))

(* Stores to memory, and MTC2/CTC2, which do not wait for the GTE. *)
Store ==
  /\ Handles({"STORE", "MTC2"})
  /\ Background
  /\ Retire(m_load, NoEntry, NoEntry)

(* Stores to the interrupt controller; an isolated cache swallows them. *)
StoreIntCtl ==
  /\ Handles({"W_STAT", "W_MASK"})
  /\ IF sr.isc THEN UNCHANGED intcVars
     ELSE IF word.op = "W_STAT" THEN WriteStat(word.irqs) ELSE WriteMask(word.irqs)
  /\ TickMultdiv /\ TickGte
  /\ cause' = PolledCause
  /\ UNCHANGED <<sr, epc>>
  /\ Retire(m_load, NoEntry, NoEntry)

(* MTC0, RFE: pop_system_state leaves the old pair as it is. *)
PoppedStatus == [sr EXCEPT !.iec = sr.iep, !.kuc = sr.kup,
                           !.kup = sr.kuo, !.iep = sr.ieo]

WriteCop0 ==
  /\ Handles({"MTC0_SR", "MTC0_CAUSE", "MTC0_EPC", "RFE"})
  /\ TickMultdiv /\ TickGte
  /\ sr' = CASE word.op = "MTC0_SR" -> word.sr
             [] word.op = "RFE"     -> PoppedStatus
             [] OTHER            -> sr
  /\ cause' = IF word.op = "MTC0_CAUSE" THEN [PolledCause EXCEPT !.ip = word.ip]
                                     ELSE PolledCause
  /\ epc' = IF word.op = "MTC0_EPC" THEN R[word.rt] ELSE epc
  /\ UNCHANGED intcVars
  /\ Retire(m_load, NoEntry, NoEntry)

(* MFHI, MFLO *)
MoveFrom ==
  /\ Handles({"MF"}) /\ ~MultdivActive
  /\ Background
  /\ Retire(m_load, Entry(word.rd, HiLo[word.h]), NoEntry)

(* MTHI, MTLO *)
MoveTo ==
  /\ Handles({"MT"}) /\ ~MultdivActive
  /\ m_multdiv_active' = MultdivActive
  /\ m_multdiv_rem_cycles' = MultdivRem
  /\ m_hilo' = [HiLo EXCEPT ![word.h] = R[word.rs]]
  /\ UNCHANGED m_hilo_buf
  /\ TickGte
  /\ cause' = PolledCause
  /\ UNCHANGED <<sr, epc, intcVars>>
  /\ Retire(m_load, NoEntry, NoEntry)

(* multdiv_ensure_halt *)
StallMultdiv ==
  /\ Handles({"MF", "MT"}) /\ MultdivActive
  /\ Stall(MultdivRem)

(* MULT, MULTU, DIV, DIVU: a result still on its way is dropped. *)
Multdiv ==
  /\ Handles({"MULTDIV"})
  /\ m_multdiv_active' = TRUE
  /\ m_multdiv_rem_cycles' = word.cycles
  /\ m_hilo_buf' = [h \in HL |-> IF h = "lo" THEN R[word.rs] ELSE R[word.rt]]
  /\ m_hilo' = HiLo
  /\ TickGte
  /\ cause' = PolledCause
  /\ UNCHANGED <<sr, epc, intcVars>>
  /\ Retire(m_load, NoEntry, NoEntry)

(* MFC2, CFC2 *)
MoveFromGte ==
  /\ Handles({"MFC2"}) /\ ~GteInflight
  /\ Background
  /\ Retire(AfterSetLoad(word.rt), NoEntry, Entry(word.rt, word.val))

(* gte_ensure_halt *)
StallGte ==
  /\ Handles({"MFC2", "GTECMD"}) /\ GteInflight
  /\ Stall(GteRem)

(* GTE::cmd; an opcode m_op_times does not name takes 0 cycles. *)
GteCommand ==
  /\ Handles({"GTECMD"}) /\ ~GteInflight
  /\ gte_inflight' = TRUE
  /\ gte_rem_cycles' = word.cycles
  /\ TickMultdiv
  /\ cause' = PolledCause
  /\ UNCHANGED <<sr, epc, intcVars>>
  /\ Retire(m_load, NoEntry, NoEntry)

(* COP1, COP3, LWCx, SWCx: Panic leaves the tick where it stands, and the
   next tick reads the same word. *)
Panic ==
  /\ Handles({"PANIC"})
  /\ Background
  /\ m_regs' = R
  /\ UNCHANGED <<m_load, pcVars, m_rem_halt, word>>

Executes ==
  \/ Alu \/ Sra \/ Trap \/ Load \/ LoadPart \/ MoveFromEpc
  \/ Branch \/ Jump \/ JumpReg
  \/ Store \/ StoreIntCtl \/ WriteCop0
  \/ MoveFrom \/ MoveTo \/ StallMultdiv \/ Multdiv
  \/ MoveFromGte \/ StallGte \/ GteCommand
  \/ Panic

Tick == Halted \/ Misaligned \/ Interrupted \/ Executes

(* GPU::tick and the scheduler run after CPU::tick and may raise a line. *)
Raise == \E i \in Irqs : SetInterrupt(i) /\ UNCHANGED <<regVars, pcVars, mdVars,
                                            gteVars, copVars, m_rem_halt, word>>

CPUNext == Tick \/ Raise

(* The debugger's continue loop and the frontend call tick again and again. *)
CPUSpec == CPUInit /\ [][CPUNext]_vars
FairCPUSpec == CPUSpec /\ WF_vars(Tick)

-----------------------------------------------------------------------------
(* Properties. *)

(* tick_multdiv asserts that an operation on its way has cycles left, and a
   stall lasts exactly until the unit that caused it is done: m_rem_halt was
   copied from that unit's counter (halt_for) and both count down, one at the
   top of every tick, the other in the ticks that return early. *)
StallCoversUnit ==
  /\ m_multdiv_active => m_multdiv_rem_cycles > 0
  /\ m_rem_halt > 0 =>
       \/ m_multdiv_active /\ m_multdiv_rem_cycles = m_rem_halt
       \/ gte_inflight /\ gte_rem_cycles = m_rem_halt

(* The pair of program counters is sequential but in a delay slot, where
   m_next_pc is the target: this is what calc_rel_branch relies on, and what
   makes an exception handler start with an ordinary pair. *)
SequentialUnlessSlot == ~m_in_bds => m_next_pc = Wrap(m_cur_pc + 4)

(* The flag of a misaligned target is up in the delay slot of that branch
   only; anywhere else trigger_exception would not clear it, and every tick
   from then on would raise ADEL. *)
MisalignedInSlotOnly == m_branch_misaligned => m_in_bds

(* A delay slot follows its branch in memory, so m_cur_pc - 4 is the branch;
   a branch that stands in a delay slot itself is the exception, and the
   architecture leaves it undefined. *)
SlotFollowsBranch ==
  m_in_bds /\ ~h_last.slot => m_cur_pc = Wrap(h_last.pc + 4)

(* The program counters and the two flags of a delay slot stay in step, from
   the branch over the slot, a trap or an interrupt in it, to the target. *)
SlotsOK == SequentialUnlessSlot /\ MisalignedInSlotOnly /\ SlotFollowsBranch

(* The EPC an exception leaves is the instruction to restart: the one that
   was not executed, or the branch in whose delay slot it stands. *)
RestartsAtBranch ==
  [][ Misaligned \/ Interrupted \/ Trap =>
        IF m_in_bds THEN h_last.slot \/ epc' = h_last.pc
                    ELSE epc' = m_cur_pc ]_vars

(* An interrupt that is pending and enabled is taken, or another exception
   is, no matter what the program does and which unit it waits for: both
   clear iec.  A program that acknowledges cannot get in between, since every
   tick polls before it executes. *)
InterruptServed == (Pending /\ sr.iec /\ sr.im) ~> ~sr.iec

(* Every instruction is executed or trapped in the end: no stall repeats,
   and none lasts for ever.  (Panic leaves it to the debugger.) *)
ProgramAdvances ==
  \A t \in {"even", "odd"} :
    (h_last.tag = t /\ word.op # "PANIC") ~> h_last.tag # t
=============================================================================
