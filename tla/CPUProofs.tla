------------------------------ MODULE CPUProofs ------------------------------
(***************************************************************************)
(* Proofs about module CPU, for every program and every size of the        *)
(* register file, the address space and the counters; the last of them is  *)
(* that the pipeline implements RegFile.                                   *)
(***************************************************************************)
EXTENDS CPURefinement, TLAPS

(* What a wrapped address or a counter that was counted down is. *)
LEMMA WrapInWord == \A x \in Int : Wrap(x) \in Word
  BY SizeAssumption DEF Wrap, Word

LEMMA CountdownInCounter ==
  \A x \in Counter : /\ (x - 1) % CounterSize \in Counter
                     /\ x > 0 => (x - 1) % CounterSize = x - 1
  BY SizeAssumption DEF Counter

(* Entries fit the registers. *)
LEMMA PutType ==
  ASSUME NEW f \in [Regs -> Word], NEW e \in Entries
  PROVE  Put(f, e) \in [Regs -> Word]
  BY DEF Put, Entries

LEMMA EntryType ==
  /\ NoEntry \in Entries
  /\ \A r \in Regs, v \in Word : Entry(r, v) \in Entries
  BY SizeAssumption DEF NoEntry, Entry, Entries, Regs, Word

(* The fields of the word at m_cur_pc, by its op. *)
LEMMA WordFields ==
  ASSUME word \in Instrs
  PROVE  /\ word.op \in {"ALU", "SRA"} => word.rd \in Regs /\ word.rs \in Regs
         /\ word.op = "TRAP" => word.code \in ExcCodes
         /\ word.op \in {"LOAD", "MFC2"} => word.rt \in Regs /\ word.val \in Word
         /\ word.op \in {"LWX", "MFC0_EPC", "MTC0_EPC"} => word.rt \in Regs
         /\ word.op = "BRANCH" =>
              word.taken \in BOOLEAN /\ word.off \in Int /\ word.link \in BOOLEAN
         /\ word.op = "JUMP" => word.target \in Word /\ word.link \in BOOLEAN
         /\ word.op = "JR" => word.rs \in Regs /\ word.rd \in Regs /\ word.link \in BOOLEAN
         /\ word.op \in {"W_STAT", "W_MASK"} => word.irqs \in SUBSET Irqs
         /\ word.op = "MTC0_SR" => word.sr \in Status
         /\ word.op = "MTC0_CAUSE" => word.ip \in BOOLEAN
         /\ word.op = "MF" => word.h \in HL /\ word.rd \in Regs
         /\ word.op = "MT" => word.h \in HL /\ word.rs \in Regs
         /\ word.op = "MULTDIV" =>
              word.rs \in Regs /\ word.rt \in Regs /\ word.cycles \in Counter \ {0}
         /\ word.op = "GTECMD" => word.cycles \in Counter
  BY ProgramAssumption DEF Instructions

-----------------------------------------------------------------------------
(* Type correctness, part by part. *)

UnitsOK ==
  /\ m_hilo' \in [HL -> Word] /\ m_hilo_buf' \in [HL -> Word]
  /\ m_multdiv_active' \in BOOLEAN /\ m_multdiv_rem_cycles' \in Counter
  /\ gte_inflight' \in BOOLEAN /\ gte_rem_cycles' \in Counter

CopOK ==
  /\ sr' \in Status
  /\ cause' \in [ip : BOOLEAN, bd : BOOLEAN, code : ExcCodes]
  /\ epc' \in Word

PcOK ==
  /\ m_cur_pc' \in Word /\ m_next_pc' \in Word
  /\ m_in_bds' \in BOOLEAN /\ m_branch_misaligned' \in BOOLEAN
  /\ h_last' \in [pc : Word, slot : BOOLEAN, tag : Tags]

RegsOK == m_regs' \in [Regs -> Word] /\ m_load' \in Entries

LEMMA TickedType ==
  ASSUME CPUTypeOK
  PROVE  /\ MultdivActive \in BOOLEAN /\ MultdivRem \in Counter
         /\ HiLo \in [HL -> Word]
         /\ GteInflight \in BOOLEAN /\ GteRem \in Counter
         /\ PolledCause \in [ip : BOOLEAN, bd : BOOLEAN, code : ExcCodes]
         /\ R \in [Regs -> Word]
<1>1. MultdivActive \in BOOLEAN /\ GteInflight \in BOOLEAN
  BY DEF MultdivActive, MultdivDone, GteInflight
<1>2. MultdivRem \in Counter /\ GteRem \in Counter
  BY CountdownInCounter DEF CPUTypeOK, MultdivRem, GteRem
<1>3. HiLo \in [HL -> Word]
  BY DEF CPUTypeOK, HiLo
<1>4. PolledCause \in [ip : BOOLEAN, bd : BOOLEAN, code : ExcCodes]
  BY DEF CPUTypeOK, PolledCause
<1>5. R \in [Regs -> Word]
  <2>1. 0 \in Word
    BY SizeAssumption DEF Word
  <2> QED  BY <2>1 DEF CPUTypeOK, R
<1> QED  BY <1>1, <1>2, <1>3, <1>4, <1>5

LEMMA UnitsType ==
  ASSUME CPUTypeOK, TickMultdiv, TickGte
  PROVE  UnitsOK
  BY TickedType DEF CPUTypeOK, TickMultdiv, TickGte, UnitsOK

LEMMA BackgroundType ==
  ASSUME CPUTypeOK, Background
  PROVE  UnitsOK /\ CopOK /\ UNCHANGED intcVars
  BY TickedType, UnitsType DEF CPUTypeOK, Background, CopOK

LEMMA CommitType ==
  ASSUME NEW f \in [Regs -> Word], NEW l0 \in Entries, NEW write \in Entries,
         NEW load \in Entries, Commit(f, l0, write, load)
  PROVE  RegsOK
  BY PutType DEF Commit, RegsOK

Branches == [valid : BOOLEAN, target : Word]

LEMMA BranchType ==
  /\ NoBranch \in Branches
  /\ \A x \in Int : BranchTo(x) \in Branches
  BY WrapInWord, SizeAssumption DEF NoBranch, BranchTo, Branches, Word

LEMMA IncrementPcType ==
  ASSUME CPUTypeOK, NEW b \in Branches, NEW misaligned, IncrementPc(b, misaligned)
  PROVE  PcOK
<1>1. m_next_pc + 4 \in Int
  BY DEF CPUTypeOK, Word
<1>2. Moved(NextTag) \in [pc : Word, slot : BOOLEAN, tag : Tags]
  BY DEF CPUTypeOK, Moved, NextTag, Tags
<1> QED  BY <1>1, <1>2, WrapInWord DEF CPUTypeOK, IncrementPc, PcOK, Branches

LEMMA RetireType ==
  ASSUME CPUTypeOK, NEW l0 \in Entries, NEW write \in Entries,
         NEW load \in Entries, Retire(l0, write, load)
  PROVE  RegsOK /\ PcOK /\ word' \in Instrs /\ m_rem_halt' = m_rem_halt
  BY TickedType, CommitType, BranchType, IncrementPcType DEF Retire

LEMMA TriggerExceptionType ==
  ASSUME CPUTypeOK, NEW code \in ExcCodes, TriggerException(code)
  PROVE  CPUTypeOK'
<1>1. UnitsOK
  BY UnitsType DEF TriggerException
<1>2. RegsOK
  BY TickedType, CommitType, EntryType DEF TriggerException, CPUTypeOK
<1>3. CopOK
  <2>1. sr' \in Status
    BY DEF TriggerException, CPUTypeOK, PushedStatus, Status
  <2>2. epc' \in Word
    BY WrapInWord DEF TriggerException, CPUTypeOK, Word, Epc
  <2> QED  BY <2>1, <2>2 DEF TriggerException, CPUTypeOK, CopOK
<1>4. PcOK
  <2>1. ExcVec[sr.bev] \in Word
    BY VectorAssumption DEF CPUTypeOK, Status
  <2>2. Wrap(ExcVec[sr.bev] + 4) \in Word
    BY <2>1, WrapInWord DEF Word
  <2>3. Moved("trap") \in [pc : Word, slot : BOOLEAN, tag : Tags]
    BY DEF CPUTypeOK, Moved, Tags
  <2> QED  BY <2>1, <2>2, <2>3 DEF TriggerException, PcAfter, PcOK
<1> QED  BY <1>1, <1>2, <1>3, <1>4
         DEF CPUTypeOK, UnitsOK, RegsOK, CopOK, PcOK, TriggerException,
             intcVars, IntCtlTypeOK

LEMMA HandlerType ==
  ASSUME CPUTypeOK, Executes
  PROVE  CPUTypeOK'
<1> USE EntryType, WordFields, TickedType
<1> DEFINE All == UnitsOK /\ CopOK /\ PcOK /\ RegsOK /\ word' \in Instrs
                  /\ m_rem_halt' \in Counter /\ IntCtlTypeOK'
<1>0. All => CPUTypeOK'
  BY DEF CPUTypeOK, UnitsOK, CopOK, PcOK, RegsOK
<1>1. ASSUME NEW l0 \in Entries, NEW write \in Entries, NEW load \in Entries,
             Background, Retire(l0, write, load)
      PROVE  All
  BY <1>1, BackgroundType, RetireType DEF CPUTypeOK, intcVars, IntCtlTypeOK
<1>2. ASSUME NEW cycles \in Counter, Live, Stall(cycles)
      PROVE  All
  <2>1. RegsOK
    BY <1>2, CommitType DEF Stall, CPUTypeOK
  <2> QED
    BY <1>2, <2>1, BackgroundType
    DEF Stall, Halt, Live, Counter, CPUTypeOK, pcVars, PcOK, intcVars, IntCtlTypeOK
<1>3. ASSUME NEW b \in Branches, NEW misaligned, NEW write \in Entries,
             BranchTail(b, misaligned, write)
      PROVE  All
  <2>1. RegsOK
    BY <1>3, CommitType DEF BranchTail, CPUTypeOK
  <2>2. PcOK
    BY <1>3, IncrementPcType DEF BranchTail
  <2> QED
    BY <1>3, <2>1, <2>2, BackgroundType
    DEF BranchTail, CPUTypeOK, intcVars, IntCtlTypeOK
<1>4. m_load \in Entries /\ (word.op \in {"LOAD", "LWX", "MFC0_EPC", "MFC2"} =>
                               AfterSetLoad(word.rt) \in Entries)
  BY DEF CPUTypeOK, AfterSetLoad
<1>5. CASE Alu
  <2>1. Entry(word.rd, R[word.rs]) \in Entries
    BY <1>5 DEF Alu, Handles, CPUTypeOK
  <2> QED  BY <1>0, <1>1, <1>4, <1>5, <2>1 DEF Alu
<1>6. CASE Sra
  <2>1. [R EXCEPT ![word.rd] = R[word.rs]] \in [Regs -> Word]
    BY <1>6 DEF Sra, Handles, CPUTypeOK
  <2>2. RegsOK
    BY <1>6, <2>1, <1>4, CommitType DEF Sra
  <2>3. PcOK
    BY <1>6, BranchType, IncrementPcType DEF Sra
  <2>4. UnitsOK /\ CopOK /\ IntCtlTypeOK'
    BY <1>6, BackgroundType DEF Sra, CPUTypeOK, intcVars, IntCtlTypeOK
  <2> QED  BY <1>0, <1>6, <2>2, <2>3, <2>4 DEF Sra, CPUTypeOK
<1>7. CASE Trap
  BY <1>7, TriggerExceptionType DEF Trap, Handles, CPUTypeOK
<1>8. CASE Load
  <2>1. Entry(word.rt, word.val) \in Entries
    BY <1>8 DEF Load, Handles, CPUTypeOK
  <2>2. AfterSetLoad(word.rt) \in Entries
    BY <1>4, <1>8 DEF Load, Handles
  <2> QED  BY <1>0, <1>1, <1>8, <2>1, <2>2 DEF Load
<1>9. CASE LoadPart
  <2> DEFINE base == IF m_load.valid /\ m_load.reg = word.rt THEN m_load.val
                                                             ELSE R[word.rt]
  <2>0. word.rt \in Regs
    BY <1>9 DEF LoadPart, Handles, CPUTypeOK
  <2>1. base \in Word
    BY <2>0 DEF CPUTypeOK, Entries
  <2>2. Entry(word.rt, base) \in Entries
    BY <2>0, <2>1
  <2>3. AfterSetLoad(word.rt) \in Entries
    BY <1>4, <1>9 DEF LoadPart, Handles
  <2> QED  BY <1>0, <1>1, <1>9, <2>2, <2>3 DEF LoadPart
<1>10. CASE MoveFromEpc
  <2>1. Entry(word.rt, epc) \in Entries
    BY <1>10 DEF MoveFromEpc, Handles, CPUTypeOK
  <2>2. AfterSetLoad(word.rt) \in Entries
    BY <1>4, <1>10 DEF MoveFromEpc, Handles
  <2> QED  BY <1>0, <1>1, <1>10, <2>1, <2>2 DEF MoveFromEpc
<1>11. CASE Branch \/ Jump \/ JumpReg
  <2> DEFINE target == CASE word.op = "BRANCH" ->
                              IF word.taken THEN m_next_pc + 4 * word.off
                                            ELSE m_cur_pc + 8
                         [] word.op = "JUMP" -> word.target
                         [] word.op = "JR" -> R[word.rs]
  <2>1. word.op \in {"BRANCH", "JUMP", "JR"} /\ word.link \in BOOLEAN
        /\ Wrap(m_cur_pc + 8) \in Word
    <3>1. word.op \in {"BRANCH", "JUMP", "JR"}
      BY <1>11 DEF Branch, Jump, JumpReg, Handles
    <3>2. word.link \in BOOLEAN
      BY <3>1 DEF CPUTypeOK
    <3>3. m_cur_pc + 8 \in Int
      BY DEF CPUTypeOK, Word
    <3> QED  BY <3>1, <3>2, <3>3, WrapInWord
  <2>2. target \in Int
    <3>1. m_cur_pc \in Int /\ m_next_pc \in Int
      BY DEF CPUTypeOK, Word
    <3>2. CASE word.op = "BRANCH"
      BY <3>1, <3>2 DEF CPUTypeOK
    <3>3. CASE word.op = "JUMP"
      BY <3>3 DEF CPUTypeOK, Word
    <3>4. CASE word.op = "JR"
      <4>1. R[word.rs] \in Word
        BY <3>4 DEF CPUTypeOK
      <4> QED  BY <3>4, <4>1 DEF Word
    <3> QED  BY <2>1, <3>2, <3>3, <3>4
  <2>3. BranchTo(target) \in Branches
    BY <2>2, BranchType
  <2>4. Link(RA) \in Entries /\ (word.op = "JR" => Link(word.rd) \in Entries)
    BY <2>1, SizeAssumption DEF Link, CPUTypeOK
  <2> HIDE DEF target
  <2>5. CASE Branch
    <3>1. word.op = "BRANCH"
      BY <2>5 DEF Branch, Handles
    <3>2. BranchTail(BranchTo(target), Misaligns(BranchTo(target), word.taken), Link(RA))
      BY <2>5, <3>1 DEF Branch, target
    <3> QED  BY <1>0, <1>3, <2>3, <2>4, <3>2
  <2>6. CASE Jump
    <3>1. word.op = "JUMP"
      BY <2>6 DEF Jump, Handles
    <3>2. BranchTail(BranchTo(target), Misaligns(BranchTo(target), TRUE), Link(RA))
      BY <2>6, <3>1 DEF Jump, target
    <3> QED  BY <1>0, <1>3, <2>3, <2>4, <3>2
  <2>7. CASE JumpReg
    <3>1. word.op = "JR"
      BY <2>7 DEF JumpReg, Handles
    <3>2. BranchTail(BranchTo(target), Misaligns(BranchTo(target), TRUE), Link(word.rd))
      BY <2>7, <3>1 DEF JumpReg, target
    <3> QED  BY <1>0, <1>3, <2>3, <2>4, <3>1, <3>2
  <2> QED  BY <1>11, <2>5, <2>6, <2>7
<1>12. CASE Store
  BY <1>0, <1>1, <1>4, <1>12 DEF Store
<1>13. ASSUME TickMultdiv, TickGte, CopOK, IntCtlTypeOK', Retire(m_load, NoEntry, NoEntry)
       PROVE  All
  BY <1>13, <1>4, UnitsType, RetireType DEF CPUTypeOK
<1>14. CASE StoreIntCtl
  <2>1. IntCtlTypeOK'
    BY <1>14 DEF StoreIntCtl, Handles, CPUTypeOK, IntCtlTypeOK, WriteStat, WriteMask, intcVars
  <2>2. CopOK
    BY <1>14 DEF StoreIntCtl, CPUTypeOK, CopOK
  <2> QED  BY <1>0, <1>13, <1>14, <2>1, <2>2 DEF StoreIntCtl
<1>15. CASE WriteCop0
  <2>1. IntCtlTypeOK'
    BY <1>15 DEF WriteCop0, CPUTypeOK, IntCtlTypeOK, intcVars
  <2>2. sr' \in Status
    <3>1. PoppedStatus \in Status
      BY DEF CPUTypeOK, PoppedStatus, Status
    <3> QED  BY <1>15, <3>1 DEF WriteCop0, CPUTypeOK
  <2>3. cause' \in [ip : BOOLEAN, bd : BOOLEAN, code : ExcCodes]
    BY <1>15 DEF WriteCop0, CPUTypeOK
  <2>4. epc' \in Word
    BY <1>15 DEF WriteCop0, CPUTypeOK
  <2> QED  BY <1>0, <1>13, <1>15, <2>1, <2>2, <2>3, <2>4 DEF WriteCop0, CopOK
<1>16. CASE MoveFrom
  <2>1. Entry(word.rd, HiLo[word.h]) \in Entries
    BY <1>16 DEF MoveFrom, Handles, CPUTypeOK
  <2> QED  BY <1>0, <1>1, <1>4, <1>16, <2>1 DEF MoveFrom
<1>17. ASSUME UnitsOK, cause' = PolledCause, UNCHANGED <<sr, epc, intcVars>>,
              Retire(m_load, NoEntry, NoEntry)
       PROVE  All
  BY <1>17, <1>4, RetireType DEF CPUTypeOK, CopOK, intcVars, IntCtlTypeOK
<1>18. CASE MoveTo
  <2>1. m_hilo' \in [HL -> Word]
    BY <1>18 DEF MoveTo, Handles, CPUTypeOK
  <2>2. UnitsOK
    BY <1>18, <2>1 DEF MoveTo, TickGte, CPUTypeOK, UnitsOK
  <2> QED  BY <1>0, <1>17, <1>18, <2>2 DEF MoveTo
<1>19. CASE StallMultdiv \/ StallGte
  BY <1>0, <1>2, <1>19 DEF StallMultdiv, StallGte, Handles
<1>20. CASE Multdiv
  <2>1. word.rs \in Regs /\ word.rt \in Regs /\ word.cycles \in Counter
    BY <1>20 DEF Multdiv, Handles, CPUTypeOK
  <2>2. m_hilo_buf' \in [HL -> Word]
    BY <1>20, <2>1 DEF Multdiv
  <2>3. UnitsOK
    BY <1>20, <2>1, <2>2 DEF Multdiv, TickGte, CPUTypeOK, UnitsOK
  <2> QED  BY <1>0, <1>17, <1>20, <2>3 DEF Multdiv
<1>21. CASE MoveFromGte
  <2>1. Entry(word.rt, word.val) \in Entries
    BY <1>21 DEF MoveFromGte, Handles, CPUTypeOK
  <2>2. AfterSetLoad(word.rt) \in Entries
    BY <1>4, <1>21 DEF MoveFromGte, Handles
  <2> QED  BY <1>0, <1>1, <1>21, <2>1, <2>2 DEF MoveFromGte
<1>22. CASE GteCommand
  <2>1. UnitsOK
    BY <1>22 DEF GteCommand, Handles, TickMultdiv, CPUTypeOK, UnitsOK
  <2> QED  BY <1>0, <1>17, <1>22, <2>1 DEF GteCommand
<1>23. CASE Panic
  <2>1. RegsOK /\ PcOK /\ word' \in Instrs /\ m_rem_halt' \in Counter
    BY <1>23 DEF Panic, CPUTypeOK, RegsOK, PcOK, pcVars
  <2> QED
    BY <1>0, <1>23, <2>1, BackgroundType DEF Panic, CPUTypeOK, intcVars, IntCtlTypeOK
<1> QED
  BY <1>5, <1>6, <1>7, <1>8, <1>9, <1>10, <1>11, <1>12, <1>14, <1>15, <1>16,
     <1>18, <1>19, <1>20, <1>21, <1>22, <1>23
  DEF Executes

LEMMA StepType ==
  ASSUME CPUTypeOK, [CPUNext]_vars
  PROVE  CPUTypeOK'
<1>1. CASE Halted
  <2>1. UnitsOK
    BY <1>1, UnitsType DEF Halted
  <2>2. m_rem_halt' \in Counter
    BY <1>1, CountdownInCounter DEF Halted, CPUTypeOK, Counter
  <2> QED
    BY <1>1, <2>1, <2>2
    DEF Halted, CPUTypeOK, UnitsOK, regVars, pcVars, copVars, intcVars, IntCtlTypeOK
<1>2. CASE Misaligned
  BY <1>2, TriggerExceptionType DEF Misaligned, ExcCodes
<1>3. CASE Interrupted
  BY <1>3, TriggerExceptionType DEF Interrupted, ExcCodes
<1>4. CASE Executes
  BY <1>4, HandlerType
<1>5. CASE Raise
  BY <1>5
  DEF Raise, SetInterrupt, CPUTypeOK, IntCtlTypeOK,
      regVars, pcVars, mdVars, gteVars, copVars
<1>6. CASE UNCHANGED vars
  BY <1>6
  DEF vars, CPUTypeOK, IntCtlTypeOK, regVars, pcVars, mdVars, gteVars, copVars,
      intcVars
<1> QED
  BY <1>1, <1>2, <1>3, <1>4, <1>5, <1>6 DEF CPUNext, Tick

(* Every variable keeps its type: no register leaves the address space, and
   no counter the width of a u32. *)
THEOREM TypeCorrect == CPUSpec => []CPUTypeOK
<1>1. CPUInit => CPUTypeOK
  <2> SUFFICES ASSUME CPUInit PROVE CPUTypeOK
    OBVIOUS
  <2>1. 0 \in Word /\ 0 \in Counter /\ Wrap(4) \in Word
    BY SizeAssumption, WrapInWord DEF Word, Counter
  <2>2. m_regs \in [Regs -> Word]
    BY <2>1, ProgramAssumption DEF CPUInit
  <2>3. m_hilo \in [HL -> Word] /\ m_hilo_buf \in [HL -> Word]
    BY <2>1 DEF CPUInit
  <2>4. sr \in Status
    BY DEF CPUInit, Status
  <2>5. cause \in [ip : BOOLEAN, bd : BOOLEAN, code : ExcCodes]
    BY DEF CPUInit, ExcCodes
  <2>6. h_last \in [pc : Word, slot : BOOLEAN, tag : Tags]
    BY <2>1 DEF CPUInit, Tags
  <2> QED
    BY <2>1, <2>2, <2>3, <2>4, <2>5, <2>6, EntryType, ProgramAssumption
    DEF CPUInit, CPUTypeOK, IntCtlInit, IntCtlTypeOK
<1> QED  BY <1>1, StepType, PTL DEF CPUSpec

-----------------------------------------------------------------------------
(* A stall ends with its unit.                                             *)

LEMMA TickedUnits ==
  ASSUME CPUTypeOK, StallCoversUnit
  PROVE  /\ MultdivActive => MultdivRem = m_multdiv_rem_cycles - 1 /\ MultdivRem > 0
         /\ GteInflight => GteRem > 0
         /\ gte_inflight /\ gte_rem_cycles > 0 => GteRem = gte_rem_cycles - 1
  BY CountdownInCounter
  DEF CPUTypeOK, StallCoversUnit, MultdivActive, MultdivDone, MultdivRem,
      GteInflight, GteRem, Counter

LEMMA StepStall ==
  ASSUME CPUTypeOK, StallCoversUnit, [CPUNext]_vars
  PROVE  StallCoversUnit'
<1> USE TickedUnits
<1>1. CASE Halted
  <2>1. TickMultdiv /\ TickGte /\ m_rem_halt' = m_rem_halt - 1 /\ m_rem_halt \in Nat
        /\ m_rem_halt > 0
    BY <1>1 DEF Halted, CPUTypeOK, Counter
  <2>2. m_multdiv_active' => m_multdiv_rem_cycles' > 0
    BY <2>1 DEF TickMultdiv
  <2>3. ASSUME m_rem_halt > 1, m_multdiv_active, m_multdiv_rem_cycles = m_rem_halt
        PROVE  m_multdiv_active' /\ m_multdiv_rem_cycles' = m_rem_halt'
    <3>1. MultdivActive
      BY <2>3 DEF MultdivActive, MultdivDone
    <3> QED  BY <2>1, <2>3, <3>1 DEF TickMultdiv
  <2>4. ASSUME m_rem_halt > 1, gte_inflight, gte_rem_cycles = m_rem_halt
        PROVE  gte_inflight' /\ gte_rem_cycles' = m_rem_halt'
    <3>1. GteRem = m_rem_halt - 1
      BY <2>1, <2>4
    <3>2. GteInflight
      BY <2>1, <2>4, <3>1 DEF GteInflight
    <3> QED  BY <2>1, <3>1, <3>2 DEF TickGte
  <2>5. m_rem_halt' > 0 => m_rem_halt > 1
    BY <2>1
  <2> QED  BY <2>1, <2>2, <2>3, <2>4, <2>5 DEF StallCoversUnit
<1>2. ASSUME TickMultdiv \/ m_multdiv_active' = FALSE, m_rem_halt' = 0
      PROVE  StallCoversUnit'
  BY <1>2 DEF StallCoversUnit, TickMultdiv
<1>3. ASSUME NEW code, Live, TriggerException(code)
      PROVE  StallCoversUnit'
  BY <1>2, <1>3 DEF TriggerException, Live
<1>4. CASE Executes
  <2>0. Live
    BY <1>4
    DEF Executes, Alu, Sra, Trap, Load, LoadPart, MoveFromEpc, Branch, Jump,
        JumpReg, Store, StoreIntCtl, WriteCop0, MoveFrom, MoveTo, StallMultdiv,
        Multdiv, MoveFromGte, StallGte, GteCommand, Panic, Handles
  <2>1. CASE Alu \/ Sra \/ Load \/ LoadPart \/ MoveFromEpc \/ Store \/ StoreIntCtl
             \/ WriteCop0 \/ MoveFrom \/ MoveFromGte \/ GteCommand \/ Panic
    <3>1. TickMultdiv
      BY <2>1
      DEF Alu, Sra, Load, LoadPart, MoveFromEpc, Store, StoreIntCtl, WriteCop0,
          MoveFrom, MoveFromGte, GteCommand, Panic, Background
    <3>2. UNCHANGED m_rem_halt
      BY <2>1
      DEF Alu, Sra, Load, LoadPart, MoveFromEpc, Store, StoreIntCtl, WriteCop0,
          MoveFrom, MoveFromGte, GteCommand, Panic, Retire
    <3> QED  BY <1>2, <2>0, <3>1, <3>2 DEF Live
  <2>2. CASE Trap
    BY <1>3, <2>0, <2>2 DEF Trap
  <2>3. CASE Branch \/ Jump \/ JumpReg
    BY <1>2, <2>0, <2>3 DEF Branch, Jump, JumpReg, BranchTail, Background, Live
  <2>4. CASE MoveTo
    BY <2>0, <2>4 DEF MoveTo, Retire, StallCoversUnit, Live
  <2>5. CASE StallMultdiv
    BY <2>0, <2>5
    DEF StallMultdiv, Stall, Halt, Live, Background, TickMultdiv, StallCoversUnit,
        CPUTypeOK, Counter
  <2>6. CASE StallGte
    <3>1. GteInflight /\ TickMultdiv /\ TickGte /\ m_rem_halt' = Halt(GteRem)
      BY <2>6 DEF StallGte, Stall, Background
    <3>2. GteRem \in Counter
      BY TickedType
    <3>3. m_rem_halt' = GteRem
      BY <2>0, <3>1, <3>2 DEF Halt, Live, Counter
    <3>4. gte_inflight' /\ gte_rem_cycles' = m_rem_halt'
      BY <3>1, <3>3 DEF TickGte
    <3>5. m_multdiv_active' => m_multdiv_rem_cycles' > 0
      BY <3>1 DEF TickMultdiv
    <3> QED  BY <3>4, <3>5 DEF StallCoversUnit
  <2>7. CASE Multdiv
    <3>1. word.cycles \in Counter \ {0}
      BY <2>7, WordFields DEF Multdiv, Handles, CPUTypeOK
    <3> QED  BY <2>0, <2>7, <3>1 DEF Multdiv, Retire, StallCoversUnit, Live, Counter
  <2> QED
    BY <1>4, <2>1, <2>2, <2>3, <2>4, <2>5, <2>6, <2>7 DEF Executes
<1>5. CASE Misaligned \/ Interrupted
  BY <1>3, <1>5 DEF Misaligned, Interrupted
<1>6. CASE Raise \/ UNCHANGED vars
  BY <1>6 DEF Raise, vars, mdVars, gteVars, StallCoversUnit
<1> QED
  BY <1>1, <1>4, <1>5, <1>6 DEF CPUNext, Tick

(* The assertion in tick_multdiv never fails, and every stall ends in the very
   tick in which the unit it waits for is done, whatever the program. *)
THEOREM StallIsExact == CPUSpec => []StallCoversUnit
<1>1. CPUInit => StallCoversUnit
  BY DEF CPUInit, StallCoversUnit
<1> QED  BY <1>1, StepStall, TypeCorrect, PTL DEF CPUSpec

-----------------------------------------------------------------------------
(* The program counters. *)


LEMMA SequentialStepControl ==
  ASSUME SlotsOK, IncrementPc(NoBranch, FALSE)
  PROVE  SlotsOK'
  BY DEF IncrementPc, NoBranch, SlotsOK, SequentialUnlessSlot,
         MisalignedInSlotOnly, SlotFollowsBranch

LEMMA BranchStepControl ==
  ASSUME SlotsOK, NEW x, NEW misaligned, IncrementPc(BranchTo(x), misaligned)
  PROVE  SlotsOK'
<1>1. m_in_bds' = TRUE /\ m_cur_pc' = m_next_pc /\ h_last' = Moved(NextTag)
  BY DEF IncrementPc, BranchTo
<1>2. ~h_last'.slot => m_cur_pc' = Wrap(h_last'.pc + 4)
  BY <1>1 DEF SlotsOK, SequentialUnlessSlot, Moved
<1> QED
  BY <1>1, <1>2
  DEF SlotsOK, SequentialUnlessSlot, MisalignedInSlotOnly, SlotFollowsBranch

LEMMA StepControl ==
  ASSUME SlotsOK, [CPUNext]_vars
  PROVE  SlotsOK'
<1>1. ASSUME NEW code, TriggerException(code)
      PROVE  SlotsOK'
  BY <1>1
  DEF TriggerException, PcAfter, SlotsOK, SequentialUnlessSlot, MisalignedInSlotOnly,
      SlotFollowsBranch
<1>2. ASSUME UNCHANGED pcVars
      PROVE  SlotsOK'
  BY <1>2
  DEF pcVars, SlotsOK, SequentialUnlessSlot, MisalignedInSlotOnly,
      SlotFollowsBranch
<1>3. ASSUME IncrementPc(NoBranch, FALSE)
      PROVE  SlotsOK'
  BY <1>3, SequentialStepControl
<1>4. ASSUME NEW x, NEW taken, NEW write,
             BranchTail(BranchTo(x), Misaligns(BranchTo(x), taken), write)
      PROVE  SlotsOK'
  BY <1>4, BranchStepControl DEF BranchTail
<1>5. CASE Executes
  <2>1. CASE Alu \/ Sra \/ Load \/ LoadPart \/ MoveFromEpc \/ Store \/ StoreIntCtl
             \/ WriteCop0 \/ MoveFrom \/ MoveTo \/ Multdiv \/ MoveFromGte \/ GteCommand
    BY <1>3, <2>1
    DEF Alu, Sra, Load, LoadPart, MoveFromEpc, Store, StoreIntCtl, WriteCop0,
        MoveFrom, MoveTo, Multdiv, MoveFromGte, GteCommand, Retire
  <2>2. CASE Branch \/ Jump \/ JumpReg
    BY <1>4, <2>2 DEF Branch, Jump, JumpReg
  <2>3. CASE Trap
    BY <1>1, <2>3 DEF Trap
  <2>4. CASE StallMultdiv \/ StallGte \/ Panic
    BY <1>2, <2>4 DEF StallMultdiv, StallGte, Stall, Panic
  <2> QED
    BY <1>5, <2>1, <2>2, <2>3, <2>4 DEF Executes
<1>6. CASE Misaligned \/ Interrupted
  BY <1>1, <1>6 DEF Misaligned, Interrupted
<1>7. CASE Halted \/ Raise \/ UNCHANGED vars
  BY <1>2, <1>7 DEF Halted, Raise, vars
<1> QED
  BY <1>5, <1>6, <1>7 DEF CPUNext, Tick

(* Outside delay slots the program counters are sequential, a misaligned
   target is on record in its delay slot only, and a delay slot follows the
   branch that owns it. *)
THEOREM ControlFlow == CPUSpec => []SlotsOK
<1>1. CPUInit => SlotsOK
  <2>1. 0 + 4 = 4
    OBVIOUS
  <2> QED
    BY <2>1
    DEF CPUInit, SlotsOK, SequentialUnlessSlot, MisalignedInSlotOnly,
        SlotFollowsBranch
<1>2. CPUSpec => []SlotsOK
  BY <1>1, StepControl, PTL DEF CPUSpec
<1> QED  BY <1>2

LEMMA WrapBack == \A w \in Word : Wrap(Wrap(w + 4) - 4) = w
<1> SUFFICES ASSUME NEW w \in Word PROVE Wrap(Wrap(w + 4) - 4) = w
  OBVIOUS
<1>1. WordSize \in Nat /\ WordSize >= 4 /\ w \in 0 .. WordSize - 1
  BY SizeAssumption DEF Word
<1>2. CASE w + 4 < WordSize
  <2>1. Wrap(w + 4) = w + 4
    BY <1>1, <1>2 DEF Wrap
  <2> QED  BY <1>1, <2>1 DEF Wrap
<1>3. CASE w + 4 >= WordSize
  <2>1. Wrap(w + 4) = w + 4 - WordSize
    BY <1>1, <1>3 DEF Wrap
  <2>2. (w - WordSize) % WordSize = w
    BY <1>1
  <2>3. (w + 4 - WordSize) - 4 = w - WordSize
    BY <1>1
  <2> QED  BY <2>1, <2>2, <2>3 DEF Wrap
<1> QED  BY <1>1, <1>2, <1>3

(* Whatever raises it, an exception leaves in EPC the instruction to go back
   to: the one it kept from executing, or that one's branch. *)
THEOREM ExceptionsRestart == CPUSpec => RestartsAtBranch
<1>1. ASSUME CPUTypeOK, SlotsOK, NEW code, TriggerException(code)
      PROVE  IF m_in_bds THEN h_last.slot \/ epc' = h_last.pc
                         ELSE epc' = m_cur_pc
  <2>1. CASE m_in_bds /\ ~h_last.slot
    <3>1. h_last.pc \in Word /\ m_cur_pc = Wrap(h_last.pc + 4)
      BY <1>1, <2>1 DEF CPUTypeOK, SlotsOK, SlotFollowsBranch
    <3> QED  BY <1>1, <2>1, <3>1, WrapBack DEF TriggerException, Epc
  <2>2. CASE ~m_in_bds
    BY <1>1, <2>2 DEF TriggerException, Epc
  <2> QED  BY <2>1, <2>2
<1>2. CPUTypeOK /\ SlotsOK /\ [CPUNext]_vars =>
        [ Misaligned \/ Interrupted \/ Trap =>
            IF m_in_bds THEN h_last.slot \/ epc' = h_last.pc
                        ELSE epc' = m_cur_pc ]_vars
  BY <1>1 DEF Misaligned, Interrupted, Trap
<1>3. SlotsOK <=> SequentialUnlessSlot /\ MisalignedInSlotOnly /\ SlotFollowsBranch
  BY DEF SlotsOK
<1> QED
  BY <1>2, <1>3, TypeCorrect, ControlFlow, PTL DEF CPUSpec, RestartsAtBranch

-----------------------------------------------------------------------------
(* The refinement. *)

(* HI and LO, seen through ArchHiLo, do not change while the unit runs. *)
LEMMA HiLoStable ==
  ASSUME TickMultdiv
  PROVE  ArchHiLo' = ArchHiLo
<1>1. CASE MultdivDone
  BY <1>1 DEF TickMultdiv, ArchHiLo, MultdivActive, MultdivDone, HiLo
<1>2. CASE ~MultdivDone /\ m_multdiv_active
  BY <1>2 DEF TickMultdiv, ArchHiLo, MultdivActive, HiLo
<1>3. CASE ~m_multdiv_active
  <2>1. ~MultdivDone /\ ~MultdivActive
    BY <1>3 DEF MultdivDone, MultdivActive
  <2>2. m_hilo' = m_hilo /\ ~m_multdiv_active'
    BY <2>1 DEF TickMultdiv, HiLo
  <2> QED  BY <1>3, <2>2 DEF ArchHiLo
<1> QED  BY <1>1, <1>2, <1>3

LEMMA HiLoIdle ==
  ASSUME ~MultdivActive
  PROVE  HiLo = ArchHiLo
<1>1. CASE m_multdiv_active
  BY <1>1 DEF ArchHiLo, MultdivActive, HiLo
<1>2. CASE ~m_multdiv_active
  BY <1>2 DEF ArchHiLo, MultdivDone, HiLo
<1> QED  BY <1>1, <1>2

LEMMA CommitLands ==
  ASSUME NEW f, NEW l0, NEW write, NEW load, Commit(f, l0, write, load)
  PROVE  AsCoded!Lands(f, l0, write, load)
  BY DEF Commit, AsCoded!Lands, AsCoded!Put, Put, ArchRegs

LEMMA MovedContinues ==
  ASSUME CPUTypeOK', NEW t, h_last' = Moved(t)
  PROVE  AsCoded!Continue(t)
  BY DEF CPUTypeOK, Moved, AsCoded!Continue, AsCoded!Word, Word

LEMMA RetireImplements ==
  ASSUME CPUTypeOK', NEW b, NEW misaligned, IncrementPc(b, misaligned),
         NEW ops, word.op \in ops
  PROVE  AsCoded!Is(ops)
  BY MovedContinues DEF IncrementPc, AsCoded!Is, NextTag

LEMMA TrapImplements ==
  ASSUME CPUTypeOK', NEW code, TriggerException(code)
  PROVE  AsCoded!Trap
<1>1. AsCoded!Continue("trap")
  BY MovedContinues DEF TriggerException
<1>2. AsCoded!Lands(ArchRegs, m_load, AsCoded!NoEntry, AsCoded!NoEntry)
  BY CommitLands DEF TriggerException, R, ArchRegs, NoEntry, AsCoded!NoEntry
<1>3. ArchHiLo' = ArchHiLo
  BY HiLoStable DEF TriggerException
<1> QED  BY <1>1, <1>2, <1>3 DEF AsCoded!Trap

(* The same entries on both sides. *)
LEMMA SameEntries ==
  /\ NoEntry = AsCoded!NoEntry
  /\ \A r, v : Entry(r, v) = AsCoded!Entry(r, v)
  /\ AfterSetLoad(word.rt) = AsCoded!Kept
  /\ R = ArchRegs
  BY DEF NoEntry, AsCoded!NoEntry, Entry, AsCoded!Entry, AsCoded!Kept, AfterSetLoad,
         R, ArchRegs

LEMMA RetireShape ==
  ASSUME CPUTypeOK', NEW l0, NEW write, NEW load, Retire(l0, write, load)
  PROVE  /\ AsCoded!Lands(ArchRegs, l0, write, load)
         /\ \A ops : word.op \in ops => AsCoded!Is(ops)
<1>1. Commit(R, l0, write, load) /\ IncrementPc(NoBranch, FALSE)
  BY DEF Retire
<1> QED  BY <1>1, CommitLands, RetireImplements, SameEntries

LEMMA StallShape ==
  ASSUME NEW cycles, Stall(cycles), word.op \in {"MF", "MT", "MFC2", "GTECMD"}
  PROVE  AsCoded!StallCommits
<1>1. AsCoded!Lands(ArchRegs, m_load, AsCoded!NoEntry, AsCoded!NoEntry)
  BY CommitLands, SameEntries DEF Stall
<1>2. ArchHiLo' = ArchHiLo
  BY HiLoStable DEF Stall, Background
<1> QED  BY <1>1, <1>2 DEF AsCoded!StallCommits, Stall, pcVars

LEMMA JumpShape ==
  ASSUME CPUTypeOK', NEW b, NEW misaligned, NEW reg,
         BranchTail(b, misaligned, Link(reg)),
         word.op \in {"BRANCH", "JUMP", "JR"},
         reg = IF word.op = "JR" THEN word.rd ELSE RA
  PROVE  AsCoded!Jump
<1>1. ArchHiLo' = ArchHiLo
  BY HiLoStable DEF BranchTail, Background
<1>2. AsCoded!Lands(ArchRegs, m_load, Link(reg), AsCoded!NoEntry)
  BY CommitLands, SameEntries DEF BranchTail
<1>3. AsCoded!Is({"BRANCH", "JUMP", "JR"})
  BY RetireImplements DEF BranchTail
<1> QED  BY <1>1, <1>2, <1>3, SameEntries DEF AsCoded!Jump, Link, Wrap

LEMMA HandlerImplements ==
  ASSUME CPUTypeOK, CPUTypeOK', Executes
  PROVE  AsCoded!Next \/ UNCHANGED AsCoded!vars
<1> USE SameEntries, RetireShape, HiLoStable
<1>1. CASE Alu
  <2>1. ArchHiLo' = ArchHiLo
    BY <1>1 DEF Alu, Background
  <2>2. word.op = "ALU" /\ Retire(m_load, Entry(word.rd, R[word.rs]), NoEntry)
    BY <1>1 DEF Alu, Handles
  <2> QED  BY <2>1, <2>2 DEF AsCoded!Compute, AsCoded!Next
<1>2. CASE Sra
  <2>1. ArchHiLo' = ArchHiLo
    BY <1>2 DEF Sra, Background
  <2>2. AsCoded!Lands([ArchRegs EXCEPT ![word.rd] = ArchRegs[word.rs]], m_load,
                      AsCoded!NoEntry, AsCoded!NoEntry)
    BY <1>2, CommitLands DEF Sra
  <2>3. AsCoded!Is({"SRA"})
    BY <1>2, RetireImplements DEF Sra, Handles
  <2> QED  BY <2>1, <2>2, <2>3 DEF AsCoded!LateLoadWins, AsCoded!Next
<1>3. CASE Trap
  BY <1>3, TrapImplements DEF Trap, AsCoded!Next
<1>4. CASE Load \/ MoveFromGte
  <2>1. ArchHiLo' = ArchHiLo
    BY <1>4 DEF Load, MoveFromGte, Background
  <2>2. /\ word.op \in {"LOAD", "MFC2"}
        /\ Retire(AfterSetLoad(word.rt), NoEntry, Entry(word.rt, word.val))
    BY <1>4 DEF Load, MoveFromGte, Handles
  <2> QED  BY <2>1, <2>2 DEF AsCoded!LoadWord, AsCoded!Next
<1>5. CASE LoadPart
  <2> DEFINE base == IF m_load.valid /\ m_load.reg = word.rt THEN m_load.val
                                                             ELSE R[word.rt]
  <2>1. ArchHiLo' = ArchHiLo
    BY <1>5 DEF LoadPart, Background
  <2>2. /\ word.op = "LWX"
        /\ Retire(AfterSetLoad(word.rt), NoEntry, Entry(word.rt, base))
    BY <1>5 DEF LoadPart, Handles
  <2> QED  BY <2>1, <2>2 DEF AsCoded!LoadPart, AsCoded!Next
<1>6. CASE MoveFromEpc
  <2>1. ArchHiLo' = ArchHiLo
    BY <1>6 DEF MoveFromEpc, Background
  <2>2. /\ word.op = "MFC0_EPC"
        /\ Retire(AfterSetLoad(word.rt), NoEntry, Entry(word.rt, epc))
    BY <1>6 DEF MoveFromEpc, Handles
  <2>3. epc \in AsCoded!Word
    BY DEF CPUTypeOK, AsCoded!Word, Word
  <2> QED  BY <2>1, <2>2, <2>3 DEF AsCoded!LoadEpc, AsCoded!Next
<1>7. CASE Branch \/ Jump \/ JumpReg
  <2>1. AsCoded!Jump
    BY <1>7, JumpShape DEF Branch, Jump, JumpReg, Handles
  <2> QED  BY <2>1 DEF AsCoded!Next
<1>8. CASE Store \/ StoreIntCtl \/ WriteCop0 \/ GteCommand
  <2>1. ArchHiLo' = ArchHiLo
    BY <1>8 DEF Store, StoreIntCtl, WriteCop0, GteCommand, Background
  <2>2. /\ word.op \in {"STORE", "MTC2", "W_STAT", "W_MASK", "MTC0_SR",
                        "MTC0_CAUSE", "MTC0_EPC", "RFE", "GTECMD"}
        /\ Retire(m_load, NoEntry, NoEntry)
    BY <1>8 DEF Store, StoreIntCtl, WriteCop0, GteCommand, Handles
  <2> QED  BY <2>1, <2>2 DEF AsCoded!Other, AsCoded!Next
<1>9. CASE MoveFrom
  <2>1. ArchHiLo' = ArchHiLo /\ HiLo = ArchHiLo
    BY <1>9, HiLoIdle DEF MoveFrom, Background
  <2>2. word.op = "MF" /\ Retire(m_load, Entry(word.rd, HiLo[word.h]), NoEntry)
    BY <1>9 DEF MoveFrom, Handles
  <2> QED  BY <2>1, <2>2 DEF AsCoded!MoveFrom, AsCoded!Next
<1>10. CASE MoveTo
  <2>1. ArchHiLo' = [ArchHiLo EXCEPT ![word.h] = ArchRegs[word.rs]]
    BY <1>10, HiLoIdle DEF MoveTo, ArchHiLo
  <2>2. word.op = "MT" /\ Retire(m_load, NoEntry, NoEntry)
    BY <1>10 DEF MoveTo, Handles
  <2> QED  BY <2>1, <2>2 DEF AsCoded!MoveTo, AsCoded!Next
<1>11. CASE StallMultdiv \/ StallGte
  <2>1. AsCoded!StallCommits
    BY <1>11, StallShape DEF StallMultdiv, StallGte, Handles
  <2> QED  BY <2>1 DEF AsCoded!Next
<1>12. CASE Multdiv
  <2>1. ArchHiLo' = [h \in HL |-> IF h = "lo" THEN ArchRegs[word.rs] ELSE ArchRegs[word.rt]]
    BY <1>12 DEF Multdiv, ArchHiLo
  <2>2. word.op = "MULTDIV" /\ Retire(m_load, NoEntry, NoEntry)
    BY <1>12 DEF Multdiv, Handles
  <2> QED  BY <2>1, <2>2 DEF AsCoded!MultDiv, AsCoded!Next, AsCoded!HL, HL
<1>13. CASE Panic
  <2>1. ArchHiLo' = ArchHiLo
    BY <1>13 DEF Panic, Background
  <2>2. ArchRegs' = ArchRegs
    BY <1>13 DEF Panic, R, ArchRegs
  <2> QED  BY <1>13, <2>1, <2>2 DEF Panic, pcVars, AsCoded!vars
<1> QED
  BY <1>1, <1>2, <1>3, <1>4, <1>5, <1>6, <1>7, <1>8, <1>9, <1>10, <1>11, <1>12, <1>13
  DEF Executes

(* The registers a program sees are those of RegFile, with the two departures
   the code has: no result of a multiplication, division or coprocessor read
   is late, lost or taken from the wrong operation, and no delayed load lands
   early, late or twice, but where StallCommits and LateLoadWins say so. *)
THEOREM RegisterRefinement == CPUSpec => ImplementsRegFile
<1>1. CPUInit /\ CPUTypeOK => AsCoded!Init
  <2> SUFFICES ASSUME CPUInit, CPUTypeOK PROVE AsCoded!Init
    OBVIOUS
  <2>1. ArchRegs \in [AsCoded!Regs -> AsCoded!Word] /\ ArchRegs[0] = 0
    BY SizeAssumption
    DEF CPUInit, CPUTypeOK, ArchRegs, AsCoded!Regs, AsCoded!Word, Regs, Word
  <2>2. ArchHiLo \in [AsCoded!HL -> AsCoded!Word]
    BY DEF CPUTypeOK, ArchHiLo, AsCoded!HL, AsCoded!Word, HL, Word
  <2>3. m_cur_pc \in AsCoded!Word /\ word \in Instrs /\ h_last.tag = "even"
    BY DEF CPUInit, CPUTypeOK, AsCoded!Word, Word
  <2> QED  BY <2>1, <2>2, <2>3, SameEntries DEF AsCoded!Init, CPUInit
<1>2. CPUTypeOK /\ CPUTypeOK' /\ [CPUNext]_vars => [AsCoded!Next]_(AsCoded!vars)
  <2> SUFFICES ASSUME CPUTypeOK, CPUTypeOK', [CPUNext]_vars
               PROVE  AsCoded!Next \/ UNCHANGED AsCoded!vars
    OBVIOUS
  <2>1. CASE Halted
    BY <2>1, HiLoStable DEF Halted, regVars, pcVars, AsCoded!vars, ArchRegs
  <2>2. CASE Misaligned \/ Interrupted
    BY <2>2, TrapImplements DEF Misaligned, Interrupted, AsCoded!Next
  <2>3. CASE Executes
    BY <2>3, HandlerImplements
  <2>4. CASE Raise \/ UNCHANGED vars
    BY <2>4
    DEF Raise, vars, regVars, pcVars, mdVars, AsCoded!vars, ArchRegs, ArchHiLo
  <2> QED
    BY <2>1, <2>2, <2>3, <2>4 DEF CPUNext, Tick
<1> QED
  BY <1>1, <1>2, TypeCorrect, PTL DEF CPUSpec, ImplementsRegFile, AsCoded!Spec
=============================================================================
