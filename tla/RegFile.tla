------------------------------ MODULE RegFile ------------------------------
(***************************************************************************)
(* What a program may rely on: general registers, HI and LO, and the one   *)
(* delayed load, with no notion of cycles.  A multiplication or division   *)
(* has its result in HI and LO as soon as it is issued, as the comment on  *)
(* the multiplier in CPU.hpp promises, a load is seen by the second        *)
(* instruction after it, and a write to the register of a load that is     *)
(* still delayed wins over it.  Quirks names the departures from this that *)
(* a specification admits.                                                 *)
(***************************************************************************)
EXTENDS Integers

CONSTANTS NumRegs, WordSize, RA,
          Instrs,       \* the instructions, decoded, as in module CPU
          Quirks

Regs == 0 .. NumRegs - 1
Word == 0 .. WordSize - 1
HL == {"hi", "lo"}

VARIABLES regs, load, hilo,
          instr, pc,    \* the next instruction and its address
          tag           \* changes with every instruction, "trap" after a trap

vars == <<regs, load, hilo, instr, pc, tag>>

Entry(r, v) == [valid |-> TRUE, reg |-> r, val |-> v]
NoEntry == [valid |-> FALSE, reg |-> 0, val |-> 0]
Put(f, e) == IF e.valid THEN [f EXCEPT ![e.reg] = e.val] ELSE f

Init ==
  /\ regs \in [Regs -> Word] /\ regs[0] = 0
  /\ load = NoEntry
  /\ hilo \in [HL -> Word]
  /\ instr \in Instrs
  /\ pc \in Word
  /\ tag = "even"

(* The delayed load l0 lands, then the instruction's own write. *)
Lands(f, l0, write, newload) ==
  /\ regs' = [Put(Put(f, l0), write) EXCEPT ![0] = 0]
  /\ load' = newload

Continue(t) == pc' \in Word /\ instr' \in Instrs /\ tag' = t

Is(ops) ==
  /\ instr.op \in ops
  /\ Continue(IF tag = "even" THEN "odd" ELSE "even")

(* An interrupt or an exception takes the place of the instruction. *)
Trap ==
  /\ Continue("trap")
  /\ Lands(regs, load, NoEntry, NoEntry)
  /\ UNCHANGED hilo

Compute ==
  /\ Is({"ALU", "SRA"})
  /\ Lands(regs, load, Entry(instr.rd, regs[instr.rs]), NoEntry)
  /\ UNCHANGED hilo

(* A jump reaches the registers through its link alone. *)
Jump ==
  /\ Is({"BRANCH", "JUMP", "JR"})
  /\ LET link == Entry(IF instr.op = "JR" THEN instr.rd ELSE RA,
                       (pc + 8) % WordSize)
     IN Lands(regs, load, IF instr.link THEN link ELSE NoEntry, NoEntry)
  /\ UNCHANGED hilo

(* A second load of the same register drops the first. *)
Kept == IF load.reg = instr.rt THEN NoEntry ELSE load

LoadWord ==
  /\ Is({"LOAD", "MFC2"})
  /\ Lands(regs, Kept, NoEntry, Entry(instr.rt, instr.val))
  /\ UNCHANGED hilo

LoadEpc ==
  /\ Is({"MFC0_EPC"})
  /\ \E v \in Word : Lands(regs, Kept, NoEntry, Entry(instr.rt, v))
  /\ UNCHANGED hilo

(* Half of an unaligned load extends the half that is still delayed. *)
LoadPart ==
  /\ Is({"LWX"})
  /\ LET half == IF load.valid /\ load.reg = instr.rt THEN load.val
                                                      ELSE regs[instr.rt]
     IN Lands(regs, Kept, NoEntry, Entry(instr.rt, half))
  /\ UNCHANGED hilo

MultDiv ==
  /\ Is({"MULTDIV"})
  /\ Lands(regs, load, NoEntry, NoEntry)
  /\ hilo' = [h \in HL |-> IF h = "lo" THEN regs[instr.rs] ELSE regs[instr.rt]]

MoveFrom ==
  /\ Is({"MF"})
  /\ Lands(regs, load, Entry(instr.rd, hilo[instr.h]), NoEntry)
  /\ UNCHANGED hilo

MoveTo ==
  /\ Is({"MT"})
  /\ Lands(regs, load, NoEntry, NoEntry)
  /\ hilo' = [hilo EXCEPT ![instr.h] = regs[instr.rs]]

Other ==
  /\ Is({"STORE", "MTC2", "W_STAT", "W_MASK", "MTC0_SR", "MTC0_CAUSE",
         "MTC0_EPC", "RFE", "GTECMD"})
  /\ Lands(regs, load, NoEntry, NoEntry)
  /\ UNCHANGED hilo

(* A stalled instruction lets the load land before it is executed. *)
StallCommits ==
  /\ "stall_commits" \in Quirks
  /\ instr.op \in {"MF", "MT", "MFC2", "GTECMD"}
  /\ Lands(regs, load, NoEntry, NoEntry)
  /\ UNCHANGED <<hilo, instr, pc, tag>>

(* A write that loses against the load it should cancel. *)
LateLoadWins ==
  /\ "late_load_wins" \in Quirks
  /\ Is({"SRA"})
  /\ Lands([regs EXCEPT ![instr.rd] = regs[instr.rs]], load, NoEntry, NoEntry)
  /\ UNCHANGED hilo

Next ==
  \/ Trap \/ Compute \/ Jump \/ LoadWord \/ LoadEpc \/ LoadPart
  \/ MultDiv \/ MoveFrom \/ MoveTo \/ Other
  \/ StallCommits \/ LateLoadWins

Spec == Init /\ [][Next]_vars
=============================================================================
