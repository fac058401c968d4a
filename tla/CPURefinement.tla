--------------------------- MODULE CPURefinement ---------------------------
(***************************************************************************)
(* The pipeline implements the register file of RegFile.  HI and LO are    *)
(* those of the result on its way, if there is one; $0 reads as zero; and  *)
(* the ticks in which the units run beside the program are stutters.       *)
(***************************************************************************)
EXTENDS CPU

ArchRegs == [m_regs EXCEPT ![0] = 0]
ArchHiLo == IF m_multdiv_active THEN m_hilo_buf ELSE m_hilo

AsCoded == INSTANCE RegFile WITH
  regs <- ArchRegs, load <- m_load, hilo <- ArchHiLo, pc <- m_cur_pc,
  tag <- h_last.tag, instr <- word, Quirks <- {"stall_commits", "late_load_wins"}
NoLoadQuirk == INSTANCE RegFile WITH
  regs <- ArchRegs, load <- m_load, hilo <- ArchHiLo, pc <- m_cur_pc,
  tag <- h_last.tag, instr <- word, Quirks <- {"stall_commits"}

(* Seen through the registers, the pipeline with its multi-cycle units is
   the machine of RegFile, up to the two departures of the code: a stalled
   tick commits the delayed load (CPU::tick), and SRA and SRAV write past
   write_reg. *)
ImplementsRegFile == AsCoded!Spec

(* The claim of CPU.hpp that register writes support load cancelling. *)
WritesCancelLoads == NoLoadQuirk!Spec
=============================================================================
