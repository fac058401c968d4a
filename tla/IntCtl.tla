------------------------------- MODULE IntCtl -------------------------------
(***************************************************************************)
(* The interrupt controller (src/src/core/IntCtl.cpp): I_STAT collects the *)
(* interrupts the devices raise, I_MASK is written by the program, and the *)
(* CPU polls their intersection once per tick.  A register is the set of   *)
(* the interrupts whose bit is set.                                        *)
(***************************************************************************)

CONSTANT Irqs           \* the interrupt lines, enum IntCtl::Interrupt

VARIABLES i_stat,       \* m_stat
          i_mask        \* m_mask

intcVars == <<i_stat, i_mask>>

IntCtlTypeOK == i_stat \in SUBSET Irqs /\ i_mask \in SUBSET Irqs

IntCtlInit == i_stat = {} /\ i_mask = {}

(* A device raises its line; a line that is already up stays up. *)
SetInterrupt(i) == i_stat' = i_stat \cup {i} /\ UNCHANGED i_mask

(* A store to I_STAT acknowledges: the bits written 0 are cleared. *)
WriteStat(val) == i_stat' = i_stat \cap val /\ UNCHANGED i_mask

WriteMask(val) == i_mask' = val /\ UNCHANGED i_stat

Pending == i_stat \cap i_mask # {}
=============================================================================
