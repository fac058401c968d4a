----------------------------- MODULE Controller -----------------------------
(***************************************************************************)
(* The pad (src/src/core/Controller.cpp): a state machine over the bytes   *)
(* exchanged since it was selected, and the switches, an atomic word that  *)
(* the frontend's thread writes while the emulator's thread reads its two  *)
(* halves.  The documented build (DOC.md) has no assertions: what exch     *)
(* answers does not depend on the byte it is sent.                         *)
(***************************************************************************)
EXTENDS Integers

CONSTANT Switches       \* the words the frontend may store

VARIABLES m_state,      \* how far the exchange is
          m_switches

padVars == <<m_state, m_switches>>

(* A byte on the line: the idle line, the two bytes of the identification,
   or one half of a word of switches. *)
HiZ == [part |-> "hiz"]
IdLow == [part |-> "id_lo"]
IdHigh == [part |-> "id_hi"]
Bytes == {HiZ, IdLow, IdHigh} \cup [part : {"lo", "hi"}, of : Switches]

PadInit == m_state = 0 /\ m_switches \in Switches

SetCs(val) ==
  /\ m_state' = IF val THEN 0 ELSE m_state
  /\ UNCHANGED m_switches

ExchResult ==
  CASE m_state = 0 -> HiZ
    [] m_state = 1 -> IdLow
    [] m_state = 2 -> IdHigh
    [] m_state = 3 -> [part |-> "lo", of |-> m_switches]
    [] m_state = 4 -> [part |-> "hi", of |-> m_switches]

Exch_Mut ==                              \* Mutant: wraps after the identification
  /\ m_state' = IF m_state + 1 = 3 THEN 1 ELSE m_state + 1
  /\ UNCHANGED m_switches

Exch ==
  /\ m_state' = IF m_state + 1 = 5 THEN 1 ELSE m_state + 1
  /\ UNCHANGED m_switches

SetSwitches == m_switches' \in Switches /\ UNCHANGED m_state
=============================================================================
