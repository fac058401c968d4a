--------------------------- MODULE MCCPUControl ---------------------------
(***************************************************************************)
(* A small instance of CPU for control flow and progress: jumps to aligned *)
(* and misaligned targets, delay slots, Panics, stalls, and a program that *)
(* enables, acknowledges and forgets interrupts, in three words of code,   *)
(* two of them exception vectors.                                          *)
(***************************************************************************)
EXTENDS CPU

MCExcVec == [bev \in BOOLEAN |-> IF bev THEN 4 ELSE 8]

Enabled == [iec |-> TRUE, kuc |-> FALSE, iep |-> FALSE, kup |-> FALSE,
            ieo |-> FALSE, kuo |-> FALSE, im |-> TRUE, isc |-> FALSE,
            bev |-> FALSE]

MCInstrs ==
       [op : {"JR"}, rs : {1}, rd : {1}, link : {FALSE}]
  \cup [op : {"W_MASK"}, irqs : {{"CTRL"}}]
  \cup [op : {"W_STAT"}, irqs : {{}}]
  \cup [op : {"MTC0_SR"}, sr : {Enabled}]
  \cup [op : {"MTC0_CAUSE"}, ip : {FALSE}]
  \cup [op : {"PANIC", "RFE"}]
  \cup [op : {"MULTDIV"}, rs : {0}, rt : {0}, cycles : {2}]
  \cup [op : {"MF"}, h : {"hi"}, rd : {0}]
=============================================================================
