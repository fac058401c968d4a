---------------------------- MODULE MCCPURegs ----------------------------
(***************************************************************************)
(* A small instance of CPURefinement for the register data path: straight- *)
(* line programs of every instruction that touches registers, the delayed  *)
(* load, HI/LO or the GTE, with multi-cycle operations of 1 to 3 cycles.   *)
(***************************************************************************)
EXTENDS CPURefinement, Words, FiniteSets

MCExcVec == [bev \in BOOLEAN |-> 0]

MCInstrs ==
       [op : {"ALU"}, rd : {1}, rs : {0}]
  \cup [op : {"ALU"}, rd : {0}, rs : {1}]
  \cup [op : {"SRA"}, rd : {1}, rs : {0}]
  \cup [op : {"LOAD", "MFC2"}, rt : {1}, val : {2}]
  \cup [op : {"LWX", "MFC0_EPC"}, rt : {1}]
  \cup [op : {"MF"}, h : {"lo"}, rd : {1}]
  \cup [op : {"MT"}, h : {"lo"}, rs : {1}]
  \cup [op : {"MULTDIV"}, rs : {1}, rt : {0}, cycles : {1, 2}]
  \cup [op : {"GTECMD"}, cycles : {0}]
  \cup [op : {"TRAP"}, code : {"SYS"}]
  \cup [op : {"BRANCH"}, taken : {FALSE}, off : {0}, link : {TRUE}]
  \cup [op : {"JUMP"}, target : {0}, link : {FALSE}]
  \cup [op : {"PANIC", "STORE"}]
=============================================================================
