-------------------------------- MODULE Bus ---------------------------------
(***************************************************************************)
(* The address map (Bus::map_addr of src/src/core/Bus.cpp) with the        *)
(* numbers of the source.  A u32 address is the pair of its upper 3 bits,  *)
(* the segment, and the 29 bits that are left of it in kuseg.              *)
(***************************************************************************)
EXTENDS Integers

IsAddress(a) == a.seg \in 0 .. 7 /\ a.off \in Nat /\ a.off < 536870912    \* 2^29

Dummy == [dev |-> "dummy", at |-> 0]
Crash == [dev |-> "panic", at |-> 0]

(* A region of the second half: its first address, the last one map_addr   *)
(* compares with, its device                                               *)
Bios == 532676608                           \* 0x1FC00000
Redux == 528490624                          \* 0x1F802080
Gpu == 528488464                            \* 0x1F801810
Scratch == 528482304                        \* 0x1F800000
Sio0 == 528486464                           \* 0x1F801040
IntC == 528486512                           \* 0x1F801070

(* map_addr: the comparisons in the order of the source.  The cache        *)
(* registers come first, with their whole address; everything else is      *)
(* thrown into kuseg.                                                      *)
MapKuseg(off) ==
  IF off < 8388608 THEN [dev |-> "ram", at |-> off % 2097152]
  ELSE IF off >= Bios THEN [dev |-> "bios", at |-> off - Bios]
  ELSE IF off >= Redux /\ off <= Redux + 4 THEN [dev |-> "redux", at |-> off - Redux]
  ELSE IF off >= Gpu /\ off <= Gpu + 4 THEN [dev |-> "gpu", at |-> off - Gpu]
  ELSE IF off >= Scratch /\ off <= Scratch + 1024 THEN [dev |-> "scratch", at |-> off - Scratch]
  ELSE IF off >= Sio0 /\ off <= Sio0 + 14 THEN [dev |-> "sio0", at |-> off - Sio0]
  ELSE IF off >= IntC /\ off <= IntC + 4 THEN [dev |-> "intc", at |-> off - IntC]
  ELSE IF off < 520093696 THEN Crash                           \* 0x1F000000
  ELSE Dummy
MapAddr(a) ==
  IF a.seg = 7 /\ a.off = 536870911 THEN Crash
  ELSE IF a.seg = 7 /\ a.off >= 536739840 THEN Dummy           \* 0xFFFE0000
  ELSE MapKuseg(a.off)

(* Bytes of a device: what MemBlockDevice holds, what the switches of the  *)
(* others distinguish                                                      *)
Size(dev) == IF dev = "ram" THEN 2097152 ELSE IF dev = "bios" THEN 4194304
             ELSE IF dev = "scratch" THEN 1024 ELSE IF dev = "sio0" THEN 16 ELSE 8

(* An access is refused by map_addr, and a store also by the ROM.          *)
Readable(a) == MapAddr(a).dev # "panic"
Writable(a) == MapAddr(a).dev \notin {"panic", "bios"}
=============================================================================
