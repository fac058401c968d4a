------------------------------ MODULE MCDebug ------------------------------
(***************************************************************************)
(* A BIOS of two instructions, of which the second waits for the unit the  *)
(* first one starts; the point where the shell would start, which copies a *)
(* word; an executable, whose first instruction may wait for that unit,    *)
(* whose second stores to the word and whose third stores to the ROM or    *)
(* jumps where no memory is.                                               *)
(***************************************************************************)
EXTENDS Debug

At(seg, off) == [seg |-> seg, off |-> off]
MCResetPc == At(5, 532676608)               \* 0xBFC00000
MCSideloadPc == At(4, 196608)               \* 0x80030000
MCStartPc == At(4, 65536)
MCVector == At(4, 128)
Second == At(5, 532676612)
Third == At(4, 65540)
Nowhere == At(0, 8388608)                   \* behind the mirrors of the RAM
Word == At(0, 4096)
Rom == At(5, 532676616)

Instr(starts, waits, load, store, next) ==
  [starts |-> starts, waits |-> waits, load |-> load, store |-> store, next |-> next]
MCProgram ==
  [pc \in {MCResetPc, Second, MCSideloadPc, MCStartPc, Third, MCVector, Nowhere} |->
     CASE pc = MCResetPc -> Instr(TRUE, FALSE, None, None, {Second})
       [] pc = Second -> Instr(FALSE, TRUE, None, None, {MCResetPc, MCSideloadPc})
       [] pc = MCSideloadPc -> Instr(TRUE, FALSE, Word, None, {MCStartPc})
       [] pc = MCStartPc -> Instr(FALSE, TRUE, None, Word, {Third, MCResetPc})
       [] pc = Third -> Instr(FALSE, FALSE, None, Rom, {Nowhere})
       [] pc = MCVector -> Instr(FALSE, FALSE, None, None, {Second, Nowhere})
       [] OTHER -> Instr(FALSE, FALSE, None, None, {pc})]

MCBreaks == {MCStartPc}
MCWatches == {Word}
MCTargets == {Word, Rom}
=============================================================================
