------------------------------- MODULE Words --------------------------------
(***************************************************************************)
(* What single instructions of the CPU do to words (src/src/core/CPU.cpp): *)
(* the parts of a word that the unaligned loads and stores move, with the  *)
(* byte order of the memories (MemBlockDevice.cpp), and the test by which  *)
(* ADD, ADDI and SUB trap.  A word is a function from its bytes, 0 the     *)
(* least significant one, or where it is computed with, a number below M.  *)
(***************************************************************************)
EXTENDS Integers

Bytes == 0 .. 3
Read32(mem, a) == [i \in Bytes |-> mem[a + i]]
Write32(mem, a, w) == [b \in DOMAIN mem |-> IF b \in a .. a + 3 THEN w[b - a] ELSE mem[b]]

Base(a) == a - (a % 4)

(* op_LWL, op_LWR: the register gets the upper end of the word that ends   *)
(* at a, or the lower end of the word that starts there.                   *)
Lwl(mem, a, val) ==
  LET src == Read32(mem, Base(a)) IN
  [i \in Bytes |-> IF i + (a % 4) >= 3 THEN src[i + (a % 4) - 3] ELSE val[i]]
Lwr(mem, a, val) ==
  LET src == Read32(mem, Base(a)) IN
  [i \in Bytes |-> IF i + (a % 4) <= 3 THEN src[i + (a % 4)] ELSE val[i]]

(* op_SWL, op_SWR: the same ends go to memory, the rest of the aligned     *)
(* word is written back as it was read.                                    *)
Swl(mem, a, src) ==
  LET val == Read32(mem, Base(a)) IN
  Write32(mem, Base(a), [i \in Bytes |-> IF i <= a % 4 THEN src[i + (3 - (a % 4))] ELSE val[i]])
Swr(mem, a, src) ==
  LET val == Read32(mem, Base(a)) IN
  Write32(mem, Base(a), [i \in Bytes |-> IF i >= a % 4 THEN src[i - (a % 4)] ELSE val[i]])

(* add_overflows, sub_overflows: by the signs of the operands and of what  *)
(* is left of the result in a register.                                    *)
IsNegative(M, x) == 2 * x >= M
AddOverflows(M, a, b) ==
  LET r == (a + b) % M IN
  IsNegative(M, a) = IsNegative(M, b) /\ IsNegative(M, r) # IsNegative(M, a)
SubOverflows(M, a, b) ==
  LET r == (a + M - b) % M IN
  IsNegative(M, a) # IsNegative(M, b) /\ IsNegative(M, r) # IsNegative(M, a)

-----------------------------------------------------------------------------
(* The idiom the two loads exist for, in either order: the word at any     *)
(* address, whatever the register held.                                    *)
LoadsWhole(mem, a, val) ==
  /\ Lwl(mem, a + 3, Lwr(mem, a, val)) = Read32(mem, a)
  /\ Lwr(mem, a, Lwl(mem, a + 3, val)) = Read32(mem, a)

(* The two stores put a word at any address and touch no other byte.       *)
StoresWhole(mem, a, src) ==
  /\ Swl(Swr(mem, a, src), a + 3, src) = Write32(mem, a, src)
  /\ Swr(Swl(mem, a + 3, src), a, src) = Write32(mem, a, src)

(* An addition or a subtraction traps exactly when its result does not fit.*)
AsSigned(M, x) == IF IsNegative(M, x) THEN x - M ELSE x
Fits(M, x) == 2 * x < M /\ 2 * x >= -M
TrapsIfTooBig(M, a, b) ==
  /\ AddOverflows(M, a, b) <=> ~Fits(M, AsSigned(M, a) + AsSigned(M, b))
  /\ SubOverflows(M, a, b) <=> ~Fits(M, AsSigned(M, a) - AsSigned(M, b))

(* Checked on 12 bytes that are all different, and on all pairs of words   *)
(* of 4 bits.                                                              *)
ASSUME WordsAssumption ==
  LET mem == [b \in 0 .. 11 |-> b]  val == [i \in Bytes |-> 12 + i] IN
  /\ \A a \in 0 .. 8 : LoadsWhole(mem, a, val) /\ StoresWhole(mem, a, val)
  /\ \A a, b \in 0 .. 15 : TrapsIfTooBig(16, a, b)
=============================================================================
