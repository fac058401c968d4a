-------------------------------- MODULE UNR ---------------------------------
(***************************************************************************)
(* GTE::divide of src/src/core/GTE.cpp at its real width: the quotient of  *)
(* two 16-bit numbers with 16 fraction bits, from a table of reciprocals   *)
(* and two Newton steps, all of it in u32.                                 *)
(***************************************************************************)
EXTENDS Integers

Limit == 2^17 - 1                                     \* 0x1FFFF

(* The literal Tab[257] of the source is this function.                    *)
Tab == [i \in 0 .. 256 |->
          LET x == (2^18 \div (i + 2^8) + 1) \div 2 - (2^8 + 1)
          IN  IF x < 0 THEN 0 ELSE x]

(* countl_zero of a 16-bit number *)
LeadingZeros(q) == CHOOSE z \in 0 .. 16 : 2^(16 - z) > q /\ (z = 16 \/ 2^(15 - z) <= q)

(* ((u64) n * d + 0x8000) >> 16, in steps of 8 bits that TLC can count.    *)
MulRound(n, d) ==
  ((n \div 2^8) * d + ((n % 2^8) * d + 2^15) \div 2^8) \div 2^8

Divide(p, q) ==
  IF p >= 2 * q THEN Limit
  ELSE LET z == LeadingZeros(q)
           d == q * 2^z
           u == Tab[(d - 32704) \div 2^7] + 2^8 + 1   \* 0x7FC0
           e == (33554560 - d * u) \div 2^8           \* 0x2000080
           r == (2^7 + e * u) \div 2^8
           res == MulRound(p * 2^z, r)
       IN  IF res > Limit THEN Limit ELSE res

(* floor(p * 2^16 / q), by long division *)
ExactQuotient(p, q) ==
  LET high == p * 2^8
  IN  (high \div q) * 2^8 + ((high % q) * 2^8) \div q

Divisors == {2^k : k \in 0 .. 15} \cup {2^k - 1 : k \in 1 .. 16}
             \cup {2^k + 1 : k \in 1 .. 15} \cup {257 * j : j \in 1 .. 255}
Dividends(q) == {p \in {0, 1, q \div 3, q - 1, q, q + 1, (3 * q) \div 2, 2 * q - 1} :
                   p < 2^16}

(* Over the divisors at and around the powers of two and a grid between    *)
(* them, and dividends from 0 to the limit of the overflow test, the       *)
(* division of the source is within 3 of the true quotient and never       *)
(* leaves 17 bits.                                                         *)
ASSUME DivideIsClose ==
  \A q \in Divisors : \A p \in Dividends(q) :
    LET res == Divide(p, q)
        exact == ExactQuotient(p, q)
    IN  /\ res \in 0 .. Limit
        /\ \/ res - exact \in -3 .. 3
           \/ exact > Limit - 3 /\ res \in (Limit - 3) .. Limit
=============================================================================
