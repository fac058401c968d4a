----------------------------- MODULE GTEProofs ------------------------------
(***************************************************************************)
(* Proofs about module GTE, for every width in the order the source has:   *)
(* what its registers hold, that a context switch restores them, and what  *)
(* FLAG says of a result that was limited or cut.                          *)
(*                                                                         *)
(* The invariant, UnitOK, says of each register and accumulator what its   *)
(* type is; every primitive keeps it, so every command does.  What the     *)
(* last steps of a command may not undo is carried along it: Done, that    *)
(* IR follows the accumulators, and Onward, that the accumulators are kept *)
(* and FLAG grows.                                                         *)
(***************************************************************************)
EXTENDS GTE, FiniteSetTheorems, FunctionTheorems, WellFoundedInduction, TLAPS

-----------------------------------------------------------------------------
(* Powers of two.  A power is the number of subsets of a finite set, which *)
(* is what the library knows about it.                                     *)
LEMMA PowerType == ASSUME NEW n \in Nat PROVE 2^n \in Nat /\ 2^n > 0
<1>1. IsFiniteSet(1 .. n) /\ Cardinality(1 .. n) = n
  BY FS_Interval, SMT
<1>2. IsFiniteSet(SUBSET (1 .. n)) /\ Cardinality(SUBSET (1 .. n)) = 2^n
  BY <1>1, FS_SUBSET, Zenon
<1>3. SUBSET (1 .. n) # {}
  OBVIOUS
<1>4. 2^n \in Nat
  BY <1>2, FS_CardinalityType, Zenon
<1>5. 2^n # 0
  BY <1>2, <1>3, FS_EmptySet, Zenon
<1> QED  BY <1>4, <1>5, SMT

LEMMA PowerNext == ASSUME NEW n \in Nat PROVE 2^(n + 1) = 2 * 2^n
<1> DEFINE S == 1 .. n
           A == SUBSET S
           B == {x \cup {n + 1} : x \in A}
           f == [x \in A |-> x \cup {n + 1}]
<1>1. /\ IsFiniteSet(S) /\ Cardinality(S) = n
      /\ IsFiniteSet(1 .. n + 1) /\ Cardinality(1 .. n + 1) = n + 1
  BY FS_Interval, SMT
<1>2. IsFiniteSet(A) /\ Cardinality(A) = 2^n
  BY <1>1, FS_SUBSET, Zenon
<1>3. Cardinality(SUBSET (1 .. n + 1)) = 2^(n + 1)
  BY <1>1, FS_SUBSET, Zenon
<1>4. 1 .. n + 1 = S \cup {n + 1} /\ n + 1 \notin S
  BY SMT
<1>5. SUBSET (1 .. n + 1) = A \cup B
  <2>1. ASSUME NEW x \in SUBSET (1 .. n + 1), n + 1 \in x PROVE x \in B
    <3>1. x = (x \ {n + 1}) \cup {n + 1} /\ x \ {n + 1} \in A
      BY <1>4, <2>1
    <3> QED  BY <3>1, Zenon
  <2>2. ASSUME NEW x \in SUBSET (1 .. n + 1), n + 1 \notin x PROVE x \in A
    BY <1>4, <2>2
  <2>3. A \cup B \subseteq SUBSET (1 .. n + 1)
    BY <1>4
  <2> QED  BY <2>1, <2>2, <2>3
<1>6. A \cap B = {}
  BY <1>4
<1>7. f \in Bijection(A, B)
  <2>1. f \in [A -> B] /\ \A y \in B : \E x \in A : f[x] = y
    OBVIOUS
  <2>2. ASSUME NEW x \in A, NEW y \in A, f[x] = f[y] PROVE x = y
    <3>1. x = f[x] \ {n + 1} /\ y = f[y] \ {n + 1}
      BY <1>4
    <3> QED  BY <3>1, <2>2, Zenon
  <2> QED  BY <2>1, <2>2, Fun_IsBij, Zenon
<1>8. IsFiniteSet(B) /\ Cardinality(B) = 2^n
  BY <1>2, <1>7, FS_Bijection, Zenon DEF ExistsBijection
<1> HIDE DEF A, B, S, f
<1>9. Cardinality(A \cup B) = Cardinality(A) + Cardinality(B) - Cardinality(A \cap B)
  BY <1>2, <1>8, FS_Union, Zenon
<1>10. Cardinality(A \cap B) = 0
  BY <1>6, FS_EmptySet, Zenon
<1>11. 2^(n + 1) = 2^n + 2^n - 0
  BY <1>2, <1>3, <1>5, <1>8, <1>9, <1>10, Zenon
<1>12. \A p \in Nat : p + p - 0 = 2 * p
  BY SMT
<1> QED  BY <1>11, <1>12, PowerType, Zenon

(* Induction on the naturals, by the least number for which a fact fails.  *)
LEMMA Least0 ==
  ASSUME NEW T \in SUBSET Nat, T # {}
  PROVE  \E n \in T : \A m \in Nat : m < n => m \notin T
<1>1. PICK n \in T : \A m \in T : ~(<<m, n>> \in OpToRel(<, Nat))
  BY NatLessThanWellFounded, WFMin, Zenon
<1>2. ASSUME NEW m \in T, m < n PROVE FALSE
  <2>1. <<m, n>> \in Nat \X Nat /\ <<m, n>>[1] < <<m, n>>[2]
    BY <1>2
  <2> QED  BY <1>1, <2>1 DEF OpToRel
<1> QED  BY <1>2, Zenon

LEMMA PowerSum == ASSUME NEW a \in Nat, NEW b \in Nat PROVE 2^(a + b) = 2^a * 2^b
<1> DEFINE T == {n \in Nat : 2^(a + n) # 2^a * 2^n}
<1>1. SUFFICES ASSUME T # {} PROVE FALSE
  BY Zenon
<1>2. PICK n \in T : \A m \in Nat : m < n => m \notin T
  BY <1>1, Least0, Zenon
<1>3. n # 0
  <2>1. a + 0 = a /\ 2^0 = 1 /\ \A p \in Nat : p * 1 = p
    BY SMT
  <2>2. 2^(a + 0) = 2^a * 2^0
    BY <2>1, PowerType, Zenon
  <2> QED  BY <1>2, <2>2, Zenon
<1>4. /\ n - 1 \in Nat /\ n - 1 < n /\ n - 1 + 1 = n /\ a + (n - 1) \in Nat
      /\ a + (n - 1) + 1 = a + n
  BY <1>2, <1>3, SMT
<1>5. 2^(a + (n - 1)) = 2^a * 2^(n - 1)
  BY <1>2, <1>4, Zenon
<1>6. 2^(a + n) = 2 * 2^(a + (n - 1)) /\ 2^n = 2 * 2^(n - 1)
  BY <1>4, PowerNext, Zenon
<1>7. \A p, q \in Nat : 2 * (p * q) = p * (2 * q)
  BY SMT
<1>8. 2^(a + n) = 2^a * 2^n
  <2>1. 2^(a + n) = 2 * (2^a * 2^(n - 1))
    BY <1>5, <1>6, Zenon
  <2>2. 2 * (2^a * 2^(n - 1)) = 2^a * (2 * 2^(n - 1))
    BY <1>4, <1>7, PowerType, Zenon
  <2> QED  BY <1>6, <2>1, <2>2, Zenon
<1> QED  BY <1>2, <1>8, Zenon

LEMMA PowerUp == ASSUME NEW a \in Nat, NEW b \in Nat, a <= b PROVE 2^a <= 2^b
<1>1. b - a \in Nat /\ a + (b - a) = b
  BY SMT
<1>2. 2^b = 2^a * 2^(b - a)
  BY <1>1, PowerSum, Zenon
<1>3. \A p, q \in Nat : q > 0 => p <= p * q
  BY SMT
<1> QED  BY <1>1, <1>2, <1>3, PowerType, Zenon

-----------------------------------------------------------------------------
(* Remainders of any divisor.                                              *)
LEMMA Division ==
  ASSUME NEW x \in Int, NEW m \in Nat, m > 0
  PROVE  /\ x \div m \in Int /\ x % m \in 0 .. m - 1
         /\ x = m * (x \div m) + (x % m)
<1>1. x \div m \in Int
  BY SMT
<1>2. x % m \in 0 .. m - 1
  BY SMT
<1>3. x = m * (x \div m) + (x % m)
  BY SMT
<1> QED  BY <1>1, <1>2, <1>3

LEMMA Remainder ==
  ASSUME NEW m \in Nat, m > 0, NEW q \in Int, NEW r \in 0 .. m - 1
  PROVE  (m * q + r) % m = r /\ (m * q + r) \div m = q
<1> DEFINE x == m * q + r
<1>1. x \in Int /\ x = m * q + r
  BY SMT
<1> HIDE DEF x
<1>2. x \div m \in Int /\ x % m \in 0 .. m - 1 /\ x = m * (x \div m) + (x % m)
  BY <1>1, Division, Zenon
<1>3. \A k \in Int, d \in Int : m * k = d /\ d < m /\ -m < d => k = 0
  <2> SUFFICES ASSUME NEW k \in Int, m * k < m, -m < m * k PROVE k = 0
    BY SMT
  <2>1. CASE k >= 1
    BY <2>1, SMT
  <2>2. CASE k <= -1
    BY <2>2, SMT
  <2> QED  BY <2>1, <2>2, SMT
<1>4. m * (q - (x \div m)) = (x % m) - r
  BY <1>1, <1>2, SMT
<1>5. /\ (x % m) - r \in Int /\ (x % m) - r < m /\ -m < (x % m) - r
      /\ q - (x \div m) \in Int
  BY <1>2, SMT
<1>6. q - (x \div m) = 0
  BY <1>3, <1>4, <1>5, Zenon
<1>7. x \div m = q /\ x % m = r
  BY <1>1, <1>2, <1>6, SMT
<1> QED  BY <1>7 DEF x

-----------------------------------------------------------------------------
(* Low, Signed, Sar and Clamp, for every width.                            *)
Numbers(n) == -(2^(n - 1)) .. 2^(n - 1) - 1

LEMMA HalfPower ==
  ASSUME NEW n \in Nat, n > 0
  PROVE  n - 1 \in Nat /\ 2^n = 2 * 2^(n - 1) /\ 2^(n - 1) \in Nat /\ 2^(n - 1) > 0
<1>1. n - 1 \in Nat /\ n - 1 + 1 = n
  BY SMT
<1> QED  BY <1>1, PowerNext, PowerType, Zenon

LEMMA LowRange == ASSUME NEW x \in Int, NEW n \in Nat PROVE Low(x, n) \in 0 .. 2^n - 1
BY PowerType, Division, Zenon DEF Low

LEMMA LowSame == ASSUME NEW n \in Nat, NEW x \in 0 .. 2^n - 1 PROVE Low(x, n) = x
<1>1. 2^n \in Nat /\ 2^n > 0 /\ 0 \in Int /\ 2^n * 0 + x = x
  BY PowerType, SMT
<1> QED  BY <1>1, Remainder DEF Low

LEMMA LowNegative ==
  ASSUME NEW n \in Nat, NEW x \in -(2^n) .. -1
  PROVE  Low(x, n) = x + 2^n
<1>1. 2^n \in Nat /\ 2^n > 0
  BY PowerType
<1>2. x + 2^n \in 0 .. 2^n - 1 /\ -1 \in Int /\ 2^n * (-1) + (x + 2^n) = x
  BY <1>1, SMT
<1>3. (2^n * (-1) + (x + 2^n)) % 2^n = x + 2^n
  BY <1>1, <1>2, Remainder, Zenon
<1> QED  BY <1>2, <1>3, Zenon DEF Low

LEMMA SignedRange ==
  ASSUME NEW x \in Int, NEW n \in Nat, n > 0
  PROVE  Signed(x, n) \in Numbers(n) /\ Signed(x, n) \in Int
<1> DEFINE y == x % 2^n
<1>1. y \in 0 .. 2^n - 1
  BY PowerType, Division, Zenon
<1>2. Signed(x, n) = IF y >= 2^(n - 1) THEN y - 2^n ELSE y
  BY Zenon DEF Signed
<1> HIDE DEF y
<1> QED  BY <1>1, <1>2, HalfPower, SMT DEF Numbers

(* A word that stands for a number of the width is that number again.      *)
LEMMA SignedSame ==
  ASSUME NEW n \in Nat, n > 0, NEW x \in Numbers(n)
  PROVE  Signed(x, n) = x
<1>1. 2^n = 2 * 2^(n - 1) /\ 2^(n - 1) \in Nat /\ 2^(n - 1) > 0 /\ 2^n \in Nat
  BY HalfPower, PowerType
<1>2. Signed(x, n) = IF Low(x, n) >= 2^(n - 1) THEN Low(x, n) - 2^n ELSE Low(x, n)
  BY Zenon DEF Signed, Low
<1>3. CASE x >= 0
  <2>1. x \in 0 .. 2^n - 1 /\ x < 2^(n - 1)
    BY <1>1, <1>3, SMT DEF Numbers
  <2>2. Low(x, n) = x
    BY <2>1, LowSame
  <2> QED  BY <1>1, <1>2, <2>1, <2>2, SMT
<1>4. CASE x < 0
  <2>1. x \in -(2^n) .. -1 /\ x + 2^n >= 2^(n - 1) /\ x \in Int
    BY <1>1, <1>4, SMT DEF Numbers
  <2>2. Low(x, n) = x + 2^n
    BY <2>1, LowNegative
  <2> QED  BY <1>1, <1>2, <2>1, <2>2, SMT
<1>5. x \in Int
  BY <1>1, SMT DEF Numbers
<1> QED  BY <1>3, <1>4, <1>5, SMT

LEMMA SignedOfLow ==
  ASSUME NEW n \in Nat, n > 0, NEW x \in Int
  PROVE  Signed(Low(x, n), n) = Signed(x, n)
<1>1. Low(Low(x, n), n) = Low(x, n)
  BY LowRange, LowSame
<1> QED  BY <1>1, Zenon DEF Signed, Low

LEMMA LowOfSigned ==
  ASSUME NEW n \in Nat, n > 0, NEW x \in Int
  PROVE  Low(Signed(x, n), n) = Low(x, n)
<1>1. Low(x, n) \in 0 .. 2^n - 1 /\ Low(Low(x, n), n) = Low(x, n)
  BY LowRange, LowSame
<1>2. 2^n = 2 * 2^(n - 1) /\ 2^(n - 1) \in Nat /\ 2^(n - 1) > 0 /\ 2^n \in Nat
  BY HalfPower, PowerType
<1>3. Signed(x, n) = IF Low(x, n) >= 2^(n - 1) THEN Low(x, n) - 2^n ELSE Low(x, n)
  BY Zenon DEF Signed, Low
<1>4. CASE Low(x, n) >= 2^(n - 1)
  <2>1. Low(x, n) - 2^n \in -(2^n) .. -1 /\ Low(x, n) - 2^n + 2^n = Low(x, n)
    BY <1>1, <1>2, <1>4, SMT
  <2> QED  BY <1>3, <1>4, <2>1, LowNegative, Zenon
<1>5. CASE ~(Low(x, n) >= 2^(n - 1))
  BY <1>1, <1>3, <1>5, Zenon
<1> QED  BY <1>4, <1>5, Zenon

LEMMA ClampRange ==
  ASSUME NEW x \in Int, NEW l \in Int, NEW h \in Int, l <= h
  PROVE  Clamp(x, l, h) \in l .. h /\ Clamp(x, l, h) \in Int
BY SMT DEF Clamp

LEMMA SarType == ASSUME NEW x \in Int, NEW n \in Nat PROVE Sar(x, n) \in Int
BY PowerType, Division, Zenon DEF Sar

(* A shift to the right stays inside what it was in.                       *)
LEMMA SarRange ==
  ASSUME NEW n \in Nat, n > 0, NEW x \in Numbers(n), NEW k \in Nat
  PROVE  Sar(x, k) \in Numbers(n)
<1> DEFINE m == 2^k
           t == 2^(n - 1)
           q == x \div m
           r == x % m
<1>1. m \in Nat /\ m > 0 /\ t \in Nat
  BY PowerType, HalfPower
<1>2. x \in Int /\ -t <= x /\ x < t
  BY <1>1, SMT DEF Numbers
<1>3. q \in Int /\ r \in 0 .. m - 1 /\ x = m * q + r
  BY <1>1, <1>2, Division, Zenon
<1> HIDE DEF m, t, q, r
<1>4. q < t
  <2>1. CASE q <= 0
    <3>1. q = 0 => x >= 0
      BY <1>1, <1>3, SMT
    <3> QED  BY <1>1, <1>2, <1>3, <2>1, <3>1, SMT
  <2>2. CASE q > 0
    <3>1. m * q >= q
      BY <1>1, <1>3, <2>2, SMT
    <3> QED  BY <1>1, <1>2, <1>3, <3>1, SMT
  <2> QED  BY <1>3, <2>1, <2>2, SMT
<1>5. -t <= q
  <2>1. CASE q >= 0
    BY <1>1, <1>3, <2>1, SMT
  <2>2. CASE q < 0 /\ q < -t
    <3>1. m * (q + 1) <= q + 1
      BY <1>1, <1>3, <2>2, SMT
    <3>2. x < m * (q + 1)
      BY <1>1, <1>3, SMT
    <3> QED  BY <1>1, <1>2, <1>3, <2>2, <3>1, <3>2, SMT
  <2> QED  BY <1>1, <1>3, <2>1, <2>2, SMT
<1>6. Sar(x, k) = q
  BY Zenon DEF Sar, q, m
<1>7. q \in -t .. t - 1
  BY <1>1, <1>3, <1>4, <1>5, SMT
<1> QED  BY <1>6, <1>7, Zenon DEF Numbers, t

-----------------------------------------------------------------------------
(* The widths of the unit.                                                 *)
Words == 0 .. 2^Word - 1

LEMMA Widths ==
  /\ Word \in Nat /\ Half \in Nat /\ Shift \in Nat /\ Color \in Nat /\ Screen \in Nat
  /\ Rgb \in Nat /\ Word > 0 /\ Half > 1 /\ Shift > 0 /\ Color > 0 /\ Screen > 0 /\ Rgb > 0
  /\ Word = Half + Half /\ Half = Color + Color /\ Shift < Half - 1 /\ Screen < Half
  /\ Color < Shift /\ Rgb < Shift /\ 3 * Rgb <= Half
  /\ MacBits = Word + Shift /\ Mac0Bits = Word + Half
<1>1. /\ Word \in Nat /\ Shift \in Nat /\ Color \in Nat /\ Screen \in Nat /\ Rgb \in Nat
      /\ Word > 0 /\ Shift > 0 /\ Color > 0 /\ Screen > 0 /\ Rgb > 0
      /\ Word = 2 * Half /\ Word = 4 * Color /\ Screen < Half
      /\ Color < Shift /\ Shift < Half - 1 /\ Rgb < Shift /\ 3 * Rgb <= Half
  BY WidthAssumption
<1>2. Half \in Nat
  BY <1>1, SMT DEF Half
<1> QED  BY <1>1, <1>2, SMT DEF MacBits, Mac0Bits

LEMMA Powers ==
  /\ 2^Word \in Nat /\ 2^Half \in Nat /\ 2^(Half - 1) \in Nat /\ 2^(Word - 1) \in Nat
  /\ 2^Shift \in Nat /\ 2^Color \in Nat
  /\ 2^Word > 0 /\ 2^Half > 0 /\ 2^(Half - 1) > 0 /\ 2^Shift > 0 /\ 2^Color > 0
  /\ 2^Half = 2 * 2^(Half - 1) /\ 2^Word = 2 * 2^(Word - 1)
  /\ 2^Word = 2^Half * 2^Half /\ 2^Half = 2^Color * 2^Color
  /\ 2^Half <= 2^(Word - 1) /\ 2^Shift < 2^(Half - 1)
<1>1. /\ 2^Word \in Nat /\ 2^Half \in Nat /\ 2^Shift \in Nat /\ 2^Color \in Nat
      /\ 2^Word > 0 /\ 2^Half > 0 /\ 2^Shift > 0 /\ 2^Color > 0
  BY Widths, PowerType
<1>2. /\ 2^(Half - 1) \in Nat /\ 2^(Word - 1) \in Nat /\ 2^(Half - 1) > 0
      /\ 2^Half = 2 * 2^(Half - 1) /\ 2^Word = 2 * 2^(Word - 1)
  <2>1. Half > 0
    BY Widths, SMT
  <2> QED  BY <2>1, Widths, HalfPower
<1>3. 2^Word = 2^Half * 2^Half /\ 2^Half = 2^Color * 2^Color
  BY Widths, PowerSum, Zenon
<1>4. 2^Half <= 2^(Word - 1)
  <2>1. Half <= Word - 1 /\ Word - 1 \in Nat
    BY Widths, SMT
  <2> QED  BY <2>1, Widths, PowerUp, Zenon
<1>5. 2^Shift < 2^(Half - 1)
  <2>1. Shift + 1 <= Half - 1 /\ Half - 1 \in Nat /\ Shift + 1 \in Nat
    BY Widths, SMT
  <2>2. 2^(Shift + 1) <= 2^(Half - 1) /\ 2^(Shift + 1) = 2 * 2^Shift
    BY <2>1, Widths, PowerUp, PowerNext, Zenon
  <2>3. \A p, q \in Nat : p > 0 /\ 2 * p <= q => p < q
    BY SMT
  <2> QED  BY <1>1, <1>2, <2>2, <2>3, Zenon
<1> QED  BY <1>1, <1>2, <1>3, <1>4, <1>5, Zenon

(* A number of 16 bits, sign-extended into a register, is read and written *)
(* back unchanged.                                                         *)
LEMMA Extended ==
  ASSUME NEW x \in Numbers(Half)
  PROVE  /\ Low(x, Word) \in Words
         /\ Signed(Low(x, Word), Half) = x
         /\ Signed(Low(x, Word), Word) = x
<1> DEFINE h == 2^(Half - 1)
           H == 2^Half
           W == 2^Word
<1>1. h \in Nat /\ h > 0 /\ H = 2 * h /\ W = H * H /\ H <= 2^(Word - 1) /\ W = 2 * 2^(Word - 1)
      /\ 2^(Word - 1) \in Nat
  BY Powers
<1>2. x \in Int /\ -h <= x /\ x < h
  BY <1>1, SMT DEF Numbers
<1>3. Low(x, Word) \in Words
  BY <1>2, LowRange, Widths DEF Words
<1>4. Signed(Low(x, Word), Half) = x
  <2>1. Low(Low(x, Word), Half) = Low(x, Half)
    <3> HIDE DEF h, H, W
    <3>1. CASE x >= 0
      <4>1. x \in 0 .. W - 1
        BY <1>1, <1>2, <3>1, SMT
      <4> QED  BY <4>1, LowSame, Widths DEF W
    <3>2. CASE x < 0
      <4>1. x \in -W .. -1 /\ x \in -H .. -1 /\ x + H \in 0 .. H - 1
            /\ H - 1 \in Int /\ H * (H - 1) + (x + H) = x + W /\ H \in Nat /\ H > 0
        BY <1>1, <1>2, <3>2, SMT
      <4>2. Low(x, Word) = x + W /\ Low(x, Half) = x + H
        BY <4>1, LowNegative, Widths DEF W, H
      <4>3. (x + W) % H = x + H
        <5> DEFINE q == H - 1
                   r == x + H
        <5>1. H \in Nat /\ H > 0 /\ q \in Int /\ r \in 0 .. H - 1 /\ H * q + r = x + W
          BY <4>1
        <5> HIDE DEF q, r
        <5>2. (H * q + r) % H = r
          BY <5>1, Remainder
        <5> QED  BY <5>1, <5>2, Zenon DEF r
      <4> QED  BY <4>2, <4>3 DEF Low, H
    <3> QED  BY <1>2, <3>1, <3>2, SMT
  <2>2. Signed(x, Half) = x
    BY SignedSame, Widths
  <2>3. Signed(Low(x, Word), Half) = Signed(x, Half)
    BY <2>1, Zenon DEF Signed, Low
  <2> QED  BY <2>2, <2>3
<1>5. Signed(Low(x, Word), Word) = x
  <2>1. x \in Numbers(Word)
    BY <1>1, <1>2, SMT DEF Numbers
  <2> QED  BY <1>2, <2>1, SignedSame, SignedOfLow, Widths, Zenon
<1> QED  BY <1>3, <1>4, <1>5

-----------------------------------------------------------------------------
(* What the unit holds: the types, and GTETypeOK register by register.     *)
Units == [raw : [0 .. 62 -> Words], mac : [0 .. 3 -> Int], flag : SUBSET (12 .. 31)]
Bits(i) == IF i = 0 THEN Mac0Bits ELSE MacBits
RegOK(i, x) ==
  /\ x \in Words
  /\ i \in Signed16 => x = Low(Signed(x, Half), Word)
  /\ i \in Unsigned16 => x < 2^Half
MacOK(i, y, x) == y \in Numbers(Bits(i)) /\ x = Low(y, Word)
UnitOK(u) ==
  /\ u \in Units
  /\ \A i \in 0 .. 62 : RegOK(i, u.raw[i])
  /\ \A i \in 0 .. 3 : MacOK(i, u.mac[i], u.raw[24 + i])
  /\ u.flag = FlagWord(u.flag)

LEMMA BitsAre ==
  ASSUME NEW i \in 0 .. 3
  PROVE  Bits(i) \in Nat /\ Bits(i) > 0 /\ Word <= Bits(i)
BY Widths, SMT DEF Bits

(* One register, one accumulator, the flags.                               *)
Put(u, i, x) == [u EXCEPT !.raw[i] = x]

LEMMA PutOK ==
  ASSUME NEW u, UnitOK(u), NEW i \in 0 .. 62, i \notin 24 .. 27, NEW x, RegOK(i, x)
  PROVE  UnitOK(Put(u, i, x))
<1>1. u \in Units /\ i \in 0 .. 62 /\ x \in Words
  BY DEF UnitOK, RegOK
<1>2. /\ Put(u, i, x) \in Units
      /\ Put(u, i, x).raw[i] = x
      /\ \A j \in 0 .. 62 : j # i => Put(u, i, x).raw[j] = u.raw[j]
      /\ Put(u, i, x).mac = u.mac /\ Put(u, i, x).flag = u.flag
  BY <1>1, SMT DEF Put, Units
<1>3. \A j \in 0 .. 62 : RegOK(j, Put(u, i, x).raw[j])
  BY <1>2, Zenon DEF UnitOK
<1>4. \A j \in 0 .. 3 : MacOK(j, Put(u, i, x).mac[j], Put(u, i, x).raw[24 + j])
  <2>1. \A j \in 0 .. 3 : 24 + j \in 0 .. 62 /\ 24 + j # i
    BY SMT
  <2> QED  BY <1>2, <2>1, Zenon DEF UnitOK
<1> QED  BY <1>2, <1>3, <1>4, Zenon DEF UnitOK

LEMMA FlagWordFacts ==
  ASSUME NEW S
  PROVE  /\ FlagWord(S) \in SUBSET (12 .. 31)
         /\ FlagWord(FlagWord(S)) = FlagWord(S)
         /\ S \cap (12 .. 30) \subseteq FlagWord(S)
         /\ FlagWord(S) \cap (12 .. 30) = S \cap (12 .. 30)
<1>1. /\ 31 \notin 12 .. 30 /\ 31 \in 12 .. 31
      /\ \A n \in 12 .. 30 : n \in 12 .. 31
  BY SMT
<1> QED  BY <1>1, SMT DEF FlagWord, Errors

LEMMA RaiseIs ==
  ASSUME NEW u, UnitOK(u), NEW bits
  PROVE  /\ UnitOK(Raise(u, bits))
         /\ Raise(u, bits).raw = u.raw /\ Raise(u, bits).mac = u.mac
         /\ Raise(u, bits).flag = FlagWord(u.flag \cup bits)
<1> DEFINE f == FlagWord(u.flag \cup bits)
<1>1. f \in SUBSET (12 .. 31) /\ FlagWord(f) = f
  BY FlagWordFacts
<1>2. Raise(u, bits) = [u EXCEPT !.flag = f]
  BY Zenon DEF Raise
<1>3. u \in Units
  BY DEF UnitOK
<1> HIDE DEF f
<1>4. /\ [u EXCEPT !.flag = f] \in Units
      /\ [u EXCEPT !.flag = f].raw = u.raw /\ [u EXCEPT !.flag = f].mac = u.mac
      /\ [u EXCEPT !.flag = f].flag = f
  BY <1>1, <1>3, SMT DEF Units
<1> QED  BY <1>1, <1>2, <1>4, Zenon DEF UnitOK, f

LEMMA RaiseOK == ASSUME NEW u, UnitOK(u), NEW bits PROVE UnitOK(Raise(u, bits))
BY RaiseIs

LEMMA SetMacOK ==
  ASSUME NEW u, UnitOK(u), NEW i \in 0 .. 3, NEW y \in Numbers(Bits(i))
  PROVE  LET v == SetMac(u, i, y) IN
         /\ UnitOK(v) /\ v.flag = u.flag
         /\ v.mac[i] = y /\ v.raw[24 + i] = Low(y, Word)
         /\ \A j \in 0 .. 3 : j # i => v.mac[j] = u.mac[j]
         /\ \A j \in 0 .. 62 : j # 24 + i => v.raw[j] = u.raw[j]
<1> DEFINE x == Low(y, Word)
           v == [u EXCEPT !.raw[24 + i] = x, !.mac[i] = y]
<1>1. y \in Int /\ u \in Units /\ 24 + i \in 0 .. 62
  BY BitsAre, HalfPower, SMT DEF Numbers, UnitOK
<1>2. x \in Words
  BY <1>1, LowRange, Widths DEF Words
<1>3. SetMac(u, i, y) = v
  BY Zenon DEF SetMac
<1> HIDE DEF x
<1>4. /\ v \in Units /\ v.flag = u.flag
      /\ v.mac = [u.mac EXCEPT ![i] = y] /\ v.raw = [u.raw EXCEPT ![24 + i] = x]
  <2>1. v = [[u EXCEPT !.raw = [u.raw EXCEPT ![24 + i] = x]] EXCEPT !.mac = [u.mac EXCEPT ![i] = y]]
    BY <1>1, SMT DEF Units
  <2> DEFINE r == [u.raw EXCEPT ![24 + i] = x]
             m == [u.mac EXCEPT ![i] = y]
             w == [u EXCEPT !.raw = r]
  <2>2. r \in [0 .. 62 -> Words] /\ m \in [0 .. 3 -> Int]
    BY <1>1, <1>2, SMT DEF Units
  <2> HIDE DEF r, m
  <2>3. w \in Units /\ w.raw = r /\ w.flag = u.flag
    BY <1>1, <2>2, SMT DEF Units
  <2>4. /\ [w EXCEPT !.mac = m] \in Units /\ [w EXCEPT !.mac = m].raw = w.raw
        /\ [w EXCEPT !.mac = m].mac = m /\ [w EXCEPT !.mac = m].flag = w.flag
    <3> HIDE DEF w
    <3> QED  BY <2>2, <2>3, SMT DEF Units
  <2> QED  BY <2>1, <2>3, <2>4, Zenon DEF r, m
<1> HIDE DEF v
<1>5. /\ v.mac[i] = y /\ v.raw[24 + i] = x
      /\ \A j \in 0 .. 3 : j # i => v.mac[j] = u.mac[j]
      /\ \A j \in 0 .. 62 : j # 24 + i => v.raw[j] = u.raw[j]
  BY <1>1, <1>4, SMT DEF Units
<1>6. \A j \in 0 .. 62 : RegOK(j, v.raw[j])
  <2>1. RegOK(24 + i, x)
    <3>1. 24 + i \notin Signed16 /\ 24 + i \notin Unsigned16
      BY SMT DEF Signed16, Unsigned16
    <3> QED  BY <1>2, <3>1 DEF RegOK
  <2> QED  BY <1>5, <2>1, Zenon DEF UnitOK
<1>7. \A j \in 0 .. 3 : MacOK(j, v.mac[j], v.raw[24 + j])
  <2>1. MacOK(i, y, x)
    BY DEF MacOK, x
  <2>2. \A j \in 0 .. 3 : j # i => 24 + j # 24 + i /\ 24 + j \in 0 .. 62
    BY SMT
  <2> QED  BY <1>5, <2>1, <2>2, Zenon DEF UnitOK
<1>8. UnitOK(v)
  BY <1>4, <1>6, <1>7, Zenon DEF UnitOK
<1> QED  BY <1>3, <1>4, <1>5, <1>8, Zenon DEF x
(* An accumulator and its register, and what the flags then hold.          *)
LEMMA CutRange ==
  ASSUME NEW i \in 0 .. 3, NEW x \in Int, NEW sf \in {0, 1}
  PROVE  Sar(Cut(i, x), sf * Shift) \in Numbers(Bits(i))
<1>1. Cut(i, x) = Signed(x, Bits(i))
  BY Zenon DEF Cut, Bits
<1>2. Cut(i, x) \in Numbers(Bits(i))
  BY <1>1, BitsAre, SignedRange, Zenon
<1>3. sf * Shift \in Nat
  BY Widths, SMT
<1> QED  BY <1>2, <1>3, BitsAre, SarRange, Zenon

(* One accumulator is written: cut to its width, which FLAG says, and      *)
(* shifted.                                                                *)
Accumulated(u, v, i, x, sf) ==
  /\ UnitOK(v)
  /\ v.flag = FlagWord(u.flag \cup Overflow(i, x))
  /\ v.mac[i] = Sar(Cut(i, x), sf * Shift)
  /\ \A j \in 0 .. 3 : j # i => v.mac[j] = u.mac[j]
  /\ \A j \in 0 .. 62 : j # 24 + i => v.raw[j] = u.raw[j]

LEMMA WriteMacIs ==
  ASSUME NEW u, UnitOK(u), NEW i \in 0 .. 3, NEW x \in Int, NEW sf \in {0, 1}
  PROVE  Accumulated(u, WriteMac(u, i, x, sf), i, x, sf)
<1> DEFINE y == Sar(Cut(i, x), sf * Shift)
           r == Raise(u, Overflow(i, x))
<1>1. y \in Numbers(Bits(i))
  BY CutRange
<1>2. /\ UnitOK(r) /\ r.raw = u.raw /\ r.mac = u.mac
      /\ r.flag = FlagWord(u.flag \cup Overflow(i, x))
  BY RaiseIs
<1>3. WriteMac(u, i, x, sf) = SetMac(r, i, y)
  BY Zenon DEF WriteMac
<1> HIDE DEF y, r
<1>4. LET v == SetMac(r, i, y) IN
         /\ UnitOK(v) /\ v.flag = r.flag
         /\ v.mac[i] = y /\ v.raw[24 + i] = Low(y, Word)
         /\ \A j \in 0 .. 3 : j # i => v.mac[j] = r.mac[j]
         /\ \A j \in 0 .. 62 : j # 24 + i => v.raw[j] = r.raw[j]
  BY <1>1, <1>2, SetMacOK
<1>5. Accumulated(u, SetMac(r, i, y), i, x, sf)
  BY <1>2, <1>4, Zenon DEF Accumulated, y
<1> QED  BY <1>3, <1>5, Zenon

LEMMA WriteMacOK ==
  ASSUME NEW u, UnitOK(u), NEW i \in 0 .. 3, NEW x \in Int, NEW sf \in {0, 1}
  PROVE  LET v == WriteMac(u, i, x, sf) IN
         /\ UnitOK(v)
         /\ v.flag = FlagWord(u.flag \cup Overflow(i, x))
         /\ v.mac[i] = Sar(Cut(i, x), sf * Shift)
         /\ \A j \in 0 .. 3 : j # i => v.mac[j] = u.mac[j]
         /\ \A j \in 0 .. 62 : j # 24 + i => v.raw[j] = u.raw[j]
BY WriteMacIs, Zenon DEF Accumulated

LEMMA WriteMacsOK ==
  ASSUME NEW u, UnitOK(u), NEW x, x[1] \in Int, x[2] \in Int, x[3] \in Int, NEW sf \in {0, 1}
  PROVE  UnitOK(WriteMacs(u, x, sf))
<1>1. 1 \in 0 .. 3 /\ 2 \in 0 .. 3 /\ 3 \in 0 .. 3
  BY SMT
<1>2. UnitOK(WriteMac(u, 1, x[1], sf))
  BY <1>1, WriteMacOK, Zenon
<1>3. UnitOK(WriteMac(WriteMac(u, 1, x[1], sf), 2, x[2], sf))
  BY <1>1, <1>2, WriteMacOK, Zenon
<1>4. UnitOK(WriteMac(WriteMac(WriteMac(u, 1, x[1], sf), 2, x[2], sf), 3, x[3], sf))
  BY <1>1, <1>3, WriteMacOK, Zenon
<1> QED  BY <1>4, Zenon DEF WriteMacs

(* The vector IR.                                                          *)
LEMMA Limits ==
  /\ Most \in Numbers(Half) /\ Most \in Int
  /\ \A lm \in {0, 1} : /\ Least(lm) \in Int /\ Least(lm) <= Most
                        /\ Least(lm) .. Most \subseteq Numbers(Half)
BY Powers, SMT DEF Most, Least, Numbers

LEMMA SetIROK ==
  ASSUME NEW u, UnitOK(u), NEW i \in 0 .. 3, NEW x \in Numbers(Half)
  PROVE  /\ UnitOK(SetIR(u, i, x))
         /\ SetIR(u, i, x).raw[8 + i] = Low(x, Word)
         /\ \A j \in 0 .. 62 : j # 8 + i => SetIR(u, i, x).raw[j] = u.raw[j]
         /\ SetIR(u, i, x).mac = u.mac /\ SetIR(u, i, x).flag = u.flag
<1>1. 8 + i \in 0 .. 62 /\ 8 + i \notin 24 .. 27 /\ 8 + i \notin Unsigned16
  BY SMT DEF Unsigned16
<1>2. RegOK(8 + i, Low(x, Word))
  BY <1>1, Extended, Zenon DEF RegOK
<1>3. SetIR(u, i, x) = Put(u, 8 + i, Low(x, Word))
  BY Zenon DEF SetIR, Put
<1>4. UnitOK(Put(u, 8 + i, Low(x, Word)))
  BY <1>1, <1>2, PutOK, Zenon
<1>5. u \in Units /\ Low(x, Word) \in Words
  BY <1>2 DEF UnitOK, RegOK
<1> DEFINE k == 8 + i
           y == Low(x, Word)
<1> HIDE DEF k, y
<1>6. k \in 0 .. 62 /\ y \in Words /\ u \in Units
  BY <1>1, <1>5 DEF k, y
<1>7. /\ Put(u, k, y).raw[k] = y
      /\ \A j \in 0 .. 62 : j # k => Put(u, k, y).raw[j] = u.raw[j]
      /\ Put(u, k, y).mac = u.mac /\ Put(u, k, y).flag = u.flag
  BY <1>6, SMT DEF Put, Units
<1> QED  BY <1>3, <1>4, <1>7, Zenon DEF k, y

LEMMA RegType ==
  ASSUME NEW u, UnitOK(u), NEW i \in 0 .. 62
  PROVE  /\ u.raw[i] \in Words /\ u.raw[i] \in Int
         /\ Signed(u.raw[i], Word) \in Numbers(Word) /\ Signed(u.raw[i], Word) \in Int
         /\ Signed(u.raw[i], Half) \in Numbers(Half) /\ Signed(u.raw[i], Half) \in Int
<1>1. u.raw[i] \in Words
  BY Zenon DEF UnitOK, RegOK
<1>2. u.raw[i] \in Int
  BY <1>1, SMT DEF Words
<1>3. Half > 0
  BY Widths, SMT
<1> QED  BY <1>1, <1>2, <1>3, Widths, SignedRange

(* One IR is written: the limited accumulator, and FLAG says if it was.    *)
Written(u, v, i, m, lm) ==
  /\ UnitOK(v) /\ v.mac = u.mac /\ v.raw[8 + i] = Low(Clamp(m, Least(lm), Most), Word)
  /\ \A j \in 0 .. 62 : j # 8 + i => v.raw[j] = u.raw[j]
  /\ v.flag = FlagWord(u.flag \cup Lim(m, Least(lm), Most, 25 - i))

LEMMA MacIntoIR1Writes ==
  ASSUME NEW u, UnitOK(u), NEW i \in 1 .. 3, NEW lm \in {0, 1}
  PROVE  Written(u, MacIntoIR1(u, i, lm), i, Signed(u.raw[24 + i], Word), lm)
<1> DEFINE m == Signed(u.raw[24 + i], Word)
           c == Clamp(m, Least(lm), Most)
           r == Raise(u, Lim(m, Least(lm), Most, 25 - i))
<1>1. 24 + i \in 0 .. 62 /\ i \in 0 .. 3
  BY SMT
<1>2. m \in Int
  BY <1>1, RegType
<1> HIDE DEF m
<1>3. c \in Numbers(Half)
  BY <1>2, ClampRange, Limits
<1>4. /\ UnitOK(r) /\ r.raw = u.raw /\ r.mac = u.mac
      /\ r.flag = FlagWord(u.flag \cup Lim(m, Least(lm), Most, 25 - i))
  BY RaiseIs
<1>5. MacIntoIR1(u, i, lm) = SetIR(r, i, c)
  BY Zenon DEF MacIntoIR1, m
<1> HIDE DEF c, r
<1>6. /\ UnitOK(SetIR(r, i, c))
      /\ SetIR(r, i, c).raw[8 + i] = Low(c, Word)
      /\ \A j \in 0 .. 62 : j # 8 + i => SetIR(r, i, c).raw[j] = r.raw[j]
      /\ SetIR(r, i, c).mac = r.mac /\ SetIR(r, i, c).flag = r.flag
  BY <1>1, <1>3, <1>4, SetIROK, Zenon
<1>7. Written(u, SetIR(r, i, c), i, m, lm)
  BY <1>4, <1>6, Zenon DEF Written, c
<1> QED  BY <1>5, <1>7, Zenon DEF m

LEMMA MacIntoIR1OK ==
  ASSUME NEW u, UnitOK(u), NEW i \in 1 .. 3, NEW lm \in {0, 1}
  PROVE  LET v == MacIntoIR1(u, i, lm)
             m == Signed(u.raw[24 + i], Word)
         IN  /\ UnitOK(v) /\ v.mac = u.mac
             /\ v.raw[8 + i] = Low(Clamp(m, Least(lm), Most), Word)
             /\ \A j \in 0 .. 62 : j # 8 + i => v.raw[j] = u.raw[j]
             /\ v.flag = FlagWord(u.flag \cup Lim(m, Least(lm), Most, 25 - i))
<1> DEFINE v == MacIntoIR1(u, i, lm)
           m == Signed(u.raw[24 + i], Word)
<1>1. Written(u, v, i, m, lm)
  BY MacIntoIR1Writes, Zenon
<1> HIDE DEF v, m
<1>2. /\ UnitOK(v) /\ v.mac = u.mac
      /\ v.raw[8 + i] = Low(Clamp(m, Least(lm), Most), Word)
      /\ \A j \in 0 .. 62 : j # 8 + i => v.raw[j] = u.raw[j]
      /\ v.flag = FlagWord(u.flag \cup Lim(m, Least(lm), Most, 25 - i))
  BY <1>1, Zenon DEF Written
<1> QED  BY <1>2, Zenon DEF v, m

LEMMA MacIntoIROK ==
  ASSUME NEW u, UnitOK(u), NEW lm \in {0, 1}
  PROVE  UnitOK(MacIntoIR(u, lm))
<1>1. 1 \in 1 .. 3 /\ 2 \in 1 .. 3 /\ 3 \in 1 .. 3
  BY SMT
<1>2. UnitOK(MacIntoIR1(u, 1, lm))
  BY <1>1, MacIntoIR1OK, Zenon
<1>3. UnitOK(MacIntoIR1(MacIntoIR1(u, 1, lm), 2, lm))
  BY <1>1, <1>2, MacIntoIR1OK, Zenon
<1>4. UnitOK(MacIntoIR1(MacIntoIR1(MacIntoIR1(u, 1, lm), 2, lm), 3, lm))
  BY <1>1, <1>3, MacIntoIR1OK, Zenon
<1> QED  BY <1>4, Zenon DEF MacIntoIR
-----------------------------------------------------------------------------
(* The kinds of registers.                                                 *)
LEMMA PlainOK ==
  ASSUME NEW i \in 0 .. 62, i \notin Signed16, i \notin Unsigned16, NEW x \in Words
  PROVE  RegOK(i, x)
BY DEF RegOK

LEMMA UnsignedOK ==
  ASSUME NEW i \in Unsigned16, NEW x \in 0 .. 2^Half - 1
  PROVE  RegOK(i, x)
<1>1. i \notin Signed16
  BY SMT DEF Signed16, Unsigned16
<1>2. x \in Words /\ x < 2^Half
  <2>1. \A H \in Nat, W \in Nat : H > 0 /\ W = H * H /\ x \in 0 .. H - 1 => x \in 0 .. W - 1 /\ x < H
    BY SMT
  <2> QED  BY <2>1, Powers, Zenon DEF Words
<1> QED  BY <1>1, <1>2 DEF RegOK

LEMMA SignedOK ==
  ASSUME NEW i \in Signed16, NEW x \in Numbers(Half)
  PROVE  RegOK(i, Low(x, Word))
<1>1. i \notin Unsigned16
  BY SMT DEF Signed16, Unsigned16
<1> QED  BY <1>1, Extended, Zenon DEF RegOK

(* Two numbers packed side by side.                                        *)
LEMMA Pack ==
  ASSUME NEW m \in Nat, NEW n \in Nat, NEW a \in 0 .. m - 1, NEW b \in 0 .. n - 1
  PROVE  a + b * m \in 0 .. m * n - 1
<1>1. a \in Nat /\ b \in Nat /\ a < m /\ b <= n - 1
  BY SMT
<1>2. b * m <= (n - 1) * m
  BY <1>1, SMT
<1>3. b * m >= 0
  BY <1>1, SMT
<1>4. (n - 1) * m = m * n - m
  BY SMT
<1> QED  BY <1>1, <1>2, <1>3, <1>4, SMT

LEMMA ColorPowers ==
  /\ 2^(2 * Color) = 2^Color * 2^Color
  /\ 2^(3 * Color) = (2^Color * 2^Color) * 2^Color
  /\ 2^Word = ((2^Color * 2^Color) * 2^Color) * 2^Color
<1>1. /\ 2 * Color = Color + Color /\ 3 * Color = (Color + Color) + Color
      /\ Word = ((Color + Color) + Color) + Color
      /\ Color + Color \in Nat /\ (Color + Color) + Color \in Nat /\ Color \in Nat
  BY Widths, SMT
<1>2. 2^(Color + Color) = 2^Color * 2^Color
  BY <1>1, PowerSum, Zenon
<1>3. 2^((Color + Color) + Color) = 2^(Color + Color) * 2^Color
  BY <1>1, PowerSum, Zenon
<1>4. 2^(((Color + Color) + Color) + Color) = 2^((Color + Color) + Color) * 2^Color
  BY <1>1, PowerSum, Zenon
<1> QED  BY <1>1, <1>2, <1>3, <1>4, Zenon

(* The quotient of a word by all but its highest bits.                     *)
LEMMA HighPart ==
  ASSUME NEW m \in Nat, NEW n \in Nat, m > 0, NEW x \in 0 .. m * n - 1
  PROVE  x \div m \in 0 .. n - 1
<1> DEFINE q == x \div m
<1>1. m * n \in Int
  BY SMT
<1>2. x \in Int /\ 0 <= x /\ x < m * n
  BY <1>1, SMT
<1>3. q \in Int /\ x % m \in 0 .. m - 1 /\ x = m * q + (x % m)
  BY <1>2, Division
<1> DEFINE r == x % m
<1>4. r \in 0 .. m - 1 /\ x = m * q + r
  BY <1>3
<1> HIDE DEF q, r
<1>5. q >= 0
  <2> SUFFICES ASSUME q <= -1 PROVE FALSE
    BY <1>3, SMT
  <2>1. m * q <= m * (-1)
    BY <1>3, SMT
  <2> QED  BY <1>2, <1>3, <1>4, <2>1, SMT
<1>6. q < n
  <2> SUFFICES ASSUME q >= n PROVE FALSE
    BY <1>3, SMT
  <2>1. m * q >= m * n
    BY <1>3, SMT
  <2>2. m * q <= x
    BY <1>3, <1>4, SMT
  <2> QED  BY <1>1, <1>2, <1>3, <2>1, <2>2, SMT
<1>7. q \in 0 .. n - 1
  BY <1>3, <1>5, <1>6, SMT
<1> QED  BY <1>7 DEF q

LEMMA PushColorOK ==
  ASSUME NEW u, UnitOK(u)
  PROVE  UnitOK(PushColor(u))
<1> DEFINE C == 2^Color
           m == [k \in 1 .. 3 |-> Sar(Signed(u.raw[24 + k], Word), ColorShift)]
           c == [k \in 1 .. 3 |-> Clamp(m[k], 0, C - 1)]
           code == u.raw[6] \div 2^(3 * Color)
           x == c[1] + c[2] * C + c[3] * 2^(2 * Color) + code * 2^(3 * Color)
           v == [u EXCEPT !.raw[20] = u.raw[21], !.raw[21] = u.raw[22], !.raw[22] = x]
<1>1. C \in Nat /\ C > 0 /\ 0 <= C - 1 /\ 0 \in Int /\ C - 1 \in Int
  <2>1. C \in Nat /\ C > 0
    BY Powers
  <2> QED  BY <2>1, SMT
<1>2. \A k \in 1 .. 3 : m[k] \in Int
  <2>1. \A k \in 1 .. 3 : 24 + k \in 0 .. 62
    BY SMT
  <2>2. ColorShift \in Nat
    BY Widths, SMT DEF ColorShift
  <2> QED  BY <2>1, <2>2, RegType, SarType
<1>3. c[1] \in 0 .. C - 1 /\ c[2] \in 0 .. C - 1 /\ c[3] \in 0 .. C - 1
  <2>1. \A k \in 1 .. 3 : c[k] = Clamp(m[k], 0, C - 1)
    OBVIOUS
  <2> HIDE DEF m, c, C
  <2>2. ASSUME NEW k \in 1 .. 3 PROVE c[k] \in 0 .. C - 1
    BY <1>1, <1>2, <2>1, ClampRange
  <2> QED  BY <2>2, SMT
<1>4. code \in 0 .. C - 1
  <2> DEFINE D == 2^(3 * Color)
  <2>1. D \in Nat /\ D > 0 /\ 2^Word = D * C
    <3>1. 3 * Color \in Nat
      BY Widths, SMT
    <3> QED  BY <3>1, PowerType, ColorPowers, Zenon
  <2>2. u.raw[6] \in 0 .. D * C - 1
    <3>1. 6 \in 0 .. 62
      BY SMT
    <3>2. u.raw[6] \in 0 .. 2^Word - 1
      BY <3>1, RegType DEF Words
    <3> QED  BY <2>1, <3>2, Zenon
  <2> HIDE DEF C, D
  <2>3. u.raw[6] \div D \in 0 .. C - 1
    BY <1>1, <2>1, <2>2, HighPart, Zenon
  <2> QED  BY <2>3 DEF D
<1>5. x \in Words
  <2>1. c[1] + c[2] * C \in 0 .. C * C - 1
    <3> HIDE DEF c, C
    <3> QED  BY <1>1, <1>3, Pack, Zenon
  <2>2. C * C \in Nat /\ (C * C) * C \in Nat
    BY <1>1, SMT
  <2>3. (c[1] + c[2] * C) + c[3] * (C * C) \in 0 .. (C * C) * C - 1
    <3> HIDE DEF c, C
    <3> QED  BY <1>1, <1>3, <2>1, <2>2, Pack, Zenon
  <2>4. (c[1] + c[2] * C + c[3] * (C * C)) + code * ((C * C) * C) \in 0 .. ((C * C) * C) * C - 1
    <3> HIDE DEF c, C, code
    <3> QED  BY <1>1, <1>4, <2>2, <2>3, Pack, Zenon
  <2> QED  BY <2>4, ColorPowers, Zenon DEF Words
<1> HIDE DEF x
<1>6. UnitOK(v)
  <2>1. \A i \in 20 .. 22 : i \in 0 .. 62 /\ i \notin 24 .. 27 /\ i \notin Signed16 /\ i \notin Unsigned16
    BY SMT DEF Signed16, Unsigned16
  <2>2. \A i \in 20 .. 22 : \A y \in Words : RegOK(i, y)
    BY <2>1, PlainOK, Zenon
  <2>3. 20 \in 20 .. 22 /\ 21 \in 20 .. 22 /\ 22 \in 20 .. 22
    BY SMT
  <2>4. u.raw[21] \in Words /\ u.raw[22] \in Words /\ u \in Units
    BY <2>1, <2>3, RegType, Zenon DEF UnitOK
  <2>5. UnitOK(Put(u, 20, u.raw[21]))
    BY <2>1, <2>2, <2>3, <2>4, PutOK, Zenon
  <2>6. UnitOK(Put(Put(u, 20, u.raw[21]), 21, u.raw[22]))
    BY <2>1, <2>2, <2>3, <2>4, <2>5, PutOK, Zenon
  <2>7. UnitOK(Put(Put(Put(u, 20, u.raw[21]), 21, u.raw[22]), 22, x))
    BY <1>5, <2>1, <2>2, <2>3, <2>6, PutOK, Zenon
  <2>8. v = Put(Put(Put(u, 20, u.raw[21]), 21, u.raw[22]), 22, x)
    BY <2>4, SMT DEF Put, Units
  <2> QED  BY <2>7, <2>8, Zenon
<1>7. PushColor(u) = Raise(v, UNION {Lim(m[k], 0, C - 1, 22 - k) : k \in 1 .. 3})
  BY Zenon DEF PushColor, x
<1> QED  BY <1>6, <1>7, RaiseOK, Zenon

LEMMA PushZOK ==
  ASSUME NEW u, UnitOK(u), NEW z \in Int
  PROVE  UnitOK(PushZ(u, z))
<1> DEFINE c == Clamp(z, 0, 2^Half - 1)
           v == [u EXCEPT !.raw[16] = u.raw[17], !.raw[17] = u.raw[18], !.raw[18] = u.raw[19],
                          !.raw[19] = c]
<1>1. c \in 0 .. 2^Half - 1
  <2>1. 0 \in Int /\ 2^Half - 1 \in Int /\ 0 <= 2^Half - 1
    BY Powers, SMT
  <2> QED  BY <2>1, ClampRange, Zenon
<1> HIDE DEF c
<1>2. \A i \in 16 .. 19 : i \in 0 .. 62 /\ i \notin 24 .. 27 /\ i \in Unsigned16
  BY SMT DEF Unsigned16
<1>3. \A i \in 16 .. 19 : \A y \in 0 .. 2^Half - 1 : RegOK(i, y)
  BY <1>2, UnsignedOK, Zenon
<1>4. u \in Units /\ \A i \in 16 .. 19 : u.raw[i] \in 0 .. 2^Half - 1
  <2>1. u \in Units /\ \A i \in 16 .. 19 : u.raw[i] \in 0 .. 2^Word - 1 /\ u.raw[i] < 2^Half
    BY <1>2, Zenon DEF UnitOK, RegOK, Words
  <2> QED  BY <2>1, Powers, SMT
<1>5. 16 \in 16 .. 19 /\ 17 \in 16 .. 19 /\ 18 \in 16 .. 19 /\ 19 \in 16 .. 19
  BY SMT
<1>6. UnitOK(Put(u, 16, u.raw[17]))
  BY <1>2, <1>3, <1>4, <1>5, PutOK, Zenon
<1>7. UnitOK(Put(Put(u, 16, u.raw[17]), 17, u.raw[18]))
  BY <1>2, <1>3, <1>4, <1>5, <1>6, PutOK, Zenon
<1>8. UnitOK(Put(Put(Put(u, 16, u.raw[17]), 17, u.raw[18]), 18, u.raw[19]))
  BY <1>2, <1>3, <1>4, <1>5, <1>7, PutOK, Zenon
<1>9. UnitOK(Put(Put(Put(Put(u, 16, u.raw[17]), 17, u.raw[18]), 18, u.raw[19]), 19, c))
  BY <1>1, <1>2, <1>3, <1>5, <1>8, PutOK, Zenon
<1>10. v = Put(Put(Put(Put(u, 16, u.raw[17]), 17, u.raw[18]), 18, u.raw[19]), 19, c)
  BY <1>4, SMT DEF Put, Units
<1>11. PushZ(u, z) = Raise(v, Lim(z, 0, 2^Half - 1, 18))
  BY Zenon DEF PushZ, c
<1>12. UnitOK(v)
  BY <1>9, <1>10, Zenon
<1> HIDE DEF v
<1> QED  BY <1>11, <1>12, RaiseOK, Zenon
-----------------------------------------------------------------------------
(* A register of IR that follows its accumulator, up to the limits, and    *)
(* the flag that tells.  Flags only grow while a command is executed.      *)
LEMMA FlagGrows ==
  ASSUME NEW u, UnitOK(u), NEW bits
  PROVE  /\ u.flag \subseteq FlagWord(u.flag \cup bits)
         /\ bits \cap (12 .. 30) \subseteq FlagWord(u.flag \cup bits)
<1> DEFINE S == u.flag
<1>1. S = FlagWord(S) /\ S \subseteq 12 .. 31
  <2>1. u \in Units
    BY DEF UnitOK
  <2> QED  BY <2>1, SMT DEF UnitOK, Units
<1>2. \A n \in 12 .. 31 : n \in 12 .. 30 \/ n = 31
  BY SMT
<1>3. 31 \notin 12 .. 30
  BY SMT
<1> HIDE DEF S
<1>4. S \subseteq FlagWord(S \cup bits) /\ bits \cap (12 .. 30) \subseteq FlagWord(S \cup bits)
  BY <1>1, <1>2, <1>3 DEF FlagWord
<1> QED  BY <1>4 DEF S

LEMMA OneTwoThree == 1 \in 1 .. 3 /\ 2 \in 1 .. 3 /\ 3 \in 1 .. 3
BY SMT

SatReg(u, i, lm) ==
  LET mac == Signed(u.raw[24 + i], Word)
      ir == Signed(u.raw[8 + i], Half)
  IN  ir = Clamp(mac, Least(lm), Most) /\ (ir # mac => 25 - i \in u.flag)
SatOK(u, lm) == \A i \in 1 .. 3 : SatReg(u, i, lm)

LEMMA SatKept ==
  ASSUME NEW u, NEW v, NEW i \in 1 .. 3, NEW lm, SatReg(u, i, lm),
         v.raw[24 + i] = u.raw[24 + i], v.raw[8 + i] = u.raw[8 + i], u.flag \subseteq v.flag
  PROVE  SatReg(v, i, lm)
BY Zenon DEF SatReg

Limited(u, v, i, lm) ==
  /\ SatReg(v, i, lm) /\ u.flag \subseteq v.flag /\ v.mac = u.mac
  /\ \A j \in 0 .. 62 : j # 8 + i => v.raw[j] = u.raw[j]

LEMMA MacIntoIR1Sat ==
  ASSUME NEW u, UnitOK(u), NEW i \in 1 .. 3, NEW lm \in {0, 1}
  PROVE  Limited(u, MacIntoIR1(u, i, lm), i, lm)
<1> DEFINE v == MacIntoIR1(u, i, lm)
           m == Signed(u.raw[24 + i], Word)
           c == Clamp(m, Least(lm), Most)
           L == Lim(m, Least(lm), Most, 25 - i)
<1>1. /\ v.raw[8 + i] = Low(c, Word)
      /\ \A j \in 0 .. 62 : j # 8 + i => v.raw[j] = u.raw[j]
      /\ v.flag = FlagWord(u.flag \cup L) /\ v.mac = u.mac
  <2>1. Written(u, v, i, m, lm)
    BY MacIntoIR1Writes, Zenon
  <2> HIDE DEF v, m
  <2> QED  BY <2>1, Zenon DEF Written
<1>2. 24 + i \in 0 .. 62 /\ 24 + i # 8 + i /\ 25 - i \in 12 .. 30
  BY SMT
<1>3. c \in Numbers(Half)
  <2>1. m \in Int
    BY <1>2, RegType
  <2> HIDE DEF m
  <2> QED  BY <2>1, ClampRange, Limits
<1> HIDE DEF v
<1>4. v.raw[24 + i] = u.raw[24 + i]
  BY <1>1, <1>2, Zenon
<1>5. Signed(v.raw[8 + i], Half) = c
  BY <1>1, <1>3, Extended, Zenon
<1>6. u.flag \subseteq v.flag /\ L \cap (12 .. 30) \subseteq v.flag
  <2>1. /\ u.flag \subseteq FlagWord(u.flag \cup L)
        /\ L \cap (12 .. 30) \subseteq FlagWord(u.flag \cup L)
    BY FlagGrows
  <2> QED  BY <1>1, <2>1, Zenon
<1>7. c # m => 25 - i \in v.flag
  <2>1. c # m => L = {25 - i}
    BY Zenon DEF Lim
  <2> QED  BY <1>2, <1>6, <2>1
<1>8. SatReg(v, i, lm)
  BY <1>4, <1>5, <1>7, Zenon DEF SatReg
<1>9. Limited(u, v, i, lm)
  BY <1>1, <1>6, <1>8, Zenon DEF Limited
<1> QED  BY <1>9 DEF v

LEMMA MacIntoIRIs ==
  ASSUME NEW u, UnitOK(u), NEW lm \in {0, 1}
  PROVE  LET v == MacIntoIR(u, lm) IN
         /\ SatOK(v, lm) /\ u.flag \subseteq v.flag /\ v.mac = u.mac
         /\ \A j \in 0 .. 62 : j \notin {9, 10, 11} => v.raw[j] = u.raw[j]
<1> DEFINE v1 == MacIntoIR1(u, 1, lm)
           v2 == MacIntoIR1(v1, 2, lm)
           v3 == MacIntoIR1(v2, 3, lm)
<1>1. UnitOK(v1) /\ UnitOK(v2)
  <2>1. UnitOK(v1)
    BY OneTwoThree, MacIntoIR1OK
  <2> HIDE DEF v1
  <2> QED  BY <2>1, OneTwoThree, MacIntoIR1OK
<1>2. Limited(u, v1, 1, lm)
  BY OneTwoThree, MacIntoIR1Sat, Zenon
<1>3. Limited(v1, v2, 2, lm)
  BY <1>1, OneTwoThree, MacIntoIR1Sat, Zenon
<1>4. Limited(v2, v3, 3, lm)
  BY <1>1, OneTwoThree, MacIntoIR1Sat, Zenon
<1> HIDE DEF v1, v2, v3
<1>5. SatReg(v3, 1, lm)
  <2>1. v3.raw[24 + 1] = v1.raw[24 + 1] /\ v3.raw[8 + 1] = v1.raw[8 + 1]
    BY <1>3, <1>4, SMT DEF Limited
  <2>2. v1.flag \subseteq v3.flag /\ SatReg(v1, 1, lm)
    BY <1>2, <1>3, <1>4 DEF Limited
  <2> QED  BY <2>1, <2>2, OneTwoThree, SatKept, Zenon
<1>6. SatReg(v3, 2, lm)
  <2>1. v3.raw[24 + 2] = v2.raw[24 + 2] /\ v3.raw[8 + 2] = v2.raw[8 + 2]
    BY <1>4, SMT DEF Limited
  <2>2. v2.flag \subseteq v3.flag /\ SatReg(v2, 2, lm)
    BY <1>3, <1>4 DEF Limited
  <2> QED  BY <2>1, <2>2, OneTwoThree, SatKept, Zenon
<1>7. SatOK(v3, lm)
  <2>1. \A i \in 1 .. 3 : i = 1 \/ i = 2 \/ i = 3
    BY SMT
  <2>2. SatReg(v3, 3, lm)
    BY <1>4 DEF Limited
  <2> QED  BY <1>5, <1>6, <2>1, <2>2, Zenon DEF SatOK
<1>8. \A j \in 0 .. 62 : j \notin {9, 10, 11} => v3.raw[j] = u.raw[j]
  BY <1>2, <1>3, <1>4, SMT DEF Limited
<1>9. u.flag \subseteq v3.flag /\ v3.mac = u.mac
  BY <1>2, <1>3, <1>4 DEF Limited
<1>10. MacIntoIR(u, lm) = v3
  BY Zenon DEF MacIntoIR, v1, v2, v3
<1> QED  BY <1>7, <1>8, <1>9, <1>10, Zenon

LEMMA PushColorIs ==
  ASSUME NEW u, UnitOK(u)
  PROVE  LET v == PushColor(u) IN
         /\ u.flag \subseteq v.flag /\ v.mac = u.mac
         /\ \A j \in 0 .. 62 : j \notin 20 .. 22 => v.raw[j] = u.raw[j]
<1> DEFINE m == [k \in 1 .. 3 |-> Sar(Signed(u.raw[24 + k], Word), ColorShift)]
           c == [k \in 1 .. 3 |-> Clamp(m[k], 0, 2^Color - 1)]
           code == u.raw[6] \div 2^(3 * Color)
           x == c[1] + c[2] * 2^Color + c[3] * 2^(2 * Color) + code * 2^(3 * Color)
           bits == UNION {Lim(m[k], 0, 2^Color - 1, 22 - k) : k \in 1 .. 3}
           v == [u EXCEPT !.raw[20] = u.raw[21], !.raw[21] = u.raw[22], !.raw[22] = x]
<1>1. PushColor(u) = [v EXCEPT !.flag = FlagWord(v.flag \cup bits)]
  BY Zenon DEF PushColor, Raise
<1> HIDE DEF x, bits
<1>2. u \in Units
  BY DEF UnitOK
<1>3. /\ v.flag = u.flag /\ v.mac = u.mac
      /\ \A j \in 0 .. 62 : j \notin 20 .. 22 => v.raw[j] = u.raw[j]
      /\ DOMAIN v = {"raw", "mac", "flag"}
  BY <1>2, SMT DEF Units
<1> DEFINE f == FlagWord(v.flag \cup bits)
           w == [v EXCEPT !.flag = f]
<1> HIDE DEF f
<1>4. w.flag = f /\ w.mac = v.mac /\ w.raw = v.raw
  BY <1>2, SMT DEF Units
<1>5. u.flag \subseteq f
  BY <1>3, FlagGrows DEF f
<1>6. PushColor(u) = w
  BY <1>1 DEF f
<1> HIDE DEF v, w
<1> QED  BY <1>3, <1>4, <1>5, <1>6, Zenon

(* The unit after a command that ends with its results in IR.              *)
Done(u, lm) == UnitOK(u) /\ SatOK(u, lm)

LEMMA MacIntoIRDone ==
  ASSUME NEW u, UnitOK(u), NEW lm \in {0, 1}
  PROVE  Done(MacIntoIR(u, lm), lm)
<1>1. SatOK(MacIntoIR(u, lm), lm)
  BY MacIntoIRIs
<1> QED  BY <1>1, MacIntoIROK, Zenon DEF Done

LEMMA PushColorDone ==
  ASSUME NEW u, NEW lm, Done(u, lm)
  PROVE  Done(PushColor(u), lm)
<1> DEFINE v == PushColor(u)
<1>1. UnitOK(u) /\ SatOK(u, lm)
  BY DEF Done
<1>2. /\ u.flag \subseteq v.flag
      /\ \A j \in 0 .. 62 : j \notin 20 .. 22 => v.raw[j] = u.raw[j]
  BY <1>1, PushColorIs
<1>3. UnitOK(v)
  BY <1>1, PushColorOK
<1> HIDE DEF v
<1>4. ASSUME NEW i \in 1 .. 3 PROVE SatReg(v, i, lm)
  <2>1. 24 + i \in 0 .. 62 /\ 24 + i \notin 20 .. 22 /\ 8 + i \in 0 .. 62 /\ 8 + i \notin 20 .. 22
    BY SMT
  <2>2. v.raw[24 + i] = u.raw[24 + i] /\ v.raw[8 + i] = u.raw[8 + i]
    BY <1>2, <2>1, Zenon
  <2>3. SatReg(u, i, lm)
    BY <1>1 DEF SatOK
  <2> QED  BY <1>2, <2>2, <2>3, SatKept, Zenon
<1> QED  BY <1>3, <1>4, Zenon DEF Done, SatOK, v

LEMMA DoneOK == ASSUME NEW u, NEW lm, Done(u, lm) PROVE UnitOK(u)
BY DEF Done

-----------------------------------------------------------------------------
(* Reads and writes.                                                       *)
LEMMA SmallOK ==
  ASSUME NEW x \in 0 .. 2^(Half - 1) - 1
  PROVE  /\ x \in Numbers(Half) /\ Low(x, Word) = x
         /\ \A i \in Signed16 : RegOK(i, x)
<1>1. x \in Numbers(Half)
  BY Powers, SMT DEF Numbers
<1>2. Low(x, Word) = x
  <2>1. x \in 0 .. 2^Word - 1
    BY Powers, SMT
  <2> QED  BY <2>1, Widths, LowSame
<1> QED  BY <1>1, <1>2, SignedOK, Zenon

LEMMA PushSXYOK ==
  ASSUME NEW u, UnitOK(u), NEW x \in Words
  PROVE  UnitOK(PushSXY(u, x))
<1> DEFINE v == [u EXCEPT !.raw[12] = u.raw[13], !.raw[13] = u.raw[14], !.raw[14] = x]
<1>1. \A i \in 12 .. 14 : i \in 0 .. 62 /\ i \notin 24 .. 27 /\ i \notin Signed16 /\ i \notin Unsigned16
  BY SMT DEF Signed16, Unsigned16
<1>2. \A i \in 12 .. 14 : \A y \in Words : RegOK(i, y)
  BY <1>1, PlainOK, Zenon
<1>3. 12 \in 12 .. 14 /\ 13 \in 12 .. 14 /\ 14 \in 12 .. 14
  BY SMT
<1>4. u.raw[13] \in Words /\ u.raw[14] \in Words /\ u \in Units
  BY <1>1, <1>3, RegType, Zenon DEF UnitOK
<1>5. UnitOK(Put(u, 12, u.raw[13]))
  BY <1>1, <1>2, <1>3, <1>4, PutOK, Zenon
<1>6. UnitOK(Put(Put(u, 12, u.raw[13]), 13, u.raw[14]))
  BY <1>1, <1>2, <1>3, <1>4, <1>5, PutOK, Zenon
<1>7. UnitOK(Put(Put(Put(u, 12, u.raw[13]), 13, u.raw[14]), 14, x))
  BY <1>1, <1>2, <1>3, <1>6, PutOK, Zenon
<1>8. v = Put(Put(Put(u, 12, u.raw[13]), 13, u.raw[14]), 14, x)
  BY <1>4, SMT DEF Put, Units
<1> QED  BY <1>7, <1>8, Zenon DEF PushSXY

LEMMA SpreadIRGBOK ==
  ASSUME NEW u, UnitOK(u), NEW x \in Words
  PROVE  UnitOK(SpreadIRGB(u, x))
<1> DEFINE c(k) == Low(x \div 2^((k - 1) * Rgb), Rgb) * 2^(Shift - Rgb)
           l == Low(x, 3 * Rgb)
           v == [u EXCEPT !.raw[28] = l, !.raw[9] = c(1), !.raw[10] = c(2), !.raw[11] = c(3)]
<1>1. ASSUME NEW k \in 1 .. 3 PROVE c(k) \in 0 .. 2^(Half - 1) - 1
  <2> DEFINE m == 2^(Shift - Rgb)
             n == 2^Rgb
             b == Low(x \div 2^((k - 1) * Rgb), Rgb)
  <2>1. Shift - Rgb \in Nat /\ (Shift - Rgb) + Rgb = Shift /\ (k - 1) * Rgb \in Nat
    BY Widths, SMT
  <2>2. m \in Nat /\ n \in Nat /\ m * n = 2^Shift /\ m > 0
    BY <2>1, Widths, PowerSum, PowerType, Zenon
  <2>3. x \in Int
    BY SMT DEF Words
  <2>4. x \div 2^((k - 1) * Rgb) \in Int
    BY <2>1, <2>3, PowerType, Division, Zenon
  <2>5. b \in 0 .. n - 1
    BY <2>4, LowRange, Widths, Zenon
  <2>6. 0 \in 0 .. m - 1 /\ 0 + b * m = b * m
    <3> HIDE DEF m, b, n
    <3> QED  BY <2>2, <2>5, SMT
  <2>7. b * m \in 0 .. 2^Shift - 1
    <3> HIDE DEF m, b, n
    <3>1. 0 + b * m \in 0 .. m * n - 1
      BY <2>2, <2>5, <2>6, Pack, Zenon
    <3> QED  BY <2>2, <2>6, <3>1, Zenon
  <2> DEFINE y == b * m
  <2>8. y \in 0 .. 2^Shift - 1
    BY <2>7
  <2> HIDE DEF y
  <2>9. y \in 0 .. 2^(Half - 1) - 1
    BY <2>8, Powers, SMT
  <2> QED  BY <2>9 DEF y
<1>2. l \in 0 .. 2^Half - 1
  <2>1. 3 * Rgb \in Nat /\ 3 * Rgb <= Half /\ Half \in Nat /\ x \in Int
    BY Widths, SMT DEF Words
  <2>2. l \in 0 .. 2^(3 * Rgb) - 1
    BY <2>1, LowRange, Zenon
  <2>3. 2^(3 * Rgb) <= 2^Half /\ 2^(3 * Rgb) \in Nat /\ 2^Half \in Nat
    BY <2>1, PowerUp, PowerType, Zenon
  <2> HIDE DEF l
  <2> QED  BY <2>2, <2>3, SMT
<1>3. SpreadIRGB(u, x) = v
  BY Zenon DEF SpreadIRGB
<1> DEFINE a1 == c(1)
           a2 == c(2)
           a3 == c(3)
<1>4. RegOK(28, l) /\ RegOK(9, a1) /\ RegOK(10, a2) /\ RegOK(11, a3)
  <2>1. /\ 28 \in Unsigned16 /\ 9 \in Signed16 /\ 10 \in Signed16 /\ 11 \in Signed16
        /\ 1 \in 1 .. 3 /\ 2 \in 1 .. 3 /\ 3 \in 1 .. 3
    BY SMT DEF Signed16, Unsigned16
  <2>2. /\ a1 \in 0 .. 2^(Half - 1) - 1 /\ a2 \in 0 .. 2^(Half - 1) - 1
        /\ a3 \in 0 .. 2^(Half - 1) - 1
    BY <1>1, <2>1, Zenon
  <2> HIDE DEF a1, a2, a3, l
  <2> QED  BY <1>2, <2>1, <2>2, SmallOK, UnsignedOK, Zenon
<1>5. v = [u EXCEPT !.raw[28] = l, !.raw[9] = a1, !.raw[10] = a2, !.raw[11] = a3]
  OBVIOUS
<1> HIDE DEF a1, a2, a3, l, v
<1>6. u \in Units /\ l \in Words /\ a1 \in Words /\ a2 \in Words /\ a3 \in Words
  BY <1>4 DEF UnitOK, RegOK
<1>7. v = Put(Put(Put(Put(u, 28, l), 9, a1), 10, a2), 11, a3)
  BY <1>5, <1>6, SMT DEF Put, Units
<1>8. \A i \in {28, 9, 10, 11} : i \in 0 .. 62 /\ i \notin 24 .. 27
  BY SMT
<1>9. UnitOK(Put(u, 28, l))
  BY <1>4, <1>8, PutOK, Zenon
<1>10. UnitOK(Put(Put(u, 28, l), 9, a1))
  BY <1>4, <1>8, <1>9, PutOK, Zenon
<1>11. UnitOK(Put(Put(Put(u, 28, l), 9, a1), 10, a2))
  BY <1>4, <1>8, <1>10, PutOK, Zenon
<1>12. UnitOK(Put(Put(Put(Put(u, 28, l), 9, a1), 10, a2), 11, a3))
  BY <1>4, <1>8, <1>11, PutOK, Zenon
<1> QED  BY <1>3, <1>7, <1>12, Zenon

LEMMA WriteOK ==
  ASSUME NEW u, UnitOK(u), NEW i \in 0 .. 63, NEW x, i # 63 => x \in Words
  PROVE  UnitOK(Write(u, i, x))
<1>1. CASE i = 15
  <2>1. i # 28 /\ i \notin Unsigned16 /\ i \notin Signed16 /\ i \notin 24 .. 27 /\ i # 63
    BY <1>1, SMT DEF Signed16, Unsigned16
  <2>2. Write(u, i, x) = PushSXY(u, x)
    BY <1>1, <2>1, SMT DEF Write
  <2> QED  BY <2>1, <2>2, PushSXYOK, Zenon
<1>2. CASE i = 28
  <2>1. i # 15 /\ i \notin Signed16 /\ i \notin 24 .. 27 /\ i # 63
    BY <1>2, SMT DEF Signed16
  <2>2. Write(u, i, x) = SpreadIRGB(u, x)
    BY <1>2, <2>1, SMT DEF Write
  <2> QED  BY <2>1, <2>2, SpreadIRGBOK, Zenon
<1>3. CASE i \in Unsigned16 \ {28}
  <2>1. i \in 0 .. 62 /\ i \notin 24 .. 27 /\ i # 15 /\ i # 63 /\ i \notin Signed16
    BY <1>3, SMT DEF Unsigned16, Signed16
  <2>2. x \in Int
    BY <2>1, SMT DEF Words
  <2>3. RegOK(i, Low(x, Half))
    BY <1>3, <2>2, LowRange, Widths, UnsignedOK
  <2>4. Write(u, i, x) = Put(u, i, Low(x, Half))
    BY <1>3, <2>1, SMT DEF Write, Put
  <2> QED  BY <2>1, <2>3, <2>4, PutOK, Zenon
<1>4. CASE i \in Signed16
  <2>1. i \in 0 .. 62 /\ i \notin 24 .. 27 /\ i # 15 /\ i # 63 /\ i \notin Unsigned16 /\ i # 28
    BY <1>4, SMT DEF Signed16, Unsigned16
  <2>2. x \in Int
    BY <2>1, SMT DEF Words
  <2>3. Signed(x, Half) \in Numbers(Half)
    <3>1. Half > 0
      BY Widths, SMT
    <3> QED  BY <2>2, <3>1, SignedRange, Widths
  <2>4. RegOK(i, Low(Signed(x, Half), Word))
    BY <1>4, <2>3, SignedOK, Zenon
  <2>5. Write(u, i, x) = Put(u, i, Low(Signed(x, Half), Word))
    BY <1>4, <2>1, SMT DEF Write, Put
  <2> QED  BY <2>1, <2>4, <2>5, PutOK, Zenon
<1>5. CASE i \in 24 .. 27
  <2> DEFINE y == Signed(x, Word)
             j == i - 24
  <2>1. /\ j \in 0 .. 3 /\ i = 24 + j /\ i # 15 /\ i # 28 /\ i # 63
        /\ i \notin Unsigned16 /\ i \notin Signed16
    BY <1>5, SMT DEF Signed16, Unsigned16
  <2>2. x \in Words /\ x \in Int
    BY <2>1, SMT DEF Words
  <2>3. y \in Numbers(Word) /\ Low(y, Word) = x
    BY <2>2, SignedRange, LowOfSigned, LowSame, Widths DEF Words
  <2>4. y \in Numbers(Bits(j))
    <3>1. /\ Bits(j) \in Nat /\ Bits(j) > 0 /\ Word - 1 <= Bits(j) - 1
          /\ Word - 1 \in Nat /\ Bits(j) - 1 \in Nat
      BY <2>1, BitsAre, Widths, SMT
    <3>2. /\ 2^(Word - 1) <= 2^(Bits(j) - 1) /\ 2^(Word - 1) \in Nat /\ 2^(Bits(j) - 1) \in Nat
      BY <3>1, PowerUp, PowerType, Zenon
    <3> HIDE DEF y, j
    <3> QED  BY <2>3, <3>2, SMT DEF Numbers
  <2>5. Write(u, i, x) = [u EXCEPT !.raw[i] = x, !.mac[j] = y]
    BY <1>5, <2>1, SMT DEF Write
  <2>6. Write(u, i, x) = SetMac(u, j, y)
    BY <2>1, <2>3, <2>5, Zenon DEF SetMac
  <2> QED  BY <2>1, <2>4, <2>6, SetMacOK
<1>6. CASE i = 63
  <2>1. Write(u, i, x) = [u EXCEPT !.flag = FlagWord(x)]
    BY <1>6, SMT DEF Write, Signed16, Unsigned16
  <2> DEFINE f == FlagWord(x)
  <2>2. f \in SUBSET (12 .. 31) /\ FlagWord(f) = f /\ u \in Units
    BY FlagWordFacts DEF UnitOK
  <2> HIDE DEF f
  <2>3. /\ [u EXCEPT !.flag = f] \in Units
        /\ [u EXCEPT !.flag = f].raw = u.raw /\ [u EXCEPT !.flag = f].mac = u.mac
        /\ [u EXCEPT !.flag = f].flag = f
    BY <2>2, SMT DEF Units
  <2>4. UnitOK([u EXCEPT !.flag = f])
    BY <2>2, <2>3, Zenon DEF UnitOK
  <2> QED  BY <2>1, <2>4, Zenon DEF f
<1>7. CASE i \notin {15, 28, 63} /\ i \notin Unsigned16 /\ i \notin Signed16 /\ i \notin 24 .. 27
  <2>1. i \in 0 .. 62 /\ x \in Words
    BY <1>7, SMT
  <2>2. Write(u, i, x) = Put(u, i, x)
    BY <1>7, SMT DEF Write, Put
  <2>3. RegOK(i, x)
    BY <1>7, <2>1, PlainOK, Zenon
  <2> QED  BY <1>7, <2>1, <2>2, <2>3, PutOK, Zenon
<1> QED  BY <1>1, <1>2, <1>3, <1>4, <1>5, <1>6, <1>7, Zenon
-----------------------------------------------------------------------------
(* The operands of the commands are numbers.                               *)
Vec(x) == x[1] \in Int /\ x[2] \in Int /\ x[3] \in Int
Mat(a) == Vec(a[1]) /\ Vec(a[2]) /\ Vec(a[3])

LEMMA ThreeIs ==
  ASSUME NEW x, NEW y, NEW z
  PROVE  Three(x, y, z)[1] = x /\ Three(x, y, z)[2] = y /\ Three(x, y, z)[3] = z
BY SMT DEF Three

LEMMA ThreeType ==
  ASSUME NEW x \in Int, NEW y \in Int, NEW z \in Int
  PROVE  Vec(Three(x, y, z))
BY SMT DEF Three, Vec

LEMMA VecAt == ASSUME NEW x, Vec(x), NEW i \in 1 .. 3 PROVE x[i] \in Int
<1>1. i = 1 \/ i = 2 \/ i = 3
  BY SMT
<1> QED  BY <1>1, Zenon DEF Vec

LEMMA HalvesType ==
  ASSUME NEW u, UnitOK(u), NEW i \in 0 .. 62
  PROVE  /\ Lo(u, i) \in Int /\ Hi(u, i) \in Int
         /\ Lo(u, i) \in Numbers(Half) /\ Hi(u, i) \in Numbers(Half)
<1>1. u.raw[i] \in Int /\ Half > 0 /\ Half \in Nat
  BY RegType, Widths, SMT
<1>2. u.raw[i] \div 2^Half \in Int
  BY <1>1, PowerType, Division, Zenon
<1>3. Signed(u.raw[i], Half) \in Int /\ Signed(u.raw[i], Half) \in Numbers(Half)
  BY <1>1, SignedRange, Zenon
<1>4. /\ Signed(u.raw[i] \div 2^Half, Half) \in Int
      /\ Signed(u.raw[i] \div 2^Half, Half) \in Numbers(Half)
  BY <1>1, <1>2, SignedRange, Zenon
<1> QED  BY <1>3, <1>4, Zenon DEF Lo, Hi

LEMMA IRType ==
  ASSUME NEW u, UnitOK(u)
  PROVE  Vec(IRs(u)) /\ IR0(u) \in Int
<1>1. 8 \in 0 .. 62 /\ \A i \in 1 .. 3 : 8 + i \in 0 .. 62
  BY SMT
<1>2. \A i \in 1 .. 3 : Signed(u.raw[8 + i], Half) \in Int
  BY <1>1, RegType
<1>3. Vec([i \in 1 .. 3 |-> Signed(u.raw[8 + i], Half)])
  BY <1>2, OneTwoThree, Zenon DEF Vec
<1> QED  BY <1>1, <1>3, RegType DEF IRs, IR0

LEMMA WordsType ==
  ASSUME NEW u, UnitOK(u), NEW base \in 0 .. 60
  PROVE  Vec(Words3(u, base))
<1>1. \A i \in 1 .. 3 : base + i - 1 \in 0 .. 62
  BY SMT
<1>2. \A i \in 1 .. 3 : Signed(u.raw[base + i - 1], Word) \in Int
  BY <1>1, RegType
<1>3. Vec([i \in 1 .. 3 |-> Signed(u.raw[base + i - 1], Word)])
  BY <1>2, OneTwoThree, Zenon DEF Vec
<1> QED  BY <1>3, Zenon DEF Words3

LEMMA RgbType ==
  ASSUME NEW u, UnitOK(u), NEW r \in 0 .. 62
  PROVE  Vec(Rgb8(u, r)) /\ \A i \in 1 .. 3 : Rgb8(u, r)[i] \in 0 .. 2^Color - 1
<1>1. ASSUME NEW i \in 1 .. 3 PROVE Low(u.raw[r] \div 2^((i - 1) * Color), Color) \in 0 .. 2^Color - 1
  <2>1. (i - 1) * Color \in Nat /\ u.raw[r] \in Int /\ Color \in Nat
    <3>1. Color \in Nat
      BY Widths
    <3> QED  BY <3>1, RegType, SMT
  <2>2. u.raw[r] \div 2^((i - 1) * Color) \in Int
    BY <2>1, PowerType, Division, Zenon
  <2> QED  BY <2>1, <2>2, LowRange, Zenon
<1>2. \A i \in 1 .. 3 : Rgb8(u, r)[i] \in 0 .. 2^Color - 1
  BY <1>1, Zenon DEF Rgb8
<1>3. \A i \in 1 .. 3 : Rgb8(u, r)[i] \in Int
  BY <1>2, Powers, SMT
<1>4. 1 \in 1 .. 3 /\ 2 \in 1 .. 3 /\ 3 \in 1 .. 3
  BY SMT
<1> QED  BY <1>2, <1>3, <1>4, Zenon DEF Vec

LEMMA MacType ==
  ASSUME NEW u, UnitOK(u)
  PROVE  Vec(u.mac) /\ \A i \in 0 .. 3 : u.mac[i] \in Int
<1>1. \A i \in 0 .. 3 : u.mac[i] \in Int
  BY SMT DEF UnitOK, Units
<1>2. 1 \in 0 .. 3 /\ 2 \in 0 .. 3 /\ 3 \in 0 .. 3
  BY SMT
<1> QED  BY <1>1, <1>2, Zenon DEF Vec

LEMMA ElemType ==
  ASSUME NEW u, UnitOK(u), NEW base \in 0 .. 58, NEW k \in 1 .. 9
  PROVE  Elem(u, base, k) \in Int /\ Elem(u, base, k) \in Numbers(Half)
<1>1. base + (k - 1) \div 2 \in 0 .. 62
  <2>1. k - 1 \in Int /\ 0 <= k - 1 /\ k - 1 <= 8
    BY SMT
  <2>2. (k - 1) \div 2 \in 0 .. 4
    BY <2>1, SMT
  <2> QED  BY <2>2, SMT
<1> QED  BY <1>1, HalvesType, Zenon DEF Elem

LEMMA MatrixType ==
  ASSUME NEW u, UnitOK(u), NEW mx \in 0 .. 3
  PROVE  Mat(Matrix(u, mx))
<1>1. CASE mx = 3
  <2> DEFINE r == Rgb8(u, 6)[1] * 2^ColorShift
             row(k) == [j \in 1 .. 3 |-> Elem(u, 32, k)]
  <2>1. r \in Int /\ -r \in Int
    <3>1. 6 \in 0 .. 62 /\ ColorShift \in Nat
      BY Widths, SMT DEF ColorShift
    <3>2. Rgb8(u, 6)[1] \in Int /\ 2^ColorShift \in Nat
      BY <3>1, RgbType, PowerType, Zenon DEF Vec
    <3> QED  BY <3>2, SMT
  <2>2. Vec(Three(-r, r, IR0(u)))
    <3> HIDE DEF r
    <3> QED  BY <2>1, IRType, ThreeType, Zenon
  <2>3. 32 \in 0 .. 58 /\ 3 \in 1 .. 9 /\ 5 \in 1 .. 9
    BY SMT
  <2>4. Elem(u, 32, 3) \in Int /\ Elem(u, 32, 5) \in Int
    BY <2>3, ElemType, Zenon
  <2>5. Vec(row(3)) /\ Vec(row(5))
    BY <2>4, OneTwoThree, Zenon DEF Vec
  <2>6. Matrix(u, mx) = Three(Three(-r, r, IR0(u)), row(3), row(5))
    BY <1>1, Zenon DEF Matrix
  <2> DEFINE r1 == Three(-r, r, IR0(u))
             r2 == row(3)
             r3 == row(5)
  <2> HIDE DEF r1, r2, r3
  <2>7. Vec(r1) /\ Vec(r2) /\ Vec(r3) /\ Matrix(u, mx) = Three(r1, r2, r3)
    BY <2>2, <2>5, <2>6, Zenon DEF r1, r2, r3
  <2> QED  BY <2>7, ThreeIs DEF Mat
<1>2. CASE mx # 3
  <2> DEFINE row(i) == [j \in 1 .. 3 |-> Elem(u, 32 + 8 * mx, 3 * (i - 1) + j)]
  <2>1. 32 + 8 * mx \in 0 .. 58
    BY <1>2, SMT
  <2>2. ASSUME NEW i \in 1 .. 3 PROVE Vec(row(i))
    <3>1. \A j \in 1 .. 3 : 3 * (i - 1) + j \in 1 .. 9
      BY SMT
    <3>2. \A j \in 1 .. 3 : Elem(u, 32 + 8 * mx, 3 * (i - 1) + j) \in Int
      BY <2>1, <3>1, ElemType
    <3> QED  BY <3>2, OneTwoThree, Zenon DEF Vec
  <2>3. Matrix(u, mx) = [i \in 1 .. 3 |-> row(i)]
    BY <1>2, Zenon DEF Matrix
  <2>4. 1 \in 1 .. 3 /\ 2 \in 1 .. 3 /\ 3 \in 1 .. 3
    BY SMT
  <2> HIDE DEF row
  <2> QED  BY <2>2, <2>3, <2>4, Zenon DEF Mat
<1> QED  BY <1>1, <1>2

LEMMA VectorType ==
  ASSUME NEW u, UnitOK(u), NEW v \in 0 .. 3
  PROVE  Vec(Vector(u, v))
<1>1. CASE v = 3
  BY <1>1, IRType, Zenon DEF Vector
<1>2. CASE v # 3
  <2>1. 2 * v \in 0 .. 62 /\ 2 * v + 1 \in 0 .. 62
    BY <1>2, SMT
  <2>2. Lo(u, 2 * v) \in Int /\ Hi(u, 2 * v) \in Int /\ Lo(u, 2 * v + 1) \in Int
    BY <2>1, HalvesType, Zenon
  <2> QED  BY <1>2, <2>2, ThreeType, Zenon DEF Vector
<1> QED  BY <1>1, <1>2

LEMMA TranslationType ==
  ASSUME NEW u, UnitOK(u), NEW cv \in 0 .. 3
  PROVE  Vec(Translation(u, cv))
<1>1. CASE cv = 3
  <2>1. Vec([i \in 1 .. 3 |-> 0])
    BY SMT DEF Vec
  <2> QED  BY <1>1, <2>1, Zenon DEF Translation
<1>2. CASE cv # 3
  <2>1. 37 + 8 * cv \in 0 .. 60
    BY <1>2, SMT
  <2> QED  BY <1>2, <2>1, WordsType, Zenon DEF Translation
<1> QED  BY <1>1, <1>2

-----------------------------------------------------------------------------
(* The products.                                                           *)
LEMMA VecPlus ==
  ASSUME NEW x, Vec(x), NEW a, Mat(a), NEW b, Vec(b), NEW j \in 1 .. 3
  PROVE  Vec([i \in 1 .. 3 |-> x[i] + a[i][j] * b[j]])
<1>1. ASSUME NEW i \in 1 .. 3 PROVE x[i] + a[i][j] * b[j] \in Int
  <2>1. Vec(a[i])
    <3>1. i = 1 \/ i = 2 \/ i = 3
      BY SMT
    <3> QED  BY <3>1, Zenon DEF Mat
  <2>2. x[i] \in Int /\ a[i][j] \in Int /\ b[j] \in Int
    BY <2>1, VecAt, Zenon
  <2> QED  BY <2>2, SMT
<1> QED  BY <1>1, OneTwoThree, Zenon DEF Vec

LEMMA VecScaled ==
  ASSUME NEW x, Vec(x), NEW m \in Int
  PROVE  Vec([i \in 1 .. 3 |-> x[i] * m])
<1>1. ASSUME NEW i \in 1 .. 3 PROVE x[i] * m \in Int
  <2>1. x[i] \in Int
    BY VecAt
  <2> QED  BY <2>1, SMT
<1> QED  BY <1>1, OneTwoThree, Zenon DEF Vec

LEMMA AddColumnOK ==
  ASSUME NEW u, UnitOK(u), NEW a, Mat(a), NEW b, Vec(b), NEW j \in 1 .. 3, NEW sf \in {0, 1}
  PROVE  UnitOK(AddColumn(u, a, b, j, sf))
<1> DEFINE x == [i \in 1 .. 3 |-> u.mac[i] + a[i][j] * b[j]]
<1>1. Vec(x)
  BY MacType, VecPlus, Zenon
<1>2. AddColumn(u, a, b, j, sf) = WriteMacs(u, x, sf)
  BY Zenon DEF AddColumn
<1> HIDE DEF x
<1> QED  BY <1>1, <1>2, WriteMacsOK, Zenon DEF Vec

LEMMA SumOK ==
  ASSUME NEW u, UnitOK(u), NEW sf \in {0, 1}, NEW a, Mat(a), NEW b, Vec(b), NEW c, Vec(c), NEW cv
  PROVE  UnitOK(Sum(u, sf, a, b, c, cv))
<1> DEFINE first == [i \in 1 .. 3 |-> c[i] * 2^Shift + a[i][1] * b[1]]
           start == IF cv = 2 THEN Dropped(u, first, sf) ELSE WriteMacs(u, first, 0)
<1>1. 1 \in 1 .. 3 /\ 2 \in 1 .. 3 /\ 3 \in 1 .. 3 /\ 0 \in {0, 1}
  BY SMT
<1>2. Vec(first)
  <2> DEFINE y == [i \in 1 .. 3 |-> c[i] * 2^Shift]
  <2>1. Vec(y)
    <3>1. 2^Shift \in Int
      BY Powers, SMT
    <3> QED  BY <3>1, VecScaled, Zenon
  <2>2. Vec([i \in 1 .. 3 |-> y[i] + a[i][1] * b[1]])
    <3> HIDE DEF y
    <3> QED  BY <1>1, <2>1, VecPlus, Zenon
  <2>3. [i \in 1 .. 3 |-> y[i] + a[i][1] * b[1]] = first
    BY Zenon
  <2> QED  BY <2>2, <2>3, Zenon
<1>3. Sum(u, sf, a, b, c, cv) = AddColumn(AddColumn(start, a, b, 2, 0), a, b, 3, sf)
  BY Zenon DEF Sum
<1> HIDE DEF first
<1>4. UnitOK(WriteMacs(u, first, 0)) /\ UnitOK(WriteMacs(u, first, sf))
  BY <1>1, <1>2, WriteMacsOK, Zenon DEF Vec
<1>5. UnitOK(Dropped(u, first, sf))
  <2>1. UnitOK(MacIntoIR(WriteMacs(u, first, sf), 0))
    BY <1>1, <1>4, MacIntoIROK, Zenon
  <2>2. Vec(Three(0, 0, 0))
    <3>1. 0 \in Int
      BY SMT
    <3> QED  BY <3>1, ThreeType, Zenon
  <2> DEFINE t == Three(0, 0, 0)
             w == MacIntoIR(WriteMacs(u, first, sf), 0)
  <2> HIDE DEF t, w
  <2>3. UnitOK(WriteMacs(w, t, 0))
    BY <1>1, <2>1, <2>2, WriteMacsOK, Zenon DEF Vec, w, t
  <2> QED  BY <2>3, Zenon DEF Dropped, t, w
<1>6. UnitOK(start)
  BY <1>4, <1>5, Zenon
<1> HIDE DEF start
<1>7. UnitOK(AddColumn(start, a, b, 2, 0))
  BY <1>1, <1>6, AddColumnOK, Zenon
<1>8. UnitOK(AddColumn(AddColumn(start, a, b, 2, 0), a, b, 3, sf))
  BY <1>1, <1>7, AddColumnOK, Zenon
<1> QED  BY <1>3, <1>8, Zenon

LEMMA ProductsOK ==
  ASSUME NEW u, UnitOK(u), NEW sf \in {0, 1},
         NEW mx \in 0 .. 3, NEW v \in 0 .. 3, NEW cv \in 0 .. 3
  PROVE  UnitOK(Products(u, sf, mx, v, cv))
<1>1. Mat(Matrix(u, mx)) /\ Vec(Vector(u, v)) /\ Vec(Translation(u, cv))
  BY MatrixType, VectorType, TranslationType
<1> QED  BY <1>1, SumOK, Zenon DEF Products

LEMMA MvmvaOK ==
  ASSUME NEW u, UnitOK(u), NEW sf \in {0, 1}, NEW lm \in {0, 1},
         NEW mx \in 0 .. 3, NEW v \in 0 .. 3, NEW cv \in 0 .. 3
  PROVE  Done(Mvmva(u, sf, mx, v, cv, lm), lm)
<1>1. UnitOK(Products(u, sf, mx, v, cv))
  BY ProductsOK
<1> QED  BY <1>1, MacIntoIRDone, Zenon DEF Mvmva
-----------------------------------------------------------------------------
(* Steps that raise flags and leave the accumulators 1 to 3 alone.         *)
Onward(u, v) ==
  /\ UnitOK(v) /\ u.flag \subseteq v.flag
  /\ v.mac[1] = u.mac[1] /\ v.mac[2] = u.mac[2] /\ v.mac[3] = u.mac[3]

LEMMA OnwardSame ==
  ASSUME NEW u, NEW v, UnitOK(v), u.flag \subseteq v.flag, v.mac = u.mac
  PROVE  Onward(u, v)
BY Zenon DEF Onward

LEMMA OnwardTwice ==
  ASSUME NEW u, NEW v, NEW w, Onward(u, v), Onward(v, w)
  PROVE  Onward(u, w)
BY DEF Onward

LEMMA OnwardOK == ASSUME NEW u, NEW v, Onward(u, v) PROVE UnitOK(v)
BY DEF Onward

LEMMA OnwardSelf == ASSUME NEW u, UnitOK(u) PROVE Onward(u, u)
BY DEF Onward

LEMMA RaiseOn == ASSUME NEW u, UnitOK(u), NEW bits PROVE Onward(u, Raise(u, bits))
<1>1. UnitOK(Raise(u, bits))
  BY RaiseOK
<1>2. Raise(u, bits).mac = u.mac /\ Raise(u, bits).flag = FlagWord(u.flag \cup bits)
  BY RaiseIs
<1>3. u.flag \subseteq FlagWord(u.flag \cup bits)
  BY FlagGrows
<1>4. u.flag \subseteq Raise(u, bits).flag
  BY <1>2, <1>3, Zenon
<1> QED  BY <1>1, <1>2, <1>4, OnwardSame, Zenon

LEMMA SetIROn ==
  ASSUME NEW u, UnitOK(u), NEW i \in 0 .. 3, NEW x \in Numbers(Half)
  PROVE  Onward(u, SetIR(u, i, x))
<1>1. UnitOK(SetIR(u, i, x)) /\ SetIR(u, i, x).mac = u.mac /\ SetIR(u, i, x).flag = u.flag
  BY SetIROK
<1>2. u.flag \subseteq SetIR(u, i, x).flag
  BY <1>1
<1> QED  BY <1>1, <1>2, OnwardSame, Zenon

LEMMA MacIntoIR1On ==
  ASSUME NEW u, UnitOK(u), NEW i \in 1 .. 3, NEW lm \in {0, 1}
  PROVE  Onward(u, MacIntoIR1(u, i, lm))
<1>1. Limited(u, MacIntoIR1(u, i, lm), i, lm)
  BY MacIntoIR1Sat
<1>2. UnitOK(MacIntoIR1(u, i, lm))
  BY MacIntoIR1OK
<1> QED  BY <1>1, <1>2, OnwardSame DEF Limited

LEMMA PushZOn ==
  ASSUME NEW u, UnitOK(u), NEW z \in Int
  PROVE  Onward(u, PushZ(u, z))
<1> DEFINE c == Clamp(z, 0, 2^Half - 1)
           v == [u EXCEPT !.raw[16] = u.raw[17], !.raw[17] = u.raw[18], !.raw[18] = u.raw[19],
                          !.raw[19] = c]
           f == FlagWord(v.flag \cup Lim(z, 0, 2^Half - 1, 18))
           w == [v EXCEPT !.flag = f]
<1>1. u \in Units
  BY DEF UnitOK
<1>2. PushZ(u, z) = w
  BY Zenon DEF PushZ, Raise
<1> HIDE DEF c
<1>3. v.flag = u.flag /\ v.mac = u.mac /\ DOMAIN v = {"raw", "mac", "flag"}
  BY <1>1, SMT DEF Units
<1>4. u.flag \subseteq f
  BY <1>3, FlagGrows
<1> HIDE DEF f
<1>5. w.flag = f /\ w.mac = v.mac
  BY <1>1, SMT DEF Units
<1>6. UnitOK(w)
  BY <1>2, PushZOK, Zenon
<1> HIDE DEF w, v
<1>7. u.flag \subseteq w.flag /\ w.mac = u.mac
  BY <1>3, <1>4, <1>5
<1> QED  BY <1>2, <1>6, <1>7, OnwardSame, Zenon

(* The value an accumulator takes, unless FLAG reports it.                 *)
Flagged(v, i) == (IF i = 0 THEN {15, 16} ELSE {31 - i, 28 - i}) \cap v.flag # {}
Stores(u, v, i, y) ==
  /\ UnitOK(v) /\ u.flag \subseteq v.flag
  /\ Flagged(v, i) \/ v.mac[i] = y
  /\ \A j \in 0 .. 3 : j # i => v.mac[j] = u.mac[j]

LEMMA NoOverflow ==
  ASSUME NEW i \in 0 .. 3, NEW x \in Int, Overflow(i, x) = {}
  PROVE  Cut(i, x) = x /\ (i = 0 => x \in Numbers(Word))
<1> DEFINE n == IF i = 0 THEN Word ELSE MacBits
<1>1. /\ Word \in Nat /\ Word > 0 /\ MacBits \in Nat /\ MacBits > 0
      /\ Mac0Bits \in Nat /\ Word <= Mac0Bits
  BY Widths DEF MacBits, Mac0Bits
<1>2. x \in Numbers(n)
  <2>1. n \in Nat /\ n > 0
    BY <1>1
  <2>2. 2^(n - 1) \in Nat
    BY <2>1, HalfPower, PowerType
  <2>3. ~(x > 2^(n - 1) - 1) /\ ~(x < -(2^(n - 1)))
    BY Zenon DEF Overflow
  <2> HIDE DEF n
  <2> QED  BY <2>2, <2>3, SMT DEF Numbers
<1>3. CASE i = 0
  <2>1. x \in Numbers(Word)
    BY <1>2, <1>3
  <2>2. 2^(Word - 1) <= 2^(Mac0Bits - 1) /\ 2^(Word - 1) \in Nat /\ 2^(Mac0Bits - 1) \in Nat
    BY <1>1, PowerUp, PowerType
  <2>3. x \in Numbers(Mac0Bits)
    BY <2>1, <2>2, SMT DEF Numbers
  <2>4. Signed(x, Mac0Bits) = x
    BY <1>1, <2>3, SignedSame
  <2> QED  BY <1>3, <2>1, <2>4 DEF Cut
<1>4. CASE i # 0
  <2>1. Signed(x, MacBits) = x
    BY <1>1, <1>2, <1>4, SignedSame
  <2> QED  BY <1>4, <2>1 DEF Cut
<1> QED  BY <1>3, <1>4

LEMMA OverflowBits ==
  ASSUME NEW i \in 0 .. 3, NEW x \in Int, Overflow(i, x) # {}
  PROVE  \E b \in Overflow(i, x) : /\ b \in 12 .. 30
                                   /\ b \in (IF i = 0 THEN {15, 16} ELSE {31 - i, 28 - i})
<1>1. \E b \in {IF i = 0 THEN 16 ELSE 31 - i, IF i = 0 THEN 15 ELSE 28 - i} : Overflow(i, x) = {b}
  BY DEF Overflow
<1>2. PICK b \in {IF i = 0 THEN 16 ELSE 31 - i, IF i = 0 THEN 15 ELSE 28 - i} : Overflow(i, x) = {b}
  BY <1>1
<1>3. b \in 12 .. 30 /\ b \in (IF i = 0 THEN {15, 16} ELSE {31 - i, 28 - i})
  BY SMT
<1> QED  BY <1>2, <1>3

LEMMA WriteMacStores ==
  ASSUME NEW u, UnitOK(u), NEW i \in 0 .. 3, NEW x \in Int, NEW sf \in {0, 1}
  PROVE  Stores(u, WriteMac(u, i, x, sf), i, Sar(x, sf * Shift))
<1> DEFINE v == WriteMac(u, i, x, sf)
<1>1. /\ UnitOK(v)
      /\ v.flag = FlagWord(u.flag \cup Overflow(i, x))
      /\ v.mac[i] = Sar(Cut(i, x), sf * Shift)
      /\ \A j \in 0 .. 3 : j # i => v.mac[j] = u.mac[j]
      /\ \A j \in 0 .. 62 : j # 24 + i => v.raw[j] = u.raw[j]
  BY WriteMacOK
<1>2. u.flag \subseteq v.flag
  BY <1>1, FlagGrows
<1> HIDE DEF v
<1>3. Flagged(v, i) \/ v.mac[i] = Sar(x, sf * Shift)
  <2>1. CASE Overflow(i, x) = {}
    BY <1>1, <2>1, NoOverflow
  <2>2. CASE Overflow(i, x) # {}
    <3>1. PICK b \in Overflow(i, x) : /\ b \in 12 .. 30
                                     /\ b \in (IF i = 0 THEN {15, 16} ELSE {31 - i, 28 - i})
      BY <2>2, OverflowBits
    <3>2. b \in v.flag
      BY <1>1, <3>1 DEF FlagWord
    <3> QED  BY <3>1, <3>2 DEF Flagged
  <2> QED  BY <2>1, <2>2
<1> QED  BY <1>1, <1>2, <1>3, Zenon DEF Stores, v

LEMMA WriteMac0OK ==
  ASSUME NEW u, UnitOK(u), NEW x \in Int
  PROVE  Onward(u, WriteMac(u, 0, x, 0))
<1>1. 0 \in 0 .. 3 /\ 0 \in {0, 1} /\ 1 \in 0 .. 3 /\ 2 \in 0 .. 3 /\ 3 \in 0 .. 3
  BY SMT
<1>2. Stores(u, WriteMac(u, 0, x, 0), 0, Sar(x, 0 * Shift))
  BY <1>1, WriteMacStores
<1> QED  BY <1>1, <1>2 DEF Stores, Onward

LEMMA PushSXYOn ==
  ASSUME NEW u, UnitOK(u), NEW x \in Words
  PROVE  Onward(u, Write(u, 15, x))
<1> DEFINE v == [u EXCEPT !.raw[12] = u.raw[13], !.raw[13] = u.raw[14], !.raw[14] = x]
<1>1. u \in Units
  BY DEF UnitOK
<1>2. v.mac = u.mac /\ v.flag = u.flag
  BY <1>1, SMT DEF Units
<1>3. UnitOK(v) /\ u.flag \subseteq v.flag
  BY <1>2, PushSXYOK DEF PushSXY
<1>4. Write(u, 15, x) = v
  <2>1. Write(u, 15, x) = PushSXY(u, x)
    BY SMT DEF Write, Signed16, Unsigned16
  <2> QED  BY <2>1, Zenon DEF PushSXY
<1> HIDE DEF v
<1> QED  BY <1>2, <1>3, <1>4, OnwardSame, Zenon

-----------------------------------------------------------------------------
(* The perspective transformation.                                         *)
LEMMA MacAt ==
  ASSUME NEW u, UnitOK(u), NEW i \in 0 .. 3, NEW n \in Nat
  PROVE  u.mac[i] \in Int /\ Sar(u.mac[i], n) \in Int
<1>1. u.mac[i] \in Int
  BY MacType
<1> QED  BY <1>1, SarType

LEMMA LimitDepthOK ==
  ASSUME NEW u, UnitOK(u), NEW wide \in Int, NEW sf \in {0, 1}, NEW lm \in {0, 1}
  PROVE  Onward(u, LimitDepth(u, wide, sf, lm))
<1> DEFINE z == Sar(wide, Shift)
           ir3 == Clamp(Signed(Sar(wide, sf * Shift), Word), Least(lm), Most)
           r == Raise(u, Lim(z, Least(0), Most, 22))
<1>1. z \in Int
  BY Widths, SarType
<1>2. ir3 \in Numbers(Half)
  <2>1. sf * Shift \in Nat
    BY Widths, SMT
  <2>2. Sar(wide, sf * Shift) \in Int
    BY <2>1, SarType
  <2>3. Signed(Sar(wide, sf * Shift), Word) \in Int
    BY <2>2, SignedRange, Widths
  <2> DEFINE s == Signed(Sar(wide, sf * Shift), Word)
  <2>4. s \in Int
    BY <2>3
  <2> HIDE DEF s
  <2>5. Clamp(s, Least(lm), Most) \in Numbers(Half)
    BY <2>4, ClampRange, Limits
  <2> QED  BY <2>5 DEF s
<1>3. Onward(u, r)
  BY RaiseOn
<1>4. LimitDepth(u, wide, sf, lm) = PushZ(SetIR(r, 3, ir3), z)
  BY Zenon DEF LimitDepth
<1> HIDE DEF z, ir3, r
<1>5. 3 \in 0 .. 3
  BY SMT
<1>6. Onward(r, SetIR(r, 3, ir3))
  BY <1>2, <1>3, <1>5, SetIROn, OnwardOK
<1>7. Onward(SetIR(r, 3, ir3), PushZ(SetIR(r, 3, ir3), z))
  BY <1>1, <1>6, PushZOn, OnwardOK, Zenon
<1> QED  BY <1>3, <1>4, <1>6, <1>7, OnwardTwice, Zenon

LEMMA ProjectOK ==
  ASSUME NEW u, UnitOK(u), NEW sf \in {0, 1}, NEW lm \in {0, 1}, NEW v \in 0 .. 3
  PROVE  Onward(Products(u, sf, 0, v, 0), Project(u, sf, lm, v))
<1> DEFINE p == Products(u, sf, 0, v, 0)
           q == Products(u, 0, 0, v, 0)
<1>1. 0 \in 0 .. 3 /\ 3 \in 0 .. 3 /\ 0 \in {0, 1} /\ 1 \in 1 .. 3 /\ 2 \in 1 .. 3
  BY SMT
<1>2. UnitOK(p) /\ UnitOK(q)
  BY <1>1, ProductsOK, Zenon
<1>3. Project(u, sf, lm, v)
        = LimitDepth(MacIntoIR1(MacIntoIR1(p, 1, lm), 2, lm), q.mac[3], sf, lm)
  BY Zenon DEF Project
<1> HIDE DEF p, q
<1>4. q.mac[3] \in Int
  BY <1>1, <1>2, MacAt, MacType, Zenon
<1> DEFINE p1 == MacIntoIR1(p, 1, lm)
           p2 == MacIntoIR1(p1, 2, lm)
<1>5. Onward(p, p1) /\ UnitOK(p1)
  BY <1>1, <1>2, MacIntoIR1On, OnwardOK, Zenon
<1> HIDE DEF p1
<1>6. Onward(p1, p2) /\ UnitOK(p2)
  BY <1>1, <1>5, MacIntoIR1On, OnwardOK, Zenon
<1> HIDE DEF p2
<1>7. Onward(p2, LimitDepth(p2, q.mac[3], sf, lm))
  BY <1>4, <1>6, LimitDepthOK, Zenon
<1>8. Onward(p, LimitDepth(p2, q.mac[3], sf, lm))
  BY <1>5, <1>6, <1>7, OnwardTwice, Zenon
<1> QED  BY <1>3, <1>8, Zenon DEF p, p1, p2

LEMMA ScaledOK ==
  ASSUME NEW u, UnitOK(u), NEW base \in 0 .. 62, NEW factor \in Int, NEW div \in Int
  PROVE  Onward(u, Scaled(u, base, factor, div))
<1>1. Signed(u.raw[base], Word) \in Int
  BY RegType
<1>2. Signed(u.raw[base], Word) + factor * div \in Int
  BY <1>1, SMT
<1> QED  BY <1>2, WriteMac0OK, Zenon DEF Scaled

LEMMA PixelType == ASSUME NEW s \in Int PROVE Pixel(s) \in 0 .. 2^Half - 1
<1>1. Screen - 1 \in Nat
  BY Widths, SMT
<1>2. Edge \in Nat /\ Edge > 0
  BY <1>1, PowerType DEF Edge
<1>3. Clamp(s, -Edge, Edge - 1) \in Int
  BY <1>2, SMT DEF Clamp
<1> QED  BY <1>3, LowRange, Widths DEF Pixel

LEMMA PushPixelOK ==
  ASSUME NEW u, UnitOK(u), NEW sx \in Int, NEW sy \in Int
  PROVE  Onward(u, PushPixel(u, sx, sy))
<1> DEFINE x == Pixel(sx) + Pixel(sy) * 2^Half
           r == Raise(u, Lim(sx, -Edge, Edge - 1, 14) \cup Lim(sy, -Edge, Edge - 1, 13))
<1>1. x \in 0 .. 2^Half * 2^Half - 1
  BY PixelType, Powers, Pack, Zenon
<1>2. x \in Words
  BY <1>1, Powers, Zenon DEF Words
<1>3. Onward(u, r)
  BY RaiseOn
<1>4. PushPixel(u, sx, sy) = Write(r, 15, x)
  BY Zenon DEF PushPixel
<1> HIDE DEF x, r
<1>5. Onward(r, Write(r, 15, x))
  BY <1>2, <1>3, PushSXYOn, OnwardOK, Zenon
<1> QED  BY <1>3, <1>4, <1>5, OnwardTwice, Zenon

LEMMA LimitFadeOK ==
  ASSUME NEW u, UnitOK(u), NEW p \in Int
  PROVE  Onward(u, LimitFade(u, p))
<1> DEFINE c == Clamp(p, 0, 2^Shift)
           r == Raise(u, Lim(p, 0, 2^Shift, 12))
<1>1. c \in 0 .. 2^Shift
  <2>1. 0 \in Int /\ 2^Shift \in Int /\ 0 <= 2^Shift
    BY Powers, SMT
  <2> QED  BY <2>1, ClampRange
<1> HIDE DEF c
<1>2. c \in Numbers(Half)
  BY <1>1, Powers, SMT DEF Numbers
<1>3. Onward(u, r) /\ 0 \in 0 .. 3
  BY RaiseOn, SMT
<1>4. LimitFade(u, p) = SetIR(r, 0, c)
  BY Zenon DEF LimitFade, c
<1> HIDE DEF r
<1>5. Onward(r, SetIR(r, 0, c))
  BY <1>2, <1>3, SetIROn, OnwardOK, Zenon
<1> QED  BY <1>3, <1>4, <1>5, OnwardTwice, Zenon

LEMMA FadeOK == ASSUME NEW u, UnitOK(u) PROVE Onward(u, Fade(u))
<1>1. 0 \in 0 .. 3 /\ Shift \in Nat
  BY Widths, SMT
<1>2. Sar(u.mac[0], Shift) \in Int
  BY <1>1, MacAt, Zenon
<1> QED  BY <1>2, LimitFadeOK, Zenon DEF Fade

LEMMA ToScreenOK ==
  ASSUME NEW u, UnitOK(u), NEW div \in Int, NEW depth_queue
  PROVE  Onward(u, ToScreen(u, div, depth_queue))
<1> DEFINE y == Scaled(u, 57, IRs(u)[2], div)
           w == Scaled(y, 60, Lo(y, 59), div)
           t == IF depth_queue THEN Fade(w) ELSE y
           sx == Sar(u.mac[0], Half)
           sy == Sar(y.mac[0], Half)
<1>1. /\ 57 \in 0 .. 62 /\ 60 \in 0 .. 62 /\ 59 \in 0 .. 62 /\ 0 \in 0 .. 3 /\ Half \in Nat
      /\ IRs(u)[2] \in Int
  BY Widths, IRType, SMT DEF Vec
<1>2. Onward(u, y) /\ UnitOK(y)
  BY <1>1, ScaledOK, OnwardOK, Zenon
<1>3. ToScreen(u, div, depth_queue) = PushPixel(t, sx, sy)
  BY Zenon DEF ToScreen
<1> HIDE DEF y
<1>4. Lo(y, 59) \in Int
  BY <1>1, <1>2, HalvesType
<1>5. Onward(y, w) /\ UnitOK(w)
  BY <1>1, <1>2, <1>4, ScaledOK, OnwardOK, Zenon
<1> HIDE DEF w
<1>6. Onward(y, t) /\ UnitOK(t)
  <2>1. Onward(w, Fade(w))
    BY <1>5, FadeOK
  <2>2. Onward(y, Fade(w)) /\ Onward(y, y)
    BY <1>2, <1>5, <2>1, OnwardTwice, OnwardSelf, Zenon
  <2> QED  BY <2>2, OnwardOK, Zenon
<1>7. sx \in Int /\ sy \in Int
  BY <1>1, <1>2, MacAt
<1> HIDE DEF t, sx, sy
<1>8. Onward(t, PushPixel(t, sx, sy))
  BY <1>6, <1>7, PushPixelOK, Zenon
<1> QED  BY <1>2, <1>3, <1>6, <1>8, OnwardTwice, Zenon

LEMMA QuotientType ==
  ASSUME NEW p \in Nat, NEW q \in Nat
  PROVE  Quotient(p, q) \in Int
<1> DEFINE m == 2^(Half + 1)
<1>1. m \in Nat /\ m > 0
  <2>1. Half + 1 \in Nat
    BY Widths, SMT
  <2> QED  BY <2>1, PowerType
<1>2. Quotient(p, q) = IF Overflows(p, q) THEN m - 1
                       ELSE Clamp(((p * m) \div q + 1) \div 2, 0, m - 1)
  BY Zenon DEF Quotient
<1> HIDE DEF m
<1>3. m - 1 \in Int /\ 0 \in Int /\ 0 <= m - 1
  BY <1>1, SMT
<1>4. CASE p >= 2 * q
  BY <1>2, <1>3, <1>4, Zenon DEF Overflows
<1>5. CASE ~(p >= 2 * q)
  <2>1. q > 0 /\ p * m \in Int
    BY <1>1, <1>5, SMT
  <2>2. (p * m) \div q \in Int
    BY <2>1, Division, Zenon
  <2>3. ((p * m) \div q + 1) \div 2 \in Int
    BY <2>2, SMT
  <2>4. Clamp(((p * m) \div q + 1) \div 2, 0, m - 1) \in Int
    BY <1>3, <2>3, ClampRange
  <2> QED  BY <1>2, <1>5, <2>4, Zenon DEF Overflows
<1> QED  BY <1>4, <1>5

LEMMA RtpOK ==
  ASSUME NEW u, UnitOK(u), NEW sf \in {0, 1}, NEW lm \in {0, 1}, NEW v \in 0 .. 3, NEW depth_queue
  PROVE  Onward(Products(u, sf, 0, v, 0), Rtp(u, sf, lm, v, depth_queue))
<1> DEFINE o == Products(u, sf, 0, v, 0)
           p == Project(u, sf, lm, v)
           h == Low(p.raw[58], Half)
           sz == p.raw[19]
           r == Raise(p, IF Overflows(h, sz) THEN {17} ELSE {})
           div == Quotient(h, sz)
           t == Scaled(r, 56, IRs(p)[1], div)
<1>1. 58 \in 0 .. 62 /\ 19 \in 0 .. 62 /\ 56 \in 0 .. 62
  BY SMT
<1>2. Onward(o, p) /\ UnitOK(p)
  BY ProjectOK, OnwardOK, Zenon
<1>3. Rtp(u, sf, lm, v, depth_queue) = ToScreen(t, div, depth_queue)
  BY Zenon DEF Rtp, Far, Perspective
<1> HIDE DEF p
<1>4. p.raw[58] \in Int /\ p.raw[19] \in 0 .. 2^Word - 1
  BY <1>1, <1>2, RegType DEF Words
<1>5. h \in 0 .. 2^Half - 1
  BY <1>4, LowRange, Widths
<1> HIDE DEF h, sz
<1>6. h \in Nat /\ sz \in Nat
  BY <1>4, <1>5, SMT DEF sz
<1>7. div \in Int
  BY <1>6, QuotientType
<1>8. Onward(p, r) /\ UnitOK(r)
  BY <1>2, RaiseOn, OnwardOK, Zenon
<1> HIDE DEF r, div
<1>9. IRs(p)[1] \in Int
  BY <1>2, IRType DEF Vec
<1>10. Onward(r, t) /\ UnitOK(t)
  BY <1>1, <1>7, <1>8, <1>9, ScaledOK, OnwardOK, Zenon
<1> HIDE DEF t, o
<1>11. Onward(t, ToScreen(t, div, depth_queue))
  BY <1>7, <1>10, ToScreenOK, Zenon
<1>12. Onward(o, ToScreen(t, div, depth_queue))
  BY <1>2, <1>8, <1>10, <1>11, OnwardTwice, Zenon
<1> QED  BY <1>3, <1>12, Zenon DEF o

-----------------------------------------------------------------------------
(* The other commands.                                                     *)
LEMMA Blended ==
  ASSUME NEW u, UnitOK(u), NEW m, Vec(m)
  PROVE  Vec([i \in 1 .. 3 |-> m[i] + IR0(u) * IRs(u)[i]])
<1>1. ASSUME NEW i \in 1 .. 3 PROVE m[i] + IR0(u) * IRs(u)[i] \in Int
  <2>1. m[i] \in Int /\ IRs(u)[i] \in Int /\ IR0(u) \in Int
    BY IRType, VecAt, Zenon
  <2> QED  BY <2>1, SMT
<1> QED  BY <1>1, OneTwoThree, Zenon DEF Vec

LEMMA ToFarOK ==
  ASSUME NEW u, UnitOK(u), NEW m, Vec(m), NEW sf \in {0, 1}
  PROVE  UnitOK(ToFar(u, m, sf))
<1> DEFINE x == [i \in 1 .. 3 |-> Words3(u, 53)[i] * 2^Shift - m[i]]
<1>1. Vec(Words3(u, 53)) /\ 2^Shift \in Int /\ 0 \in {0, 1}
  <2>1. 53 \in 0 .. 60
    BY SMT
  <2> QED  BY <2>1, WordsType, Powers, SMT
<1>2. ASSUME NEW i \in 1 .. 3 PROVE Words3(u, 53)[i] * 2^Shift - m[i] \in Int
  <2>1. Words3(u, 53)[i] \in Int /\ m[i] \in Int
    BY <1>1, VecAt, Zenon
  <2> QED  BY <1>1, <2>1, SMT
<1>3. Vec(x)
  BY <1>2, OneTwoThree, Zenon DEF Vec
<1>4. ToFar(u, m, sf) = MacIntoIR(WriteMacs(u, x, sf), 0)
  BY Zenon DEF ToFar
<1> HIDE DEF x
<1>5. UnitOK(WriteMacs(u, x, sf))
  BY <1>3, WriteMacsOK, Zenon DEF Vec
<1> QED  BY <1>1, <1>4, <1>5, MacIntoIROK, Zenon

LEMMA BlendOK ==
  ASSUME NEW u, UnitOK(u), NEW m, Vec(m), NEW sf \in {0, 1}
  PROVE  UnitOK(Blend(u, m, sf))
<1> DEFINE x == [i \in 1 .. 3 |-> m[i] + IR0(u) * IRs(u)[i]]
<1>1. Vec(x)
  BY Blended
<1>2. Blend(u, m, sf) = WriteMacs(u, x, sf)
  BY Zenon DEF Blend
<1> HIDE DEF x
<1> QED  BY <1>1, <1>2, WriteMacsOK, Zenon DEF Vec

LEMMA InterpolateOK ==
  ASSUME NEW u, UnitOK(u), NEW sf \in {0, 1}, NEW lm \in {0, 1}
  PROVE  Done(Interpolate(u, sf, lm), lm)
<1>1. Vec(u.mac)
  BY MacType
<1>2. UnitOK(ToFar(u, u.mac, sf))
  BY <1>1, ToFarOK, Zenon
<1>3. UnitOK(Blend(ToFar(u, u.mac, sf), u.mac, sf))
  BY <1>1, <1>2, BlendOK, Zenon
<1>4. Done(MacIntoIR(Blend(ToFar(u, u.mac, sf), u.mac, sf), lm), lm)
  BY <1>3, MacIntoIRDone, Zenon
<1> QED  BY <1>4, PushColorDone, Zenon DEF Interpolate

LEMMA DpcOK ==
  ASSUME NEW u, UnitOK(u), NEW sf \in {0, 1}, NEW lm \in {0, 1}, NEW from \in 0 .. 62
  PROVE  Done(Dpc(u, sf, lm, from), lm)
<1> DEFINE x == [i \in 1 .. 3 |-> Rgb8(u, from)[i] * 2^(ColorShift + Shift)]
<1>1. ColorShift + Shift \in Nat
  BY Widths, SMT DEF ColorShift
<1>2. 2^(ColorShift + Shift) \in Int /\ 0 \in {0, 1}
  <2>1. 2^(ColorShift + Shift) \in Nat
    BY <1>1, PowerType
  <2> QED  BY <2>1, SMT
<1>3. Vec(x)
  BY <1>2, RgbType, VecScaled, Zenon
<1>4. Dpc(u, sf, lm, from) = Interpolate(WriteMacs(u, x, 0), sf, lm)
  BY Zenon DEF Dpc
<1> HIDE DEF x
<1>5. UnitOK(WriteMacs(u, x, 0))
  BY <1>2, <1>3, WriteMacsOK, Zenon DEF Vec
<1> QED  BY <1>4, <1>5, InterpolateOK, Zenon

LEMMA IntplOK ==
  ASSUME NEW u, UnitOK(u), NEW sf \in {0, 1}, NEW lm \in {0, 1}
  PROVE  Done(Intpl(u, sf, lm), lm)
<1> DEFINE x == [i \in 1 .. 3 |-> IRs(u)[i] * 2^Shift]
<1>1. 2^Shift \in Int /\ 0 \in {0, 1}
  BY Powers, SMT
<1>2. Vec(x)
  BY <1>1, IRType, VecScaled, Zenon
<1>3. Intpl(u, sf, lm) = Interpolate(WriteMacs(u, x, 0), sf, lm)
  BY Zenon DEF Intpl
<1> HIDE DEF x
<1>4. UnitOK(WriteMacs(u, x, 0))
  BY <1>1, <1>2, WriteMacsOK, Zenon DEF Vec
<1> QED  BY <1>3, <1>4, InterpolateOK, Zenon

LEMMA TintedType == ASSUME NEW u, UnitOK(u) PROVE Vec(Tinted(u))
<1>1. Vec(Rgb8(u, 6)) /\ Vec(IRs(u))
  <2>1. 6 \in 0 .. 62
    BY SMT
  <2> QED  BY <2>1, RgbType, IRType
<1>2. 2^ColorShift \in Int
  <2>1. ColorShift \in Nat
    BY Widths, SMT DEF ColorShift
  <2>2. 2^ColorShift \in Nat
    BY <2>1, PowerType
  <2> QED  BY <2>2, SMT
<1>3. ASSUME NEW i \in 1 .. 3 PROVE IRs(u)[i] * Rgb8(u, 6)[i] * 2^ColorShift \in Int
  <2>1. IRs(u)[i] \in Int /\ Rgb8(u, 6)[i] \in Int
    BY <1>1, VecAt, Zenon
  <2> QED  BY <1>2, <2>1, SMT
<1> QED  BY <1>3, OneTwoThree, Zenon DEF Vec, Tinted

LEMMA DcplOK ==
  ASSUME NEW u, UnitOK(u), NEW sf \in {0, 1}, NEW lm \in {0, 1}
  PROVE  Done(Dcpl(u, sf, lm), lm)
<1>1. 0 \in {0, 1} /\ Vec(Tinted(u))
  BY TintedType
<1>2. UnitOK(WriteMacs(u, Tinted(u), 0))
  BY <1>1, WriteMacsOK, Zenon DEF Vec
<1> QED  BY <1>2, InterpolateOK, Zenon DEF Dcpl

LEMMA TintOK ==
  ASSUME NEW u, UnitOK(u), NEW sf \in {0, 1}, NEW lm \in {0, 1}
  PROVE  Done(Tint(u, sf, lm), lm)
<1>1. UnitOK(WriteMacs(u, Tinted(u), sf))
  BY TintedType, WriteMacsOK, Zenon DEF Vec
<1>2. UnitOK(PushColor(WriteMacs(u, Tinted(u), sf)))
  BY <1>1, PushColorOK, Zenon
<1> QED  BY <1>2, MacIntoIRDone, Zenon DEF Tint

LEMMA LightOK ==
  ASSUME NEW u, UnitOK(u), NEW sf \in {0, 1}, NEW lm \in {0, 1}
  PROVE  /\ Done(Light(u, sf, lm), lm)
         /\ \A v \in 0 .. 3 : Done(Normal(u, sf, lm, v), lm)
<1>1. 2 \in 0 .. 3 /\ 3 \in 0 .. 3 /\ 1 \in 0 .. 3
  BY SMT
<1>2. Done(Mvmva(u, sf, 2, 3, 1, lm), lm)
  BY <1>1, MvmvaOK, Zenon
<1>3. \A v \in 0 .. 3 : Done(Mvmva(u, sf, 1, v, 3, lm), lm)
  BY <1>1, MvmvaOK, Zenon
<1> QED  BY <1>2, <1>3, Zenon DEF Light, Normal

LEMMA ColorsOK ==
  ASSUME NEW u, UnitOK(u), NEW sf \in {0, 1}, NEW lm \in {0, 1}
  PROVE  /\ Done(Cdp(u, sf, lm), lm) /\ Done(Cc(u, sf, lm), lm)
         /\ \A v \in 0 .. 3 : /\ Done(Ncd(u, sf, lm, v), lm) /\ Done(Ncc(u, sf, lm, v), lm)
                              /\ Done(Nc(u, sf, lm, v), lm)
<1>1. ASSUME NEW w, UnitOK(w) PROVE Done(Cdp(w, sf, lm), lm) /\ Done(Cc(w, sf, lm), lm)
  <2>1. UnitOK(Light(w, sf, lm))
    BY <1>1, LightOK, DoneOK, Zenon
  <2>2. Done(Dcpl(Light(w, sf, lm), sf, lm), lm)
    BY <2>1, DcplOK, Zenon
  <2>3. Done(Tint(Light(w, sf, lm), sf, lm), lm)
    BY <2>1, TintOK, Zenon
  <2> QED  BY <2>2, <2>3, Zenon DEF Cdp, Cc
<1>2. ASSUME NEW v \in 0 .. 3
      PROVE /\ Done(Ncd(u, sf, lm, v), lm) /\ Done(Ncc(u, sf, lm, v), lm)
            /\ Done(Nc(u, sf, lm, v), lm)
  <2>1. UnitOK(Normal(u, sf, lm, v))
    BY LightOK, DoneOK, Zenon
  <2>2. /\ Done(Cdp(Normal(u, sf, lm, v), sf, lm), lm)
        /\ Done(Cc(Normal(u, sf, lm, v), sf, lm), lm)
    BY <1>1, <2>1, Zenon
  <2>3. Done(Light(Normal(u, sf, lm, v), sf, lm), lm)
    BY <2>1, LightOK, Zenon
  <2>4. Done(PushColor(Light(Normal(u, sf, lm, v), sf, lm)), lm)
    BY <2>3, PushColorDone, Zenon
  <2> QED  BY <2>2, <2>4, Zenon DEF Ncd, Ncc, Nc
<1> QED  BY <1>1, <1>2, Zenon

LEMMA NclipOK == ASSUME NEW u, UnitOK(u) PROVE UnitOK(Nclip(u))
<1> DEFINE x == Sx(u, 0) * Sy(u, 1) - Sx(u, 1) * Sy(u, 0)
                + (Sx(u, 1) * Sy(u, 2) - Sx(u, 2) * Sy(u, 1))
                + (Sx(u, 2) * Sy(u, 0) - Sx(u, 0) * Sy(u, 2))
<1>1. \A k \in 0 .. 2 : Sx(u, k) \in Int /\ Sy(u, k) \in Int
  <2>1. \A k \in 0 .. 2 : 12 + k \in 0 .. 62
    BY SMT
  <2> QED  BY <2>1, HalvesType, Zenon DEF Sx, Sy
<1>2. 0 \in 0 .. 2 /\ 1 \in 0 .. 2 /\ 2 \in 0 .. 2
  BY SMT
<1>3. x \in Int
  <2>1. \A a, b, c, d, e, f \in Int :
          (a * e - b * d) + (b * f - c * e) + (c * d - a * f) \in Int
    BY SMT
  <2> QED  BY <1>1, <1>2, <2>1, Zenon
<1>4. Nclip(u) = WriteMac(u, 0, x, 0)
  BY Zenon DEF Nclip
<1> HIDE DEF x
<1> QED  BY <1>3, <1>4, WriteMac0OK, OnwardOK, Zenon

LEMMA OpOK ==
  ASSUME NEW u, UnitOK(u), NEW sf \in {0, 1}, NEW lm \in {0, 1}
  PROVE  Done(Op(u, sf, lm), lm)
<1> DEFINE ir == IRs(u)
           d == Three(Elem(u, 32, 1), Elem(u, 32, 5), Elem(u, 32, 9))
           x == Three(ir[3] * d[2] - ir[2] * d[3], ir[1] * d[3] - ir[3] * d[1],
                      ir[2] * d[1] - ir[1] * d[2])
<1>1. Vec(ir)
  BY IRType
<1>2. Vec(d)
  <2>1. 32 \in 0 .. 58 /\ 1 \in 1 .. 9 /\ 5 \in 1 .. 9 /\ 9 \in 1 .. 9
    BY SMT
  <2>2. Elem(u, 32, 1) \in Int /\ Elem(u, 32, 5) \in Int /\ Elem(u, 32, 9) \in Int
    BY <2>1, ElemType, Zenon
  <2> QED  BY <2>2, ThreeType, Zenon
<1>3. Op(u, sf, lm) = MacIntoIR(WriteMacs(u, x, sf), lm)
  BY Zenon DEF Op
<1> HIDE DEF ir, d
<1>4. Vec(x)
  <2>1. \A a, b, c, e \in Int : a * b - c * e \in Int
    BY SMT
  <2>2. /\ ir[3] * d[2] - ir[2] * d[3] \in Int /\ ir[1] * d[3] - ir[3] * d[1] \in Int
        /\ ir[2] * d[1] - ir[1] * d[2] \in Int
    BY <1>1, <1>2, <2>1, Zenon DEF Vec
  <2> QED  BY <2>2, ThreeType, Zenon
<1> HIDE DEF x
<1>5. UnitOK(WriteMacs(u, x, sf))
  BY <1>4, WriteMacsOK, Zenon DEF Vec
<1> QED  BY <1>3, <1>5, MacIntoIRDone, Zenon

LEMMA SqrOK ==
  ASSUME NEW u, UnitOK(u), NEW sf \in {0, 1}, NEW lm \in {0, 1}
  PROVE  Done(Sqr(u, sf, lm), lm)
<1> DEFINE x == [i \in 1 .. 3 |-> IRs(u)[i] * IRs(u)[i]]
<1>1. ASSUME NEW i \in 1 .. 3 PROVE IRs(u)[i] * IRs(u)[i] \in Int
  <2>1. IRs(u)[i] \in Int
    BY IRType, VecAt, Zenon
  <2> QED  BY <2>1, SMT
<1>2. Vec(x)
  BY <1>1, OneTwoThree, Zenon DEF Vec
<1>3. Sqr(u, sf, lm) = MacIntoIR(WriteMacs(u, x, sf), lm)
  BY Zenon DEF Sqr
<1> HIDE DEF x
<1>4. UnitOK(WriteMacs(u, x, sf))
  BY <1>2, WriteMacsOK, Zenon DEF Vec
<1> QED  BY <1>3, <1>4, MacIntoIRDone, Zenon

LEMMA AverageOK == ASSUME NEW u, UnitOK(u), NEW n \in 3 .. 4 PROVE UnitOK(Average(u, n))
<1> DEFINE z(k) == Low(u.raw[k], Half)
           sum == (IF n = 4 THEN z(16) ELSE 0) + z(17) + z(18) + z(19)
           otz == Signed(u.raw[58 + n], Half) * sum
           avg == Sar(otz, Shift)
           c == Clamp(avg, 0, 2^Half - 1)
           r == Raise(u, Lim(avg, 0, 2^Half - 1, 18))
<1>1. \A k \in 16 .. 19 : z(k) \in Int
  <2>1. \A k \in 16 .. 19 : k \in 0 .. 62
    BY SMT
  <2>2. ASSUME NEW k \in 16 .. 19 PROVE z(k) \in Int
    <3>1. u.raw[k] \in Int /\ Half \in Nat
      BY <2>1, RegType, Widths
    <3>2. z(k) \in 0 .. 2^Half - 1
      BY <3>1, LowRange
    <3> HIDE DEF z
    <3> QED  BY <3>2, SMT
  <2> QED  BY <2>2
<1>2. sum \in Int
  <2>1. 16 \in 16 .. 19 /\ 17 \in 16 .. 19 /\ 18 \in 16 .. 19 /\ 19 \in 16 .. 19
    BY SMT
  <2> DEFINE a == z(16)
             b == z(17)
             d == z(18)
             e == z(19)
  <2>2. a \in Int /\ b \in Int /\ d \in Int /\ e \in Int
    BY <1>1, <2>1, Zenon
  <2>3. sum = (IF n = 4 THEN a ELSE 0) + b + d + e
    OBVIOUS
  <2> HIDE DEF a, b, d, e, sum
  <2> QED  BY <2>2, <2>3, SMT
<1>3. otz \in Int
  <2>1. 58 + n \in 0 .. 62
    BY SMT
  <2>2. Signed(u.raw[58 + n], Half) \in Int
    BY <2>1, RegType, Zenon
  <2> HIDE DEF sum
  <2> QED  BY <1>2, <2>2, SMT
<1>4. avg \in Int
  <2> HIDE DEF otz
  <2> QED  BY <1>3, SarType, Widths
<1>5. c \in 0 .. 2^Half - 1
  <2>1. 0 \in Int /\ 2^Half - 1 \in Int /\ 0 <= 2^Half - 1
    BY Powers, SMT
  <2> HIDE DEF avg
  <2> QED  BY <1>4, <2>1, ClampRange
<1>6. UnitOK(r)
  BY RaiseOK
<1>7. Average(u, n) = WriteMac([r EXCEPT !.raw[7] = c], 0, otz, 0)
  BY Zenon DEF Average
<1> HIDE DEF otz, c, r
<1>8. 7 \in Unsigned16 /\ 7 \in 0 .. 62 /\ 7 \notin 24 .. 27
  BY SMT DEF Unsigned16
<1>9. UnitOK(Put(r, 7, c))
  BY <1>5, <1>6, <1>8, UnsignedOK, PutOK, Zenon
<1> QED  BY <1>3, <1>7, <1>9, WriteMac0OK, OnwardOK, Zenon DEF Put

LEMMA GpOK ==
  ASSUME NEW u, UnitOK(u), NEW sf \in {0, 1}, NEW lm \in {0, 1}, NEW base, Vec(base)
  PROVE  Done(Gp(u, sf, lm, base), lm)
<1> DEFINE x == [i \in 1 .. 3 |-> base[i] + IR0(u) * IRs(u)[i]]
<1>1. Vec(x)
  BY Blended
<1>2. Gp(u, sf, lm, base) = PushColor(MacIntoIR(WriteMacs(u, x, sf), lm))
  BY Zenon DEF Gp
<1> HIDE DEF x
<1>3. UnitOK(WriteMacs(u, x, sf))
  BY <1>1, WriteMacsOK, Zenon DEF Vec
<1>4. Done(MacIntoIR(WriteMacs(u, x, sf), lm), lm)
  BY <1>3, MacIntoIRDone, Zenon
<1> QED  BY <1>2, <1>4, PushColorDone, Zenon

(* The commands that run three times.                                      *)
Singles == {"RTPS", "NCDS", "NCCS", "NCS", "DPCS"}

LEMMA SingleIs ==
  /\ \A op \in DOMAIN Single : Single[op] \in Singles
  /\ \A op \in Singles : op \in {Single[o] : o \in DOMAIN Single}
  /\ {Single[o] : o \in DOMAIN Single} \subseteq Singles
<1>1. DOMAIN Single = {"RTPT", "NCDT", "NCT", "NCCT", "DPCT"}
  BY DEF Single
<1>2. /\ Single["RTPT"] = "RTPS" /\ Single["NCDT"] = "NCDS" /\ Single["NCT"] = "NCS"
      /\ Single["NCCT"] = "NCCS" /\ Single["DPCT"] = "DPCS"
  BY DEF Single
<1> HIDE DEF Single
<1> QED  BY <1>1, <1>2 DEF Singles

LEMMA RunOK ==
  ASSUME NEW u, UnitOK(u), NEW op \in Singles, NEW sf \in {0, 1}, NEW lm \in {0, 1},
         NEW v \in 0 .. 3, NEW triple
  PROVE  /\ UnitOK(Run(u, op, sf, lm, v, triple))
         /\ op # "RTPS" => Done(Run(u, op, sf, lm, v, triple), lm)
<1>1. UnitOK(Rtp(u, sf, lm, v, triple => v = 2))
  BY RtpOK, OnwardOK, Zenon
<1>2. /\ Done(Ncd(u, sf, lm, v), lm) /\ Done(Ncc(u, sf, lm, v), lm)
      /\ Done(Nc(u, sf, lm, v), lm)
  BY ColorsOK, Zenon
<1>3. Done(Dpc(u, sf, lm, IF triple THEN 20 ELSE 6), lm)
  <2>1. 20 \in 0 .. 62 /\ 6 \in 0 .. 62
    BY SMT
  <2>2. Done(Dpc(u, sf, lm, 20), lm) /\ Done(Dpc(u, sf, lm, 6), lm)
    BY <2>1, DpcOK, Zenon
  <2> QED  BY <2>2, Zenon
<1>4. CASE op = "RTPS"
  BY <1>1, <1>4 DEF Run
<1>5. op # "RTPS" => Done(Run(u, op, sf, lm, v, triple), lm)
  <2>1. CASE op = "NCDS"
    BY <1>2, <2>1 DEF Run
  <2>2. CASE op = "NCCS"
    BY <1>2, <2>2 DEF Run
  <2>3. CASE op = "NCS"
    BY <1>2, <2>3 DEF Run
  <2>4. CASE op = "DPCS"
    BY <1>3, <2>4 DEF Run
  <2> QED  BY <2>1, <2>2, <2>3, <2>4, Zenon DEF Singles
<1> QED  BY <1>4, <1>5, DoneOK, Zenon

LEMMA ThriceIs ==
  ASSUME NEW u, NEW op, NEW sf, NEW lm
  PROVE  Thrice(u, op, sf, lm)
           = Run(Run(Run(u, op, sf, lm, 0, TRUE), op, sf, lm, 1, TRUE), op, sf, lm, 2, TRUE)
<1> DEFINE a == Run(u, op, sf, lm, 0, TRUE)
           b == Run(a, op, sf, lm, 1, TRUE)
           c == Run(b, op, sf, lm, 2, TRUE)
<1>1. {Run(x, op, sf, lm, 0, TRUE) : x \in {u}} = {a}
  BY Zenon
<1>2. {Run(x, op, sf, lm, 1, TRUE) : x \in {a}} = {b}
  BY Zenon
<1>3. {Run(x, op, sf, lm, 2, TRUE) : x \in {b}} = {c}
  BY Zenon
<1>4. (CHOOSE x \in {c} : TRUE) = c
  BY Zenon
<1> QED  BY <1>1, <1>2, <1>3, <1>4, Zenon DEF Thrice

LEMMA ThriceOK ==
  ASSUME NEW u, UnitOK(u), NEW op \in Singles, NEW sf \in {0, 1}, NEW lm \in {0, 1}
  PROVE  /\ UnitOK(Thrice(u, op, sf, lm))
         /\ op # "RTPS" => Done(Thrice(u, op, sf, lm), lm)
<1>1. 0 \in 0 .. 3 /\ 1 \in 0 .. 3 /\ 2 \in 0 .. 3
  BY SMT
<1>2. UnitOK(Run(u, op, sf, lm, 0, TRUE))
  BY <1>1, RunOK, Zenon
<1>3. UnitOK(Run(Run(u, op, sf, lm, 0, TRUE), op, sf, lm, 1, TRUE))
  BY <1>1, <1>2, RunOK, Zenon
<1> DEFINE w == Run(Run(u, op, sf, lm, 0, TRUE), op, sf, lm, 1, TRUE)
<1>4. /\ UnitOK(Run(w, op, sf, lm, 2, TRUE))
      /\ op # "RTPS" => Done(Run(w, op, sf, lm, 2, TRUE), lm)
  BY <1>1, <1>3, RunOK, Zenon
<1> QED  BY <1>4, ThriceIs, Zenon
LEMMA ClearedOK == ASSUME NEW u, UnitOK(u) PROVE UnitOK([u EXCEPT !.flag = {}])
<1>1. u \in Units
  BY DEF UnitOK
<1> DEFINE f == {}
           v == [u EXCEPT !.flag = f]
<1>2. f \in SUBSET (12 .. 31) /\ FlagWord(f) = f
  BY DEF FlagWord
<1> HIDE DEF f
<1>3. v \in Units /\ v.raw = u.raw /\ v.mac = u.mac /\ v.flag = f
  BY <1>1, <1>2, SMT DEF Units
<1>4. UnitOK(v)
  BY <1>2, <1>3, Zenon DEF UnitOK
<1> QED  BY <1>4 DEF f

Fields(ins) == /\ {"op", "sf", "lm", "mx", "v", "cv"} \subseteq DOMAIN ins
               /\ ins.sf \in {0, 1} /\ ins.lm \in {0, 1}
               /\ ins.mx \in 0 .. 3 /\ ins.v \in 0 .. 3 /\ ins.cv \in 0 .. 3

Cleared(u) == [u EXCEPT !.flag = {}]
Triples == {"RTPT", "NCDT", "NCT", "NCCT", "DPCT"}
Others == {"NCLIP", "OP", "INTPL", "MVMVA", "CDP", "CC",
           "SQR", "DCPL", "AVSZ3", "AVSZ4", "GPF", "GPL"}

(* Which command an opcode stands for.                                     *)
LEMMA ExecutedIs ==
  ASSUME NEW old, NEW ins
  PROVE  LET u == Cleared(old)
             zero == [i \in 1 .. 3 |-> 0]
             mac == [i \in 1 .. 3 |-> u.mac[i] * 2^(ins.sf * Shift)]
             e == Executed(old, ins)
         IN  /\ ins.op \in Triples => e = Thrice(u, Single[ins.op], ins.sf, ins.lm)
             /\ ins.op \in Singles => e = Run(u, ins.op, ins.sf, ins.lm, 0, FALSE)
             /\ ins.op = "NCLIP" => e = Nclip(u)
             /\ ins.op = "OP" => e = Op(u, ins.sf, ins.lm)
             /\ ins.op = "INTPL" => e = Intpl(u, ins.sf, ins.lm)
             /\ ins.op = "MVMVA" => e = Mvmva(u, ins.sf, ins.mx, ins.v, ins.cv, ins.lm)
             /\ ins.op = "CDP" => e = Cdp(u, ins.sf, ins.lm)
             /\ ins.op = "CC" => e = Cc(u, ins.sf, ins.lm)
             /\ ins.op = "SQR" => e = Sqr(u, ins.sf, ins.lm)
             /\ ins.op = "DCPL" => e = Dcpl(u, ins.sf, ins.lm)
             /\ ins.op = "AVSZ3" => e = Average(u, 3)
             /\ ins.op = "AVSZ4" => e = Average(u, 4)
             /\ ins.op = "GPF" => e = Gp(u, ins.sf, ins.lm, zero)
             /\ ins.op = "GPL" => e = Gp(u, ins.sf, ins.lm, mac)
             /\ ins.op \notin Triples \cup Singles \cup Others => e = u
<1> DEFINE u == Cleared(old)
           zero == [i \in 1 .. 3 |-> 0]
           mac == [i \in 1 .. 3 |-> u.mac[i] * 2^(ins.sf * Shift)]
           e == Executed(old, ins)
           op == ins.op
<1>1. DOMAIN Single = Triples /\ {Single[o] : o \in DOMAIN Single} = Singles
  <2>1. DOMAIN Single = Triples
    BY DEF Single, Triples
  <2>2. {Single[o] : o \in DOMAIN Single} = Singles
    BY SingleIs, Zenon
  <2> QED  BY <2>1, <2>2
<1>2. e = CASE op \in Triples -> Thrice(u, Single[op], ins.sf, ins.lm)
            [] op \in Singles -> Run(u, op, ins.sf, ins.lm, 0, FALSE)
            [] op = "NCLIP" -> Nclip(u)
            [] op = "OP" -> Op(u, ins.sf, ins.lm)
            [] op = "INTPL" -> Intpl(u, ins.sf, ins.lm)
            [] op = "MVMVA" -> Mvmva(u, ins.sf, ins.mx, ins.v, ins.cv, ins.lm)
            [] op = "CDP" -> Cdp(u, ins.sf, ins.lm)
            [] op = "CC" -> Cc(u, ins.sf, ins.lm)
            [] op = "SQR" -> Sqr(u, ins.sf, ins.lm)
            [] op = "DCPL" -> Dcpl(u, ins.sf, ins.lm)
            [] op = "AVSZ3" -> Average(u, 3)
            [] op = "AVSZ4" -> Average(u, 4)
            [] op = "GPF" -> Gp(u, ins.sf, ins.lm, zero)
            [] op = "GPL" -> Gp(u, ins.sf, ins.lm, mac)
            [] OTHER -> u
  BY <1>1, Zenon DEF Executed, Cleared
<1>3. ASSUME op \in Triples PROVE e = Thrice(u, Single[op], ins.sf, ins.lm)
  <2>1. /\ op # "NCLIP" /\ op # "OP" /\ op # "INTPL" /\ op # "MVMVA"
        /\ op # "CDP" /\ op # "CC" /\ op # "SQR" /\ op # "DCPL"
        /\ op # "AVSZ3" /\ op # "AVSZ4" /\ op # "GPF" /\ op # "GPL"
        /\ op \notin Singles
    BY <1>3, SMT DEF Singles, Triples
  <2> HIDE DEF op, e, u, zero, mac
  <2> QED  BY <1>2, <1>3, <2>1, SMT
<1>4. ASSUME op \in Singles PROVE e = Run(u, op, ins.sf, ins.lm, 0, FALSE)
  <2>1. /\ op # "NCLIP" /\ op # "OP" /\ op # "INTPL" /\ op # "MVMVA"
        /\ op # "CDP" /\ op # "CC" /\ op # "SQR" /\ op # "DCPL"
        /\ op # "AVSZ3" /\ op # "AVSZ4" /\ op # "GPF" /\ op # "GPL"
        /\ op \notin Triples
    BY <1>4, SMT DEF Singles, Triples
  <2> HIDE DEF op, e, u, zero, mac
  <2> QED  BY <1>2, <1>4, <2>1, SMT
<1>5. ASSUME op = "NCLIP" PROVE e = Nclip(u)
  <2>1. op \notin Singles /\ op \notin Triples
    BY <1>5, SMT DEF Singles, Triples
  <2> HIDE DEF op, e, u, zero, mac
  <2> QED  BY <1>2, <1>5, <2>1, SMT
<1>6. ASSUME op = "OP" PROVE e = Op(u, ins.sf, ins.lm)
  <2>1. op \notin Singles /\ op \notin Triples
    BY <1>6, SMT DEF Singles, Triples
  <2> HIDE DEF op, e, u, zero, mac
  <2> QED  BY <1>2, <1>6, <2>1, SMT
<1>7. ASSUME op = "INTPL" PROVE e = Intpl(u, ins.sf, ins.lm)
  <2>1. op \notin Singles /\ op \notin Triples
    BY <1>7, SMT DEF Singles, Triples
  <2> HIDE DEF op, e, u, zero, mac
  <2> QED  BY <1>2, <1>7, <2>1, SMT
<1>8. ASSUME op = "MVMVA" PROVE e = Mvmva(u, ins.sf, ins.mx, ins.v, ins.cv, ins.lm)
  <2>1. op \notin Singles /\ op \notin Triples
    BY <1>8, SMT DEF Singles, Triples
  <2> HIDE DEF op, e, u, zero, mac
  <2> QED  BY <1>2, <1>8, <2>1, SMT
<1>9. ASSUME op = "CDP" PROVE e = Cdp(u, ins.sf, ins.lm)
  <2>1. op \notin Singles /\ op \notin Triples
    BY <1>9, SMT DEF Singles, Triples
  <2> HIDE DEF op, e, u, zero, mac
  <2> QED  BY <1>2, <1>9, <2>1, SMT
<1>10. ASSUME op = "CC" PROVE e = Cc(u, ins.sf, ins.lm)
  <2>1. op \notin Singles /\ op \notin Triples
    BY <1>10, SMT DEF Singles, Triples
  <2> HIDE DEF op, e, u, zero, mac
  <2> QED  BY <1>2, <1>10, <2>1, SMT
<1>11. ASSUME op = "SQR" PROVE e = Sqr(u, ins.sf, ins.lm)
  <2>1. op \notin Singles /\ op \notin Triples
    BY <1>11, SMT DEF Singles, Triples
  <2> HIDE DEF op, e, u, zero, mac
  <2> QED  BY <1>2, <1>11, <2>1, SMT
<1>12. ASSUME op = "DCPL" PROVE e = Dcpl(u, ins.sf, ins.lm)
  <2>1. op \notin Singles /\ op \notin Triples
    BY <1>12, SMT DEF Singles, Triples
  <2> HIDE DEF op, e, u, zero, mac
  <2> QED  BY <1>2, <1>12, <2>1, SMT
<1>13. ASSUME op = "AVSZ3" PROVE e = Average(u, 3)
  <2>1. op \notin Singles /\ op \notin Triples
    BY <1>13, SMT DEF Singles, Triples
  <2> HIDE DEF op, e, u, zero, mac
  <2> QED  BY <1>2, <1>13, <2>1, SMT
<1>14. ASSUME op = "AVSZ4" PROVE e = Average(u, 4)
  <2>1. op \notin Singles /\ op \notin Triples
    BY <1>14, SMT DEF Singles, Triples
  <2> HIDE DEF op, e, u, zero, mac
  <2> QED  BY <1>2, <1>14, <2>1, SMT
<1>15. ASSUME op = "GPF" PROVE e = Gp(u, ins.sf, ins.lm, zero)
  <2>1. op \notin Singles /\ op \notin Triples
    BY <1>15, SMT DEF Singles, Triples
  <2> HIDE DEF op, e, u, zero, mac
  <2> QED  BY <1>2, <1>15, <2>1, SMT
<1>16. ASSUME op = "GPL" PROVE e = Gp(u, ins.sf, ins.lm, mac)
  <2>1. op \notin Singles /\ op \notin Triples
    BY <1>16, SMT DEF Singles, Triples
  <2> HIDE DEF op, e, u, zero, mac
  <2> QED  BY <1>2, <1>16, <2>1, SMT
<1>17. ASSUME op \notin Triples \cup Singles \cup Others PROVE e = u
  <2>1. /\ op # "NCLIP" /\ op # "OP" /\ op # "INTPL" /\ op # "MVMVA"
        /\ op # "CDP" /\ op # "CC" /\ op # "SQR" /\ op # "DCPL"
        /\ op # "AVSZ3" /\ op # "AVSZ4" /\ op # "GPF" /\ op # "GPL"
        /\ op \notin Singles /\ op \notin Triples
    BY <1>17, SMT DEF Others
  <2> HIDE DEF op, e, u, zero, mac
  <2> QED  BY <1>2, <2>1, SMT
<1> QED  BY <1>3, <1>4, <1>5, <1>6, <1>7, <1>8, <1>9, <1>10, <1>11, <1>12, <1>13, <1>14, <1>15, <1>16, <1>17, Zenon

(* The commands that end with their results in IR, those of Saturated.     *)
Limiting == {"MVMVA", "OP", "SQR", "GPF", "GPL", "DPCS", "DPCT", "INTPL", "DCPL",
             "NCDS", "NCDT", "NCCS", "NCCT", "NCS", "NCT", "CDP", "CC"}

LEMMA ExecutedOK ==
  ASSUME NEW old, UnitOK(old), NEW ins, Fields(ins)
  PROVE  /\ UnitOK(Executed(old, ins))
         /\ ins.op \in Limiting => Done(Executed(old, ins), ins.lm)
<1> DEFINE u == Cleared(old)
           sf == ins.sf
           lm == ins.lm
           op == ins.op
           e == Executed(old, ins)
           zero == [i \in 1 .. 3 |-> 0]
           mac == [i \in 1 .. 3 |-> u.mac[i] * 2^(sf * Shift)]
<1>1. UnitOK(u)
  BY ClearedOK DEF Cleared
<1>2. sf \in {0, 1} /\ lm \in {0, 1} /\ ins.mx \in 0 .. 3 /\ ins.v \in 0 .. 3 /\ ins.cv \in 0 .. 3
  BY DEF Fields
<1> HIDE DEF u
<1>3. Vec(zero)
  BY SMT DEF Vec
<1>4. Vec(mac)
  <2>1. sf * Shift \in Nat
    BY <1>2, Widths, SMT
  <2>2. 2^(sf * Shift) \in Int
    <3>1. 2^(sf * Shift) \in Nat
      BY <2>1, PowerType
    <3> QED  BY <3>1, SMT
  <2>3. Vec(u.mac)
    BY <1>1, MacType
  <2> QED  BY <2>2, <2>3, VecScaled, Zenon
<1>5. /\ op \in Triples => e = Thrice(u, Single[op], sf, lm)
      /\ op \in Singles => e = Run(u, op, sf, lm, 0, FALSE)
      /\ op = "NCLIP" => e = Nclip(u)
      /\ op = "OP" => e = Op(u, sf, lm)
      /\ op = "INTPL" => e = Intpl(u, sf, lm)
      /\ op = "MVMVA" => e = Mvmva(u, sf, ins.mx, ins.v, ins.cv, lm)
      /\ op = "CDP" => e = Cdp(u, sf, lm)
      /\ op = "CC" => e = Cc(u, sf, lm)
      /\ op = "SQR" => e = Sqr(u, sf, lm)
      /\ op = "DCPL" => e = Dcpl(u, sf, lm)
      /\ op = "AVSZ3" => e = Average(u, 3)
      /\ op = "AVSZ4" => e = Average(u, 4)
      /\ op = "GPF" => e = Gp(u, sf, lm, zero)
      /\ op = "GPL" => e = Gp(u, sf, lm, mac)
      /\ op \notin Triples \cup Singles \cup Others => e = u
  BY ExecutedIs, Zenon DEF u
<1> SUFFICES UnitOK(e) /\ (op \in Limiting => Done(e, lm))
  OBVIOUS
<1> HIDE DEF zero, mac, sf, lm, op, e
<1>6. ASSUME Done(e, lm) PROVE UnitOK(e) /\ (op \in Limiting => Done(e, lm))
  BY <1>6, DoneOK, Zenon
<1>7. CASE op \in Triples
  <2>1. Single[op] \in Singles /\ (op \in Limiting => Single[op] # "RTPS")
    <3>1. /\ Single["RTPT"] = "RTPS" /\ Single["NCDT"] = "NCDS" /\ Single["NCT"] = "NCS"
          /\ Single["NCCT"] = "NCCS" /\ Single["DPCT"] = "DPCS"
      BY DEF Single
    <3> HIDE DEF Single
    <3> QED  BY <1>7, <3>1 DEF Triples, Singles, Limiting
  <2> QED  BY <1>1, <1>2, <1>5, <1>7, <2>1, ThriceOK, Zenon
<1>8. CASE op \in Singles
  <2>1. 0 \in 0 .. 3 /\ (op \in Limiting => op # "RTPS")
    BY SMT DEF Limiting
  <2>2. /\ UnitOK(Run(u, op, sf, lm, 0, FALSE))
        /\ op # "RTPS" => Done(Run(u, op, sf, lm, 0, FALSE), lm)
    BY <1>1, <1>2, <1>8, <2>1, RunOK, Zenon
  <2>3. e = Run(u, op, sf, lm, 0, FALSE)
    BY <1>5, <1>8, Zenon
  <2> QED  BY <2>1, <2>2, <2>3, Zenon
<1>9. CASE op = "NCLIP"
  <2>1. op \notin Limiting /\ 3 \in 3 .. 4 /\ 4 \in 3 .. 4
    BY <1>9, SMT DEF Limiting
  <2> QED  BY <1>1, <1>5, <1>9, <2>1, NclipOK, Zenon
<1>10. CASE op = "OP"
  <2>1. Done(e, lm)
    BY <1>1, <1>2, <1>5, <1>10, OpOK, Zenon
  <2> QED  BY <1>6, <2>1
<1>11. CASE op = "INTPL"
  <2>1. Done(e, lm)
    BY <1>1, <1>2, <1>5, <1>11, IntplOK, Zenon
  <2> QED  BY <1>6, <2>1
<1>12. CASE op = "MVMVA"
  <2>1. Done(Mvmva(u, sf, ins.mx, ins.v, ins.cv, lm), lm)
    BY <1>1, <1>2, MvmvaOK
  <2>2. Done(e, lm)
    BY <1>5, <1>12, <2>1, Zenon
  <2> QED  BY <1>6, <2>2
<1>13. CASE op = "CDP"
  <2>1. Done(e, lm)
    BY <1>1, <1>2, <1>5, <1>13, ColorsOK, Zenon
  <2> QED  BY <1>6, <2>1
<1>14. CASE op = "CC"
  <2>1. Done(e, lm)
    BY <1>1, <1>2, <1>5, <1>14, ColorsOK, Zenon
  <2> QED  BY <1>6, <2>1
<1>15. CASE op = "SQR"
  <2>1. Done(e, lm)
    BY <1>1, <1>2, <1>5, <1>15, SqrOK, Zenon
  <2> QED  BY <1>6, <2>1
<1>16. CASE op = "DCPL"
  <2>1. Done(e, lm)
    BY <1>1, <1>2, <1>5, <1>16, DcplOK, Zenon
  <2> QED  BY <1>6, <2>1
<1>17. CASE op = "AVSZ3"
  <2>1. op \notin Limiting /\ 3 \in 3 .. 4 /\ 4 \in 3 .. 4
    BY <1>17, SMT DEF Limiting
  <2> QED  BY <1>1, <1>5, <1>17, <2>1, AverageOK, Zenon
<1>18. CASE op = "AVSZ4"
  <2>1. op \notin Limiting /\ 3 \in 3 .. 4 /\ 4 \in 3 .. 4
    BY <1>18, SMT DEF Limiting
  <2> QED  BY <1>1, <1>5, <1>18, <2>1, AverageOK, Zenon
<1>19. CASE op = "GPF"
  <2>1. Done(e, lm)
    BY <1>1, <1>2, <1>3, <1>5, <1>19, GpOK, Zenon
  <2> QED  BY <1>6, <2>1
<1>20. CASE op = "GPL"
  <2>1. Done(e, lm)
    BY <1>1, <1>2, <1>4, <1>5, <1>20, GpOK, Zenon
  <2> QED  BY <1>6, <2>1
<1>21. CASE op \notin Triples \cup Singles \cup Others
  <2>1. op \notin Limiting
    BY <1>21, SMT DEF Limiting, Triples, Singles, Others
  <2> QED  BY <1>1, <1>5, <1>21, <2>1, Zenon
<1>22. op \in Others => op \in {"NCLIP", "OP", "INTPL", "MVMVA", "CDP", "CC",
                              "SQR", "DCPL", "AVSZ3", "AVSZ4", "GPF", "GPL"}
  BY DEF Others
<1>23. UnitOK(e) /\ (op \in Limiting => Done(e, lm))
  BY <1>7, <1>8, <1>9, <1>10, <1>11, <1>12, <1>13, <1>14, <1>15, <1>16, <1>17, <1>18, <1>19, <1>20, <1>21, <1>22, SMT
<1> QED  BY <1>23

-----------------------------------------------------------------------------
(* What a read leaves behind.                                              *)
LEMMA OfIRType == ASSUME NEW u, UnitOK(u) PROVE OfIR(u) \in 0 .. 2^Half - 1
<1> DEFINE C == 2^Rgb
           c(i) == Clamp(Sar(Signed(u.raw[8 + i], Word), Shift - Rgb), 0, C - 1)
           a1 == c(1)
           a2 == c(2)
           a3 == c(3)
<1>1. /\ Rgb \in Nat /\ Rgb + Rgb \in Nat /\ (Rgb + Rgb) + Rgb \in Nat /\ Shift - Rgb \in Nat
      /\ 2 * Rgb = Rgb + Rgb /\ 3 * Rgb = (Rgb + Rgb) + Rgb /\ (Rgb + Rgb) + Rgb <= Half
      /\ Half \in Nat
  BY Widths, SMT
<1>2. C \in Nat /\ C > 0
  BY <1>1, PowerType
<1>3. 2^(2 * Rgb) = C * C /\ 2^(3 * Rgb) = (C * C) * C
  BY <1>1, PowerSum, Zenon
<1>4. \A i \in 1 .. 3 : c(i) \in 0 .. C - 1
  <2> SUFFICES ASSUME NEW i \in 1 .. 3 PROVE c(i) \in 0 .. C - 1
    OBVIOUS
  <2>1. 8 + i \in 0 .. 62
    BY SMT
  <2> DEFINE y == Sar(Signed(u.raw[8 + i], Word), Shift - Rgb)
  <2>2. y \in Int
    BY <1>1, <2>1, RegType, SarType
  <2>3. 0 \in Int /\ C - 1 \in Int /\ 0 <= C - 1
    BY <1>2, SMT
  <2> HIDE DEF C, y
  <2>4. Clamp(y, 0, C - 1) \in 0 .. C - 1
    BY <2>2, <2>3, ClampRange
  <2> QED  BY <2>4 DEF y
<1>5. a1 \in 0 .. C - 1 /\ a2 \in 0 .. C - 1 /\ a3 \in 0 .. C - 1
  BY <1>4, OneTwoThree, Zenon
<1>6. OfIR(u) = a1 + a2 * C + a3 * (C * C)
  BY <1>3, Zenon DEF OfIR
<1> HIDE DEF C, a1, a2, a3
<1>7. C * C \in Nat
  BY <1>2, SMT
<1>8. a1 + a2 * C \in 0 .. C * C - 1
  BY <1>2, <1>5, Pack, Zenon
<1>9. (a1 + a2 * C) + a3 * (C * C) \in 0 .. (C * C) * C - 1
  BY <1>2, <1>5, <1>7, <1>8, Pack, Zenon
<1>10. (C * C) * C <= 2^Half /\ 2^Half \in Nat
  BY <1>1, <1>3, PowerUp, PowerType, Zenon
<1> DEFINE x == a1 + a2 * C + a3 * (C * C)
           D == (C * C) * C
<1>11. x \in 0 .. D - 1 /\ D \in Nat /\ D <= 2^Half
  BY <1>2, <1>7, <1>9, <1>10, SMT
<1> HIDE DEF x, D
<1>12. x \in 0 .. 2^Half - 1
  BY <1>10, <1>11, SMT
<1> QED  BY <1>6, <1>12 DEF x

(* The number of leading bits exists, and is small.                        *)
LEMMA WordFits == Word \in Words
<1> DEFINE T == {n \in Nat : ~(n < 2^n)}
<1>1. SUFFICES ASSUME T # {} PROVE FALSE
  <2>1. \A n \in Nat : n < 2^n
    BY <1>1
  <2>2. Word < 2^Word /\ Word \in Nat /\ 2^Word \in Nat
    BY <2>1, Widths, Powers
  <2> QED  BY <2>2, SMT DEF Words
<1>2. PICK n \in T : \A m \in Nat : m < n => m \notin T
  BY <1>1, Least0, Zenon
<1>3. n \in Nat /\ ~(n < 2^n)
  BY <1>2
<1>4. n # 0
  BY <1>3, PowerType, SMT
<1>5. n - 1 \in Nat /\ n - 1 < n /\ n - 1 + 1 = n
  BY <1>3, <1>4, SMT
<1>6. n - 1 < 2^(n - 1)
  BY <1>2, <1>5, Zenon
<1>7. 2^n = 2 * 2^(n - 1) /\ 2^(n - 1) \in Nat
  BY <1>5, PowerNext, PowerType, Zenon
<1> QED  BY <1>3, <1>4, <1>6, <1>7, SMT

LEMMA LeadingBitsType ==
  ASSUME NEW x \in Words
  PROVE  LeadingBits(x) \in 0 .. Word
<1> DEFINE y == IF x >= 2^(Word - 1) THEN 2^Word - 1 - x ELSE x
           P(z) == 2^(Word - z) > y /\ (z = Word \/ 2^(Word - z - 1) <= y)
           T == {n \in Nat : 2^n > y}
<1>1. y \in Nat /\ y < 2^Word /\ Word \in Nat /\ Word > 0
  BY Widths, Powers, SMT DEF Words
<1>2. T # {}
  BY <1>1, Powers
<1>3. PICK n \in T : \A m \in Nat : m < n => m \notin T
  BY <1>2, Least0, Zenon
<1>4. n \in Nat /\ 2^n > y
  BY <1>3
<1>5. n <= Word
  <2>1. Word \in T
    BY <1>1
  <2>2. ~(Word < n)
    BY <1>1, <1>3, <2>1, Zenon
  <2> QED  BY <1>1, <1>4, <2>2, SMT
<1> DEFINE z == Word - n
<1>6. z \in 0 .. Word /\ Word - z = n /\ Word - z - 1 = n - 1
  BY <1>1, <1>4, <1>5, SMT
<1>7. z = Word \/ 2^(n - 1) <= y
  <2>1. CASE n = 0
    BY <1>1, <2>1, SMT
  <2>2. CASE n # 0
    <3>1. n - 1 \in Nat /\ n - 1 < n
      BY <1>4, <2>2, SMT
    <3>2. n - 1 \notin T
      BY <1>3, <3>1, Zenon
    <3>3. ~(2^(n - 1) > y) /\ 2^(n - 1) \in Nat
      BY <3>1, <3>2, PowerType
    <3> QED  BY <1>1, <3>3, SMT
  <2> QED  BY <2>1, <2>2
<1>8. \E w \in 0 .. Word : P(w)
  <2> HIDE DEF z, y
  <2> QED  BY <1>4, <1>6, <1>7, Zenon
<1>9. LeadingBits(x) = CHOOSE w \in 0 .. Word : P(w)
  BY Zenon DEF LeadingBits
<1> HIDE DEF P
<1> QED  BY <1>8, <1>9, Zenon

LEMMA RefreshedOK ==
  ASSUME NEW u, UnitOK(u), NEW i \in 0 .. 63
  PROVE  UnitOK(Refreshed(u, i))
<1>1. CASE i \in {28, 29}
  <2> DEFINE x == OfIR(u)
  <2>1. Refreshed(u, i) = [u EXCEPT !.raw[28] = x, !.raw[29] = x]
    <3>1. i # 31
      BY <1>1, SMT
    <3> QED  BY <1>1, <3>1, SMT DEF Refreshed
  <2>2. x \in 0 .. 2^Half - 1
    BY OfIRType
  <2> HIDE DEF x
  <2>3. /\ 28 \in Unsigned16 /\ 29 \in Unsigned16 /\ 28 \in 0 .. 62 /\ 29 \in 0 .. 62
        /\ 28 \notin 24 .. 27 /\ 29 \notin 24 .. 27
    BY SMT DEF Unsigned16
  <2>4. RegOK(28, x) /\ RegOK(29, x)
    BY <2>2, <2>3, UnsignedOK, Zenon
  <2>5. UnitOK(Put(u, 28, x))
    BY <2>3, <2>4, PutOK, Zenon
  <2>6. UnitOK(Put(Put(u, 28, x), 29, x))
    BY <2>3, <2>4, <2>5, PutOK, Zenon
  <2>7. u \in Units /\ x \in Words
    BY <2>4 DEF UnitOK, RegOK
  <2>8. [u EXCEPT !.raw[28] = x, !.raw[29] = x] = Put(Put(u, 28, x), 29, x)
    BY <2>7, SMT DEF Put, Units
  <2> QED  BY <2>1, <2>6, <2>8, Zenon
<1>2. CASE i = 31
  <2> DEFINE x == LeadingBits(u.raw[30])
  <2>1. Refreshed(u, i) = Put(u, 31, x)
    <3>1. i \notin {28, 29}
      BY <1>2, SMT
    <3> QED  BY <1>2, <3>1, SMT DEF Refreshed, Put
  <2>2. 30 \in 0 .. 62 /\ 31 \in 0 .. 62 /\ 31 \notin 24 .. 27 /\ 31 \notin Signed16 /\ 31 \notin Unsigned16
    BY SMT DEF Signed16, Unsigned16
  <2>3. x \in 0 .. Word
    BY <2>2, RegType, LeadingBitsType
  <2> HIDE DEF x
  <2>4. x \in Words
    BY <2>3, WordFits, Widths, Powers, SMT DEF Words
  <2> QED  BY <2>1, <2>2, <2>4, PlainOK, PutOK, Zenon
<1>3. CASE i \notin {28, 29, 31}
  <2>1. Refreshed(u, i) = u
    BY <1>3, SMT DEF Refreshed
  <2> QED  BY <2>1, Zenon
<1> QED  BY <1>1, <1>2, <1>3, Zenon
-----------------------------------------------------------------------------
(* The unit at the start, and the unit after a restore.                    *)
LEMMA BlankOK == UnitOK(Blank)
<1> DEFINE r == [i \in 0 .. 62 |-> 0]
           m == [i \in 0 .. 3 |-> 0]
           f == {}
<1>1. 0 \in Words /\ 0 \in 0 .. 2^(Half - 1) - 1 /\ 0 \in 0 .. 2^Half - 1
  BY Powers, SMT DEF Words
<1>2. \A i \in 0 .. 62 : RegOK(i, 0)
  BY <1>1, PlainOK, UnsignedOK, SmallOK, Zenon
<1>3. \A i \in 0 .. 3 : MacOK(i, 0, 0)
  <2>1. ASSUME NEW i \in 0 .. 3 PROVE 0 \in Numbers(Bits(i))
    <3>1. 2^(Bits(i) - 1) \in Nat /\ 2^(Bits(i) - 1) > 0
      BY BitsAre, HalfPower, Zenon
    <3> QED  BY <3>1, SMT DEF Numbers
  <2>2. 0 = Low(0, Word)
    BY <1>1, LowSame, Widths DEF Words
  <2> QED  BY <2>1, <2>2, Zenon DEF MacOK
<1>4. \A i \in 0 .. 3 : 24 + i \in 0 .. 62
  BY SMT
<1>5. r \in [0 .. 62 -> Words] /\ m \in [0 .. 3 -> Int]
  BY <1>1, SMT
<1>6. f \in SUBSET (12 .. 31) /\ f = FlagWord(f)
  BY DEF FlagWord
<1>7. \A i \in 0 .. 62 : RegOK(i, r[i])
  BY <1>2, Zenon
<1>8. \A i \in 0 .. 3 : MacOK(i, m[i], r[24 + i])
  BY <1>3, <1>4, Zenon
<1>9. Blank = [raw |-> r, mac |-> m, flag |-> f]
  BY Zenon DEF Blank
<1> HIDE DEF r, m, f
<1>10. /\ [raw |-> r, mac |-> m, flag |-> f].raw = r
       /\ [raw |-> r, mac |-> m, flag |-> f].mac = m
       /\ [raw |-> r, mac |-> m, flag |-> f].flag = f
       /\ [raw |-> r, mac |-> m, flag |-> f] \in Units
  BY <1>5, <1>6, SMT DEF Units
<1> QED  BY <1>6, <1>7, <1>8, <1>9, <1>10, Zenon DEF UnitOK

LEMMA RestoredOK ==
  ASSUME NEW u, UnitOK(u), NEW w, \A i \in 0 .. 62 : w[i] \in Words
  PROVE  UnitOK(Restored(u, w))
<1> DEFINE one(i) == Write(u, i, w[i])
           r == [i \in 0 .. 62 |-> IF i \in {15, 28} THEN u.raw[i] ELSE one(i).raw[i]]
           m == [i \in 0 .. 3 |-> one(24 + i).mac[i]]
           f == one(63).flag
<1>1. \A i \in 0 .. 63 : UnitOK(one(i))
  <2>1. \A i \in 0 .. 63 : i # 63 => i \in 0 .. 62
    BY SMT
  <2> QED  BY <2>1, WriteOK
<1>2. Restored(u, w) = [raw |-> r, mac |-> m, flag |-> f]
  BY Zenon DEF Restored
<1> HIDE DEF one
<1>3. \A i \in 0 .. 62 : RegOK(i, r[i])
  <2>1. \A i \in 0 .. 62 : i \in 0 .. 63
    BY SMT
  <2>2. \A i \in 0 .. 62 : RegOK(i, u.raw[i]) /\ RegOK(i, one(i).raw[i])
    BY <1>1, <2>1, Zenon DEF UnitOK
  <2> QED  BY <2>2, Zenon
<1>4. \A i \in 0 .. 3 : MacOK(i, m[i], r[24 + i])
  <2>1. \A i \in 0 .. 3 : 24 + i \in 0 .. 62 /\ 24 + i \in 0 .. 63 /\ 24 + i \notin {15, 28}
    BY SMT
  <2>2. \A i \in 0 .. 3 : MacOK(i, one(24 + i).mac[i], one(24 + i).raw[24 + i])
    BY <1>1, <2>1, Zenon DEF UnitOK
  <2> QED  BY <2>1, <2>2, Zenon
<1>5. f \in SUBSET (12 .. 31) /\ f = FlagWord(f)
  <2>1. UnitOK(one(63))
    BY <1>1, SMT
  <2> DEFINE v == one(63)
  <2> HIDE DEF v
  <2>2. v \in Units /\ v.flag = FlagWord(v.flag)
    BY <2>1 DEF UnitOK, v
  <2>3. v.flag \in SUBSET (12 .. 31)
    BY <2>2, SMT DEF Units
  <2> QED  BY <2>2, <2>3 DEF v
<1>6. r \in [0 .. 62 -> Words]
  BY <1>3, Zenon DEF RegOK
<1>7. m \in [0 .. 3 -> Int]
  <2>1. ASSUME NEW i \in 0 .. 3 PROVE m[i] \in Int
    <3>1. m[i] \in Numbers(Bits(i))
      BY <1>4, Zenon DEF MacOK
    <3>2. 2^(Bits(i) - 1) \in Nat
      BY BitsAre, HalfPower, Zenon
    <3> HIDE DEF m
    <3> QED  BY <3>1, <3>2, SMT DEF Numbers
  <2> QED  BY <2>1, Zenon
<1> HIDE DEF r, m, f
<1>8. /\ [raw |-> r, mac |-> m, flag |-> f].raw = r
      /\ [raw |-> r, mac |-> m, flag |-> f].mac = m
      /\ [raw |-> r, mac |-> m, flag |-> f].flag = f
      /\ [raw |-> r, mac |-> m, flag |-> f] \in Units
  BY <1>5, <1>6, <1>7, SMT DEF Units
<1> QED  BY <1>2, <1>3, <1>4, <1>5, <1>8, Zenon DEF UnitOK

-----------------------------------------------------------------------------
(* The invariant: the unit is well formed, and so is the command counted   *)
(* down, on whose fields the operands of its execution depend.             *)
GTEInv ==
  /\ UnitOK(m_regs)
  /\ m_instr_inflight \in BOOLEAN /\ m_instr_rem_cycles \in 0 .. Counter - 1
  /\ Fields(m_instr_val)

LEMMA InstrType ==
  ASSUME NEW ins \in Instrs
  PROVE  Fields(ins) /\ Cycles[ins.op] \in 0 .. Counter - 1
BY InputAssumption, Zenon DEF Fields

LEMMA CounterType == Counter \in Nat /\ Counter > 0
BY WidthAssumption

LEMMA GTEInit == Init => GTEInv
<1> SUFFICES ASSUME Init PROVE GTEInv
  OBVIOUS
<1>1. PICK b \in Backgrounds : m_regs = Restored(Blank, b)
  BY DEF Init
<1>2. \A i \in 0 .. 62 : b[i] \in Words
  BY InputAssumption, Zenon DEF Words
<1>3. UnitOK(m_regs)
  BY <1>1, <1>2, BlankOK, RestoredOK, Zenon
<1>4. Fields(m_instr_val)
  <2>1. m_instr_val \in Instrs
    BY InputAssumption, Zenon DEF Init
  <2> QED  BY <2>1, InstrType, Zenon
<1>5. 0 \in 0 .. Counter - 1
  BY CounterType, SMT
<1> QED  BY <1>3, <1>4, <1>5, Zenon DEF Init, GTEInv

LEMMA GTEStep == GTEInv /\ [Next]_vars => GTEInv'
<1> SUFFICES ASSUME GTEInv, [Next]_vars PROVE GTEInv'
  OBVIOUS
<1>1. CASE Tick
  <2>1. (m_instr_rem_cycles - 1) % Counter \in 0 .. Counter - 1
    <3>1. m_instr_rem_cycles - 1 \in Int
      BY CounterType, SMT DEF GTEInv
    <3> QED  BY <3>1, CounterType, Division, Zenon
  <2>2. UnitOK(m_regs')
    <3>1. UnitOK(m_regs) /\ UnitOK(Executed(m_regs, m_instr_val))
      BY ExecutedOK, Zenon DEF GTEInv
    <3>2. m_regs' = IF m_instr_inflight' THEN m_regs ELSE Executed(m_regs, m_instr_val)
      BY <1>1 DEF Tick
    <3> QED  BY <3>1, <3>2, Zenon
  <2>3. m_instr_inflight' \in BOOLEAN /\ m_instr_val' = m_instr_val
    BY <1>1 DEF Tick
  <2> QED  BY <1>1, <2>1, <2>2, <2>3, Zenon DEF GTEInv, Tick
<1>2. ASSUME NEW w \in Writes, To(w[1], w[2]) PROVE GTEInv'
  <2>1. w[1] \in 0 .. 63 /\ (w[1] # 63 => w[2] \in Words)
    BY InputAssumption, Zenon DEF Words
  <2>2. UnitOK(Write(m_regs, w[1], w[2]))
    BY <2>1, WriteOK, Zenon DEF GTEInv
  <2> QED  BY <1>2, <2>2, Zenon DEF To, GTEInv
<1>3. ASSUME NEW i \in 0 .. 63, From(i) PROVE GTEInv'
  <2>1. UnitOK(Refreshed(m_regs, i))
    BY RefreshedOK, Zenon DEF GTEInv
  <2> QED  BY <1>3, <2>1, Zenon DEF From, GTEInv
<1>4. ASSUME NEW ins \in Instrs, Cmd(ins) PROVE GTEInv'
  <2>1. Fields(ins) /\ Cycles[ins.op] \in 0 .. Counter - 1
    BY InstrType
  <2> QED  BY <1>4, <2>1, Zenon DEF Cmd, GTEInv
<1>5. CASE UNCHANGED vars
  BY <1>5, Zenon DEF vars, GTEInv
<1> QED  BY <1>1, <1>2, <1>3, <1>4, <1>5, Zenon DEF Next

LEMMA GTEInvType == GTEInv => GTETypeOK
<1> SUFFICES ASSUME GTEInv PROVE GTETypeOK
  OBVIOUS
<1>1. \A i \in 0 .. 62 : RegOK(i, m_regs.raw[i])
  BY Zenon DEF GTEInv, UnitOK
<1>2. \A i \in 0 .. 3 : MacOK(i, m_regs.mac[i], m_regs.raw[24 + i])
  BY Zenon DEF GTEInv, UnitOK
<1>3. /\ \A i \in Signed16 : i \in 0 .. 62
      /\ \A i \in Unsigned16 : i \in 0 .. 62
  BY SMT DEF Signed16, Unsigned16
<1>4. \A i \in 0 .. 62 : m_regs.raw[i] \in 0 .. 2^Word - 1
  BY <1>1, Zenon DEF RegOK, Words
<1>5. \A i \in Signed16 : m_regs.raw[i] = Low(Signed(m_regs.raw[i], Half), Word)
  BY <1>1, <1>3, Zenon DEF RegOK
<1>6. \A i \in Unsigned16 : m_regs.raw[i] < 2^Half
  BY <1>1, <1>3, Zenon DEF RegOK
<1>7. ASSUME NEW i \in 0 .. 3
      PROVE /\ m_regs.mac[i] = Signed(m_regs.mac[i], IF i = 0 THEN Mac0Bits ELSE MacBits)
            /\ m_regs.raw[24 + i] = Low(m_regs.mac[i], Word)
  <2>1. m_regs.mac[i] \in Numbers(Bits(i)) /\ m_regs.raw[24 + i] = Low(m_regs.mac[i], Word)
    BY <1>2, Zenon DEF MacOK
  <2>2. Signed(m_regs.mac[i], Bits(i)) = m_regs.mac[i]
    BY <2>1, BitsAre, SignedSame, Zenon
  <2> QED  BY <2>1, <2>2, Zenon DEF Bits
<1>8. m_regs.flag = FlagWord(m_regs.flag)
  BY Zenon DEF GTEInv, UnitOK
<1> QED  BY <1>4, <1>5, <1>6, <1>7, <1>8, Zenon DEF GTETypeOK, GTEInv

(* In every reachable state every register holds a value of its width and  *)
(* sign, every accumulator no more than its bits, MACi is the low word of  *)
(* accumulator i and the summary bit of FLAG follows the error bits: for   *)
(* every width of the unit, every command of GTE.cpp and any value its     *)
(* registers are loaded with.                                              *)
THEOREM GTETypeCorrect == GTESpec => []GTETypeOK
<1>1. GTEInv /\ [Next]_vars => GTEInv'
  BY GTEStep
<1> QED  BY GTEInit, <1>1, GTEInvType, PTL DEF GTESpec
-----------------------------------------------------------------------------
(* What is read of a unit that is well formed.                             *)
LEMMA ReadIs ==
  ASSUME NEW u, UnitOK(u)
  PROVE  /\ Read(u, 63) = u.flag /\ Read(u, 15) = u.raw[14]
         /\ Read(u, 28) = OfIR(u) /\ Read(u, 29) = OfIR(u)
         /\ Read(u, 31) = LeadingBits(u.raw[30])
         /\ \A i \in (0 .. 62) \ {15, 28, 29, 31} : Read(u, i) = u.raw[i]
<1>1. u \in Units
  BY DEF UnitOK
<1>2. /\ \A i \in 0 .. 63 : i \notin {28, 29, 31} => Refreshed(u, i) = u
      /\ Refreshed(u, 31) = Put(u, 31, LeadingBits(u.raw[30]))
      /\ \A i \in {28, 29} : Refreshed(u, i) = [u EXCEPT !.raw[28] = OfIR(u), !.raw[29] = OfIR(u)]
  BY SMT DEF Refreshed, Put
<1>3. Read(u, 63) = u.flag
  BY SMT DEF Read, Signed16, Unsigned16
<1>4. Read(u, 15) = u.raw[14]
  <2>1. Read(u, 15) = Refreshed(u, 15).raw[14]
    BY SMT DEF Read, Signed16, Unsigned16
  <2>2. Refreshed(u, 15) = u
    BY <1>2, SMT
  <2> QED  BY <2>1, <2>2, Zenon
<1>5. Read(u, 31) = LeadingBits(u.raw[30])
  <2> DEFINE x == LeadingBits(u.raw[30])
  <2>1. Read(u, 31) = Refreshed(u, 31).raw[31]
    BY SMT DEF Read, Signed16, Unsigned16
  <2>2. Refreshed(u, 31) = Put(u, 31, x)
    BY <1>2, Zenon
  <2> HIDE DEF x
  <2>3. Put(u, 31, x).raw[31] = x
    BY <1>1, SMT DEF Put, Units
  <2> QED  BY <2>1, <2>2, <2>3, Zenon DEF x
<1>6. ASSUME NEW i \in {28, 29} PROVE Read(u, i) = OfIR(u)
  <2> DEFINE x == OfIR(u)
             v == [u EXCEPT !.raw[28] = x, !.raw[29] = x]
  <2>1. i # 63 /\ i # 15 /\ i \in Unsigned16 /\ i \notin Signed16
    BY SMT DEF Signed16, Unsigned16
  <2>2. Read(u, i) = Low(Refreshed(u, i).raw[i], Half)
    BY <2>1, SMT DEF Read
  <2>3. Refreshed(u, i) = v
    BY <1>2, Zenon
  <2>4. x \in 0 .. 2^Half - 1
    BY OfIRType
  <2> HIDE DEF x
  <2>5. v.raw[i] = x
    BY <1>1, SMT DEF Units
  <2>6. Low(x, Half) = x
    BY <2>4, LowSame, Widths
  <2> QED  BY <2>2, <2>3, <2>5, <2>6, Zenon DEF x
<1>7. ASSUME NEW i \in (0 .. 62) \ {15, 28, 29, 31} PROVE Read(u, i) = u.raw[i]
  <2>1. i \in 0 .. 62 /\ i # 63 /\ i # 15 /\ Refreshed(u, i) = u
    BY <1>2, SMT
  <2>2. RegOK(i, u.raw[i])
    BY <2>1, Zenon DEF UnitOK
  <2>3. CASE i \in Unsigned16
    <3>1. i \notin Signed16
      BY <2>3, SMT DEF Signed16, Unsigned16
    <3>2. Read(u, i) = Low(u.raw[i], Half)
      BY <2>1, <2>3, <3>1, SMT DEF Read
    <3>3. u.raw[i] \in 0 .. 2^Half - 1
      BY <2>2, <2>3, Powers, SMT DEF RegOK, Words
    <3>4. Low(u.raw[i], Half) = u.raw[i]
      BY <3>3, LowSame, Widths, Zenon
    <3> QED  BY <3>2, <3>4
  <2>4. CASE i \in Signed16
    <3>1. i \notin Unsigned16
      BY <2>4, SMT DEF Signed16, Unsigned16
    <3>2. Read(u, i) = Low(Signed(u.raw[i], Half), Word)
      BY <2>1, <2>4, <3>1, SMT DEF Read
    <3> QED  BY <2>2, <2>4, <3>2, Zenon DEF RegOK
  <2>5. CASE i \notin Signed16 /\ i \notin Unsigned16
    BY <2>1, <2>5, SMT DEF Read
  <2> QED  BY <2>3, <2>4, <2>5, Zenon
<1>8. Read(u, 28) = OfIR(u) /\ Read(u, 29) = OfIR(u)
  BY <1>6
<1> QED  BY <1>3, <1>4, <1>5, <1>7, <1>8, Zenon

LEMMA ReadOK ==
  ASSUME NEW u, UnitOK(u), NEW i \in 0 .. 62
  PROVE  RegOK(i, Read(u, i))
<1>1. CASE i = 15
  <2>1. 14 \in 0 .. 62 /\ 15 \notin Signed16 /\ 15 \notin Unsigned16
    BY SMT DEF Signed16, Unsigned16
  <2>2. u.raw[14] \in Words
    BY <2>1, RegType, Zenon
  <2>3. RegOK(i, u.raw[14])
    BY <1>1, <2>1, <2>2 DEF RegOK
  <2> QED  BY <1>1, <2>3, ReadIs, Zenon
<1>2. CASE i \in {28, 29}
  <2>1. i \in Unsigned16
    BY <1>2, SMT DEF Unsigned16
  <2>2. RegOK(i, OfIR(u))
    BY <2>1, OfIRType, UnsignedOK, Zenon
  <2>3. Read(u, i) = OfIR(u)
    BY <1>2, ReadIs
  <2> QED  BY <2>2, <2>3, Zenon
<1>3. CASE i = 31
  <2>1. 30 \in 0 .. 62 /\ i \notin Signed16 /\ i \notin Unsigned16
    BY <1>3, SMT DEF Signed16, Unsigned16
  <2>2. LeadingBits(u.raw[30]) \in 0 .. Word
    BY <2>1, RegType, LeadingBitsType, Zenon
  <2>3. LeadingBits(u.raw[30]) \in Words
    BY <2>2, WordFits, Widths, Powers, SMT DEF Words
  <2>4. RegOK(i, LeadingBits(u.raw[30]))
    BY <2>1, <2>3, PlainOK, Zenon
  <2> QED  BY <1>3, <2>4, ReadIs, Zenon
<1>4. CASE i \notin {15, 28, 29, 31}
  <2>1. RegOK(i, u.raw[i])
    BY Zenon DEF UnitOK
  <2>2. Read(u, i) = u.raw[i]
    BY <1>4, ReadIs
  <2> QED  BY <2>1, <2>2, Zenon
<1> QED  BY <1>1, <1>2, <1>3, <1>4, Zenon

(* A register holds what is written to it, when it is what it can hold.    *)
LEMMA WriteIs ==
  ASSUME NEW u \in Units, NEW i \in (0 .. 62) \ {15, 28}, NEW x, RegOK(i, x)
  PROVE  Write(u, i, x).raw[i] = x
<1>1. i \in 0 .. 62 /\ i # 15 /\ i # 28 /\ i # 63 /\ x \in Words
  BY SMT DEF RegOK
<1>2. CASE i \in Unsigned16
  <2>1. i \in Unsigned16 \ {28} /\ i \notin Signed16 /\ i \notin 24 .. 27
    BY <1>1, <1>2, SMT DEF Signed16, Unsigned16
  <2>2. Write(u, i, x) = Put(u, i, Low(x, Half))
    BY <1>1, <2>1, SMT DEF Write, Put
  <2>3. x \in 0 .. 2^Half - 1
    BY <1>2, Powers, SMT DEF RegOK, Words
  <2>4. Low(x, Half) = x
    BY <2>3, LowSame, Widths
  <2>5. Put(u, i, x).raw[i] = x
    BY <1>1, SMT DEF Put, Units
  <2> QED  BY <2>2, <2>4, <2>5, Zenon
<1>3. CASE i \in Signed16
  <2>1. i \notin Unsigned16 /\ i \notin 24 .. 27
    BY <1>3, SMT DEF Signed16, Unsigned16
  <2>2. Write(u, i, x) = Put(u, i, Low(Signed(x, Half), Word))
    BY <1>1, <1>3, <2>1, SMT DEF Write, Put
  <2>3. Low(Signed(x, Half), Word) = x
    BY <1>3 DEF RegOK
  <2>4. Put(u, i, x).raw[i] = x
    BY <1>1, SMT DEF Put, Units
  <2> QED  BY <2>2, <2>3, <2>4, Zenon
<1>4. CASE i \in 24 .. 27
  <2> DEFINE j == i - 24
             y == Signed(x, Word)
  <2>1. i \notin Unsigned16 /\ i \notin Signed16
    BY <1>4, SMT DEF Signed16, Unsigned16
  <2>2. Write(u, i, x) = [u EXCEPT !.raw[i] = x, !.mac[j] = y]
    BY <1>1, <1>4, <2>1, SMT DEF Write
  <2> HIDE DEF j, y
  <2>3. [u EXCEPT !.raw[i] = x, !.mac[j] = y].raw[i] = x
    BY <1>1, SMT DEF Units
  <2> QED  BY <2>2, <2>3, Zenon
<1>5. CASE i \notin Signed16 /\ i \notin Unsigned16 /\ i \notin 24 .. 27
  <2>1. Write(u, i, x) = Put(u, i, x)
    BY <1>1, <1>5, SMT DEF Write, Put
  <2>2. Put(u, i, x).raw[i] = x
    BY <1>1, SMT DEF Put, Units
  <2> QED  BY <2>1, <2>2, Zenon
<1> QED  BY <1>2, <1>3, <1>4, <1>5, Zenon

LEMMA WriteFlagIs == ASSUME NEW u \in Units, NEW x PROVE Write(u, 63, x).flag = FlagWord(x)
<1> DEFINE f == FlagWord(x)
<1>1. Write(u, 63, x) = [u EXCEPT !.flag = f]
  BY SMT DEF Write, Signed16, Unsigned16
<1> HIDE DEF f
<1>2. [u EXCEPT !.flag = f].flag = f
  BY SMT DEF Units
<1> QED  BY <1>1, <1>2, Zenon DEF f

LEMMA RestoredReads ==
  ASSUME NEW u, UnitOK(u), NEW v, UnitOK(v)
  PROVE  Snapshot(Restored(v, Snapshot(u))) = Snapshot(u)
<1> DEFINE w == Snapshot(u)
           r == Restored(v, w)
<1>1. \A i \in 0 .. 63 : w[i] = Read(u, i)
  BY Zenon DEF Snapshot
<1>2. \A i \in 0 .. 62 : i \in 0 .. 63 /\ RegOK(i, w[i]) /\ w[i] \in Words
  <2>1. \A i \in 0 .. 62 : i \in 0 .. 63
    BY SMT
  <2>2. \A i \in 0 .. 62 : RegOK(i, Read(u, i))
    BY ReadOK
  <2> QED  BY <1>1, <2>1, <2>2, Zenon DEF RegOK
<1> HIDE DEF w
<1>3. UnitOK(r)
  BY <1>2, RestoredOK
<1>4. v \in Units
  BY DEF UnitOK
<1>5. \A i \in (0 .. 62) \ {15, 28} : r.raw[i] = w[i]
  <2> SUFFICES ASSUME NEW i \in (0 .. 62) \ {15, 28} PROVE r.raw[i] = w[i]
    OBVIOUS
  <2>1. Write(v, i, w[i]).raw[i] = w[i]
    BY <1>2, <1>4, WriteIs
  <2>2. r.raw = [j \in 0 .. 62 |-> IF j \in {15, 28} THEN v.raw[j] ELSE Write(v, j, w[j]).raw[j]]
    BY DEF Restored
  <2> HIDE DEF r
  <2> QED  BY <2>1, <2>2, Zenon
<1>6. r.flag = FlagWord(w[63])
  <2>1. r.flag = Write(v, 63, w[63]).flag
    BY DEF Restored
  <2> HIDE DEF r
  <2> QED  BY <1>4, <2>1, WriteFlagIs
<1> HIDE DEF r
<1>7. \A i \in (0 .. 62) \ {15, 28, 29, 31} : r.raw[i] = u.raw[i]
  <2>1. \A i \in (0 .. 62) \ {15, 28, 29, 31} : i \in (0 .. 62) \ {15, 28} /\ i \in 0 .. 63
    BY SMT
  <2>2. \A i \in (0 .. 62) \ {15, 28, 29, 31} : Read(u, i) = u.raw[i]
    BY ReadIs
  <2> QED  BY <1>1, <1>5, <2>1, <2>2, Zenon
<1>8. OfIR(r) = OfIR(u)
  <2>1. \A i \in 1 .. 3 : 8 + i \in (0 .. 62) \ {15, 28, 29, 31}
    BY SMT
  <2>2. r.raw[8 + 1] = u.raw[8 + 1] /\ r.raw[8 + 2] = u.raw[8 + 2] /\ r.raw[8 + 3] = u.raw[8 + 3]
    BY <1>7, <2>1, OneTwoThree, Zenon
  <2> QED  BY <2>2, Zenon DEF OfIR
<1>9. r.raw[14] = u.raw[14] /\ r.raw[30] = u.raw[30]
  <2>1. 14 \in (0 .. 62) \ {15, 28, 29, 31} /\ 30 \in (0 .. 62) \ {15, 28, 29, 31}
    BY SMT
  <2> QED  BY <1>7, <2>1, Zenon
<1>10. r.flag = u.flag
  <2>1. 63 \in 0 .. 63
    BY SMT
  <2>2. w[63] = u.flag
    BY <1>1, <2>1, ReadIs, Zenon
  <2> QED  BY <1>6, <2>2, Zenon DEF UnitOK
<1>11. \A i \in 0 .. 63 : Read(r, i) = Read(u, i)
  <2> SUFFICES ASSUME NEW i \in 0 .. 63 PROVE Read(r, i) = Read(u, i)
    OBVIOUS
  <2>1. CASE i = 63
    <3>1. Read(u, 63) = u.flag
      BY ReadIs
    <3>2. Read(r, 63) = r.flag
      BY <1>3, ReadIs
    <3> QED  BY <1>10, <2>1, <3>1, <3>2, Zenon
  <2>2. CASE i = 15
    BY <1>3, <1>9, <2>2, ReadIs, Zenon
  <2>3. CASE i = 28
    BY <1>3, <1>8, <2>3, ReadIs, Zenon
  <2>4. CASE i = 29
    BY <1>3, <1>8, <2>4, ReadIs, Zenon
  <2>5. CASE i = 31
    BY <1>3, <1>9, <2>5, ReadIs, Zenon
  <2>6. CASE i \in (0 .. 62) \ {15, 28, 29, 31}
    <3>1. Read(u, i) = u.raw[i]
      BY <2>6, ReadIs
    <3>2. Read(r, i) = r.raw[i]
      BY <1>3, <2>6, ReadIs
    <3> QED  BY <1>7, <2>6, <3>1, <3>2, Zenon
  <2>7. i = 63 \/ i \in 0 .. 62
    BY SMT
  <2> QED  BY <2>1, <2>2, <2>3, <2>4, <2>5, <2>6, <2>7, Zenon
<1>12. Snapshot(r) = Snapshot(u)
  BY <1>11, Zenon DEF Snapshot
<1> QED  BY <1>12 DEF r, w

(* The words a program reads and writes back are all the readable state:   *)
(* in every reachable state, written to a unit that held anything else,    *)
(* they make every register read as before, those computed by a read       *)
(* (IRGB, ORGB, LZCR, SXYP) included.                                      *)
THEOREM ContextsSurvive == GTESpec => []ContextSurvives
<1>1. GTEInv /\ [Next]_vars => GTEInv'
  BY GTEStep
<1>2. GTEInv => ContextSurvives
  <2> SUFFICES ASSUME GTEInv, NEW b \in Backgrounds
               PROVE  Snapshot(Restored(Restored(Blank, b), Snapshot(m_regs))) = Snapshot(m_regs)
    BY Zenon DEF ContextSurvives
  <2>1. \A i \in 0 .. 62 : b[i] \in Words
    BY InputAssumption, Zenon DEF Words
  <2>2. UnitOK(Restored(Blank, b))
    BY <2>1, BlankOK, RestoredOK, Zenon
  <2>3. UnitOK(m_regs)
    BY Zenon DEF GTEInv
  <2> QED  BY <2>2, <2>3, RestoredReads, Zenon
<1> QED  BY GTEInit, <1>1, <1>2, PTL DEF GTESpec
-----------------------------------------------------------------------------
(* A command that completes was executed on the registers as they were.    *)
LEMMA CompletesIs ==
  ASSUME [Next]_vars, NEW ops, Completes(ops)
  PROVE  m_regs' = Executed(m_regs, m_instr_val) /\ m_instr_val.op \in ops
<1>1. m_instr_inflight /\ ~m_instr_inflight' /\ m_instr_val.op \in ops
  BY DEF Completes
<1>2. CASE Tick
  BY <1>1, <1>2, Zenon DEF Tick
<1>3. ASSUME NEW w \in Writes, To(w[1], w[2]) PROVE FALSE
  BY <1>1, <1>3, Zenon DEF To
<1>4. ASSUME NEW i \in 0 .. 63, From(i) PROVE FALSE
  BY <1>1, <1>4, Zenon DEF From
<1>5. ASSUME NEW ins \in Instrs, Cmd(ins) PROVE FALSE
  BY <1>1, <1>5, Zenon DEF Cmd
<1>6. CASE UNCHANGED vars
  BY <1>1, <1>6, Zenon DEF vars
<1> QED  BY <1>1, <1>2, <1>3, <1>4, <1>5, <1>6, Zenon DEF Next

LEMMA SaturatedIs ==
  ASSUME NEW u, NEW lm \in {0, 1}, Done(u, lm), NEW i \in 1 .. 3
  PROVE  LET mac == Signed(u.raw[24 + i], Word)
             ir == IRs(u)[i]
         IN  /\ mac \in Least(lm) .. Most => ir = mac
             /\ mac > Most => ir = Most
             /\ mac < Least(lm) => ir = Least(lm)
             /\ ir # mac => 25 - i \in u.flag
<1> DEFINE mac == Signed(u.raw[24 + i], Word)
           ir == Signed(u.raw[8 + i], Half)
<1>1. ir = Clamp(mac, Least(lm), Most) /\ (ir # mac => 25 - i \in u.flag)
  BY Zenon DEF Done, SatOK, SatReg
<1>2. mac \in Int
  <2>1. 24 + i \in 0 .. 62
    BY SMT
  <2> QED  BY <2>1, RegType DEF Done
<1>3. IRs(u)[i] = ir
  BY Zenon DEF IRs
<1> HIDE DEF mac, ir
<1>4. /\ mac \in Least(lm) .. Most => ir = mac
      /\ mac > Most => ir = Most
      /\ mac < Least(lm) => ir = Least(lm)
  BY <1>1, <1>2, Limits, SMT DEF Clamp
<1>5. ir # mac => 25 - i \in u.flag
  BY <1>1
<1> QED  BY <1>3, <1>4, <1>5, Zenon DEF mac

(* When a command that ends in IR is done, every IRi is MACi or the limit  *)
(* MACi lies beyond, and a limited value is reported in FLAG: nothing that *)
(* follows MAC_INTO_IR in the command undoes it.                           *)
THEOREM LimitsReported == GTESpec => Saturated
<1> DEFINE A == Completes(Limiting) =>
                  \A i \in 1 .. 3 :
                    LET mac == Signed(m_regs'.raw[24 + i], Word)
                        ir == IRs(m_regs')[i]
                    IN  /\ mac \in Least(m_instr_val.lm) .. Most => ir = mac
                        /\ mac > Most => ir = Most
                        /\ mac < Least(m_instr_val.lm) => ir = Least(m_instr_val.lm)
                        /\ ir # mac => 25 - i \in m_regs'.flag
<1>1. GTEInv /\ [Next]_vars => GTEInv'
  BY GTEStep
<1>2. GTEInv /\ [Next]_vars => [A]_vars
  <2> SUFFICES ASSUME GTEInv, [Next]_vars, Completes(Limiting), NEW i \in 1 .. 3
               PROVE  LET mac == Signed(m_regs'.raw[24 + i], Word)
                          ir == IRs(m_regs')[i]
                      IN  /\ mac \in Least(m_instr_val.lm) .. Most => ir = mac
                          /\ mac > Most => ir = Most
                          /\ mac < Least(m_instr_val.lm) => ir = Least(m_instr_val.lm)
                          /\ ir # mac => 25 - i \in m_regs'.flag
    BY Zenon
  <2>1. m_regs' = Executed(m_regs, m_instr_val) /\ m_instr_val.op \in Limiting
    BY CompletesIs
  <2>2. UnitOK(m_regs) /\ Fields(m_instr_val) /\ m_instr_val.lm \in {0, 1}
    BY Zenon DEF GTEInv, Fields
  <2>3. Done(m_regs', m_instr_val.lm)
    BY <2>1, <2>2, ExecutedOK, Zenon
  <2> QED  BY <2>2, <2>3, SaturatedIs
<1>3. Saturated <=> [][A]_vars
  BY PTL DEF Saturated, Limiting
<1> QED  BY GTEInit, <1>1, <1>2, <1>3, PTL DEF GTESpec
-----------------------------------------------------------------------------
(* What the accumulators hold after a sum, unless FLAG reports it.         *)
Held(v, x, n) == \A i \in 1 .. 3 : Flagged(v, i) \/ v.mac[i] = Sar(x[i], n)

LEMMA FlaggedOn ==
  ASSUME NEW u, NEW v, u.flag \subseteq v.flag, NEW i, Flagged(u, i)
  PROVE  Flagged(v, i)
BY DEF Flagged

LEMMA HeldOn ==
  ASSUME NEW u, NEW v, NEW x, NEW n, Held(u, x, n), Onward(u, v)
  PROVE  Held(v, x, n)
<1> SUFFICES ASSUME NEW i \in 1 .. 3 PROVE Flagged(v, i) \/ v.mac[i] = Sar(x[i], n)
  BY Zenon DEF Held
<1>1. v.mac[i] = u.mac[i] /\ u.flag \subseteq v.flag
  <2>1. i = 1 \/ i = 2 \/ i = 3
    BY SMT
  <2> QED  BY <2>1, Zenon DEF Onward
<1>2. Flagged(u, i) \/ u.mac[i] = Sar(x[i], n)
  BY Zenon DEF Held
<1> QED  BY <1>1, <1>2, FlaggedOn, Zenon

LEMMA WriteMacsHeld ==
  ASSUME NEW u, UnitOK(u), NEW x, Vec(x), NEW sf \in {0, 1}
  PROVE  LET v == WriteMacs(u, x, sf)
         IN  UnitOK(v) /\ u.flag \subseteq v.flag /\ Held(v, x, sf * Shift)
<1> DEFINE n == sf * Shift
           p1 == WriteMac(u, 1, x[1], sf)
           p2 == WriteMac(p1, 2, x[2], sf)
           p3 == WriteMac(p2, 3, x[3], sf)
<1>1. 1 \in 0 .. 3 /\ 2 \in 0 .. 3 /\ 3 \in 0 .. 3
  BY SMT
<1>2. x[1] \in Int /\ x[2] \in Int /\ x[3] \in Int
  BY DEF Vec
<1>3. Stores(u, p1, 1, Sar(x[1], n))
  BY <1>1, <1>2, WriteMacStores, Zenon
<1>4. UnitOK(p1)
  BY <1>3, Zenon DEF Stores
<1> HIDE DEF p1
<1>5. Stores(p1, p2, 2, Sar(x[2], n))
  BY <1>1, <1>2, <1>4, WriteMacStores, Zenon
<1>6. UnitOK(p2)
  BY <1>5, Zenon DEF Stores
<1> HIDE DEF p2
<1>7. Stores(p2, p3, 3, Sar(x[3], n))
  BY <1>1, <1>2, <1>6, WriteMacStores, Zenon
<1> HIDE DEF p3, n
<1>8. u.flag \subseteq p1.flag /\ p1.flag \subseteq p2.flag /\ p2.flag \subseteq p3.flag
  BY <1>3, <1>5, <1>7, Zenon DEF Stores
<1>9. u.flag \subseteq p3.flag /\ p1.flag \subseteq p3.flag
  BY <1>8
<1>10. p3.mac[1] = p1.mac[1] /\ p3.mac[2] = p2.mac[2]
  <2>1. 1 # 2 /\ 1 # 3 /\ 2 # 3
    BY SMT
  <2> QED  BY <1>1, <1>5, <1>7, <2>1, Zenon DEF Stores
<1>11. Flagged(p3, 1) \/ p3.mac[1] = Sar(x[1], n)
  BY <1>3, <1>9, <1>10, FlaggedOn, Zenon DEF Stores
<1>12. Flagged(p3, 2) \/ p3.mac[2] = Sar(x[2], n)
  BY <1>5, <1>8, <1>10, FlaggedOn, Zenon DEF Stores
<1>13. Flagged(p3, 3) \/ p3.mac[3] = Sar(x[3], n)
  BY <1>7, Zenon DEF Stores
<1>14. Held(p3, x, n)
  <2>1. \A i \in 1 .. 3 : i = 1 \/ i = 2 \/ i = 3
    BY SMT
  <2> QED  BY <1>11, <1>12, <1>13, <2>1, Zenon DEF Held
<1>15. WriteMacs(u, x, sf) = p3
  BY Zenon DEF WriteMacs, p1, p2, p3
<1>16. UnitOK(p3)
  BY <1>7, Zenon DEF Stores
<1> QED  BY <1>9, <1>14, <1>15, <1>16, Zenon DEF n

LEMMA NotShifted == ASSUME NEW x \in Int PROVE Sar(x, 0 * Shift) = x
<1>1. 0 * Shift = 0
  BY Widths, SMT
<1>2. x \div 1 = x
  BY SMT
<1>3. 2^0 = 1
  BY SMT
<1> QED  BY <1>1, <1>2, <1>3, Zenon DEF Sar

(* A column more: what was held and its product, or a flag.                *)
LEMMA AddColumnHeld ==
  ASSUME NEW u, UnitOK(u), NEW a, Mat(a), NEW b, Vec(b), NEW j \in 1 .. 3, NEW sf \in {0, 1},
         NEW x, Vec(x), Held(u, x, 0 * Shift)
  PROVE  LET v == AddColumn(u, a, b, j, sf)
         IN  /\ UnitOK(v) /\ u.flag \subseteq v.flag
             /\ Held(v, [i \in 1 .. 3 |-> x[i] + a[i][j] * b[j]], sf * Shift)
<1> DEFINE y == [i \in 1 .. 3 |-> u.mac[i] + a[i][j] * b[j]]
           z == [i \in 1 .. 3 |-> x[i] + a[i][j] * b[j]]
           v == AddColumn(u, a, b, j, sf)
           n == sf * Shift
<1>1. Vec(y)
  BY MacType, VecPlus, Zenon
<1>2. v = WriteMacs(u, y, sf)
  BY Zenon DEF AddColumn
<1>3. \A i \in 1 .. 3 : u.mac[i] = x[i] => y[i] = z[i]
  BY Zenon
<1> HIDE DEF y, z
<1>4. UnitOK(v) /\ u.flag \subseteq v.flag /\ Held(v, y, n)
  BY <1>1, <1>2, WriteMacsHeld, Zenon
<1> HIDE DEF v, n
<1>5. Held(v, z, n)
  <2> SUFFICES ASSUME NEW i \in 1 .. 3 PROVE Flagged(v, i) \/ v.mac[i] = Sar(z[i], n)
    BY Zenon DEF Held
  <2>1. Flagged(u, i) \/ u.mac[i] = x[i]
    <3>1. x[i] \in Int
      BY VecAt
    <3>2. Sar(x[i], 0 * Shift) = x[i]
      BY <3>1, NotShifted
    <3>3. Flagged(u, i) \/ u.mac[i] = Sar(x[i], 0 * Shift)
      BY Zenon DEF Held
    <3> QED  BY <3>2, <3>3, Zenon
  <2>2. Flagged(v, i) \/ v.mac[i] = Sar(y[i], n)
    BY <1>4, Zenon DEF Held
  <2>3. Flagged(u, i) => Flagged(v, i)
    BY <1>4, FlaggedOn, Zenon
  <2>4. u.mac[i] = x[i] => y[i] = z[i]
    BY <1>3, Zenon
  <2> QED  BY <2>1, <2>2, <2>3, <2>4, Zenon
<1> QED  BY <1>4, <1>5, Zenon DEF v, z, n

Linear(a, b, c) ==
  [i \in 1 .. 3 |-> c[i] * 2^Shift + a[i][1] * b[1] + a[i][2] * b[2] + a[i][3] * b[3]]
LEMMA SumHeld ==
  ASSUME NEW u, UnitOK(u), NEW sf \in {0, 1}, NEW a, Mat(a), NEW b, Vec(b), NEW c, Vec(c),
         NEW cv, cv # 2
  PROVE  Held(Sum(u, sf, a, b, c, cv), Linear(a, b, c), sf * Shift)
<1> DEFINE y == [i \in 1 .. 3 |-> c[i] * 2^Shift]
           x1 == [i \in 1 .. 3 |-> c[i] * 2^Shift + a[i][1] * b[1]]
           x2 == [i \in 1 .. 3 |-> x1[i] + a[i][2] * b[2]]
           x3 == [i \in 1 .. 3 |-> x2[i] + a[i][3] * b[3]]
           s1 == WriteMacs(u, x1, 0)
           s2 == AddColumn(s1, a, b, 2, 0)
           s3 == AddColumn(s2, a, b, 3, sf)
<1>1. 1 \in 1 .. 3 /\ 2 \in 1 .. 3 /\ 3 \in 1 .. 3 /\ 0 \in {0, 1}
  BY SMT
<1>2. Vec(x1)
  <2>1. Vec(y)
    <3>1. 2^Shift \in Int
      BY Powers, SMT
    <3> QED  BY <3>1, VecScaled, Zenon
  <2>2. Vec([i \in 1 .. 3 |-> y[i] + a[i][1] * b[1]])
    <3> HIDE DEF y
    <3> QED  BY <1>1, <2>1, VecPlus, Zenon
  <2>3. [i \in 1 .. 3 |-> y[i] + a[i][1] * b[1]] = x1
    BY Zenon
  <2> QED  BY <2>2, <2>3, Zenon
<1>3. Sum(u, sf, a, b, c, cv) = s3
  BY Zenon DEF Sum
<1>4. x3 = Linear(a, b, c)
  BY Zenon DEF Linear
<1> HIDE DEF x1
<1>5. Vec(x2)
  BY <1>1, <1>2, VecPlus, Zenon
<1>6. UnitOK(s1) /\ Held(s1, x1, 0 * Shift)
  BY <1>1, <1>2, WriteMacsHeld, Zenon
<1> HIDE DEF s1
<1>7. UnitOK(s2) /\ Held(s2, x2, 0 * Shift)
  BY <1>1, <1>2, <1>6, AddColumnHeld, Zenon
<1> HIDE DEF s2, x2
<1>8. Held(s3, x3, sf * Shift)
  BY <1>1, <1>5, <1>7, AddColumnHeld, Zenon
<1> HIDE DEF s3, x3
<1> QED  BY <1>3, <1>4, <1>8, Zenon
(* The operands are read from the registers, which clearing FLAG leaves.   *)
Product(u, mx, v, cv) == Linear(Matrix(u, mx), Vector(u, v), Translation(u, cv))

LEMMA ProductsHeld ==
  ASSUME NEW u, UnitOK(u), NEW sf \in {0, 1},
         NEW mx \in 0 .. 3, NEW v \in 0 .. 3, NEW cv \in 0 .. 3, cv # 2
  PROVE  Held(Products(u, sf, mx, v, cv), Product(u, mx, v, cv), sf * Shift)
<1> DEFINE a == Matrix(u, mx)
           b == Vector(u, v)
           c == Translation(u, cv)
<1>1. Mat(a) /\ Vec(b) /\ Vec(c)
  BY MatrixType, VectorType, TranslationType, Zenon
<1>2. Products(u, sf, mx, v, cv) = Sum(u, sf, a, b, c, cv)
  BY Zenon DEF Products
<1>3. Product(u, mx, v, cv) = Linear(a, b, c)
  BY Zenon DEF Product
<1> HIDE DEF a, b, c
<1> QED  BY <1>1, <1>2, <1>3, SumHeld, Zenon

LEMMA ClearedProduct ==
  ASSUME NEW u, UnitOK(u), NEW mx, NEW v, NEW cv
  PROVE  Product(Cleared(u), mx, v, cv) = Product(u, mx, v, cv)
<1> DEFINE w == Cleared(u)
<1>1. w.raw = u.raw
  BY SMT DEF Cleared, UnitOK, Units
<1> HIDE DEF w
<1>2. Matrix(w, mx) = Matrix(u, mx)
  <2>1. \A base, k : Elem(w, base, k) = Elem(u, base, k)
    BY <1>1, Zenon DEF Elem, Lo, Hi
  <2>2. Rgb8(w, 6) = Rgb8(u, 6) /\ IR0(w) = IR0(u)
    BY <1>1, Zenon DEF Rgb8, IR0
  <2> QED  BY <2>1, <2>2, Zenon DEF Matrix
<1>3. Vector(w, v) = Vector(u, v)
  BY <1>1, Zenon DEF Vector, IRs, Lo, Hi
<1>4. Translation(w, cv) = Translation(u, cv)
  BY <1>1, Zenon DEF Translation, Words3
<1> QED  BY <1>2, <1>3, <1>4, Zenon DEF Product, w

LEMMA MacIntoIROn ==
  ASSUME NEW u, UnitOK(u), NEW lm \in {0, 1}
  PROVE  Onward(u, MacIntoIR(u, lm))
<1> DEFINE p1 == MacIntoIR1(u, 1, lm)
           p2 == MacIntoIR1(p1, 2, lm)
           p3 == MacIntoIR1(p2, 3, lm)
<1>1. Onward(u, p1) /\ UnitOK(p1)
  BY OneTwoThree, MacIntoIR1On, OnwardOK, Zenon
<1> HIDE DEF p1
<1>2. Onward(p1, p2) /\ UnitOK(p2)
  BY <1>1, OneTwoThree, MacIntoIR1On, OnwardOK, Zenon
<1> HIDE DEF p2
<1>3. Onward(p2, p3)
  BY <1>2, OneTwoThree, MacIntoIR1On, Zenon
<1> HIDE DEF p3
<1>4. MacIntoIR(u, lm) = p3
  BY Zenon DEF MacIntoIR, p1, p2, p3
<1> QED  BY <1>1, <1>2, <1>3, <1>4, OnwardTwice, Zenon

(* MVMVA and RTPS: what follows the product leaves the accumulators.       *)
LEMMA ExecutedHeld ==
  ASSUME NEW u, UnitOK(u), NEW ins, Fields(ins), ins.op \in {"MVMVA", "RTPS"}, ins.cv # 2
  PROVE  Held(Executed(u, ins),
              IF ins.op = "MVMVA" THEN Product(u, ins.mx, ins.v, ins.cv) ELSE Product(u, 0, 0, 0),
              ins.sf * Shift)
<1> DEFINE c == Cleared(u)
<1>1. UnitOK(c)
  BY ClearedOK DEF Cleared
<1>2. /\ ins.sf \in {0, 1} /\ ins.lm \in {0, 1} /\ ins.mx \in 0 .. 3 /\ ins.v \in 0 .. 3
      /\ ins.cv \in 0 .. 3
  BY DEF Fields
<1>3. 0 \in 0 .. 3 /\ 0 # 2
  BY SMT
<1>4. \A mx, v, cv : Product(c, mx, v, cv) = Product(u, mx, v, cv)
  BY ClearedProduct, Zenon
<1>5. CASE ins.op = "MVMVA"
  <2> DEFINE p == Products(c, ins.sf, ins.mx, ins.v, ins.cv)
  <2>1. Executed(u, ins) = MacIntoIR(p, ins.lm)
    <3>1. Executed(u, ins) = Mvmva(c, ins.sf, ins.mx, ins.v, ins.cv, ins.lm)
      BY <1>5, ExecutedIs, Zenon
    <3> QED  BY <3>1, Zenon DEF Mvmva
  <2> HIDE DEF c
  <2>2. UnitOK(p) /\ Held(p, Product(c, ins.mx, ins.v, ins.cv), ins.sf * Shift)
    BY <1>1, <1>2, ProductsOK, ProductsHeld, Zenon
  <2> HIDE DEF p
  <2>3. Onward(p, MacIntoIR(p, ins.lm))
    BY <1>2, <2>2, MacIntoIROn, Zenon
  <2>4. Held(Executed(u, ins), Product(c, ins.mx, ins.v, ins.cv), ins.sf * Shift)
    BY <2>1, <2>2, <2>3, HeldOn, Zenon
  <2> QED  BY <1>4, <1>5, <2>4, Zenon
<1>6. CASE ins.op = "RTPS"
  <2> DEFINE p == Products(c, ins.sf, 0, 0, 0)
             d == FALSE => 0 = 2
  <2>1. Executed(u, ins) = Rtp(c, ins.sf, ins.lm, 0, d)
    <3>1. Executed(u, ins) = Run(c, ins.op, ins.sf, ins.lm, 0, FALSE)
      <4>1. ins.op \in Singles
        BY <1>6 DEF Singles
      <4> QED  BY <4>1, ExecutedIs, Zenon
    <3> QED  BY <1>6, <3>1 DEF Run
  <2> HIDE DEF c, d
  <2>2. Held(p, Product(c, 0, 0, 0), ins.sf * Shift)
    BY <1>1, <1>2, <1>3, ProductsHeld, Zenon
  <2>3. Onward(p, Rtp(c, ins.sf, ins.lm, 0, d))
    BY <1>1, <1>2, <1>3, RtpOK, Zenon
  <2> HIDE DEF p
  <2>4. Held(Executed(u, ins), Product(c, 0, 0, 0), ins.sf * Shift)
    BY <2>1, <2>2, <2>3, HeldOn, Zenon
  <2>5. ins.op # "MVMVA"
    BY <1>6
  <2> QED  BY <1>4, <2>4, <2>5, Zenon
<1> QED  BY <1>5, <1>6

(* NCLIP: the sum of the cross products is the area.                       *)
LEMMA AreaHeld ==
  ASSUME NEW u, UnitOK(u), NEW ins, ins.op = "NCLIP"
  PROVE  LET v == Executed(u, ins) IN Flagged(v, 0) \/ Signed(v.raw[24], Word) = Area(u)
<1> DEFINE c == Cleared(u)
           x == Sx(c, 0) * Sy(c, 1) - Sx(c, 1) * Sy(c, 0)
                + (Sx(c, 1) * Sy(c, 2) - Sx(c, 2) * Sy(c, 1))
                + (Sx(c, 2) * Sy(c, 0) - Sx(c, 0) * Sy(c, 2))
           v == WriteMac(c, 0, x, 0)
<1>1. UnitOK(c)
  BY ClearedOK DEF Cleared
<1>2. Executed(u, ins) = v
  <2>1. Executed(u, ins) = Nclip(c)
    BY ExecutedIs, Zenon
  <2> QED  BY <2>1, Zenon DEF Nclip
<1>3. \A k \in 0 .. 2 : Sx(u, k) \in Int /\ Sy(u, k) \in Int
  <2>1. \A k \in 0 .. 2 : 12 + k \in 0 .. 62
    BY SMT
  <2> QED  BY <2>1, HalvesType, Zenon DEF Sx, Sy
<1>4. \A k : Sx(c, k) = Sx(u, k) /\ Sy(c, k) = Sy(u, k)
  <2>1. c.raw = u.raw
    BY SMT DEF Cleared, UnitOK, Units
  <2> HIDE DEF c
  <2> QED  BY <2>1, Zenon DEF Sx, Sy, Lo, Hi
<1>5. 0 \in 0 .. 2 /\ 1 \in 0 .. 2 /\ 2 \in 0 .. 2 /\ 0 \in 0 .. 3 /\ 0 \in {0, 1} /\ 24 + 0 = 24
  BY SMT
<1>6. x = Area(u) /\ x \in Int
  <2>1. \A a, b, d, e, f, g \in Int :
          /\ (a * f - b * e) + (b * g - d * f) + (d * e - a * g)
               = (b - a) * (g - e) + (-((d - a) * (f - e)))
          /\ (a * f - b * e) + (b * g - d * f) + (d * e - a * g) \in Int
    BY SMT
  <2> DEFINE a == Sx(u, 0)
             b == Sx(u, 1)
             d == Sx(u, 2)
             e == Sy(u, 0)
             f == Sy(u, 1)
             g == Sy(u, 2)
  <2>2. x = (a * f - b * e) + (b * g - d * f) + (d * e - a * g)
    <3>1. /\ Sx(c, 0) = a /\ Sx(c, 1) = b /\ Sx(c, 2) = d
          /\ Sy(c, 0) = e /\ Sy(c, 1) = f /\ Sy(c, 2) = g
      BY <1>4, Zenon
    <3> HIDE DEF a, b, d, e, f, g, c
    <3> QED  BY <3>1
  <2>3. Area(u) = (b - a) * (g - e) + (-((d - a) * (f - e)))
    BY Zenon DEF Area
  <2>4. a \in Int /\ b \in Int /\ d \in Int /\ e \in Int /\ f \in Int /\ g \in Int
    BY <1>3, <1>5, Zenon
  <2> HIDE DEF x, a, b, d, e, f, g
  <2> QED  BY <2>1, <2>2, <2>3, <2>4, Zenon
<1> HIDE DEF c, x
<1>7. /\ UnitOK(v) /\ v.flag = FlagWord(c.flag \cup Overflow(0, x))
      /\ v.mac[0] = Sar(Cut(0, x), 0 * Shift)
  <2>1. Accumulated(c, v, 0, x, 0)
    BY <1>1, <1>5, <1>6, WriteMacIs, Zenon
  <2> HIDE DEF v
  <2> QED  BY <2>1, Zenon DEF Accumulated
<1>8. Stores(c, v, 0, Sar(x, 0 * Shift))
  BY <1>1, <1>5, <1>6, WriteMacStores, Zenon
<1>9. v.raw[24] = Low(v.mac[0], Word)
  BY <1>5, <1>7, Zenon DEF UnitOK, MacOK
<1>10. CASE Overflow(0, x) = {}
  <2>1. Cut(0, x) = x /\ x \in Numbers(Word)
    BY <1>5, <1>6, <1>10, NoOverflow
  <2>2. v.mac[0] = x
    BY <1>6, <1>7, <2>1, NotShifted
  <2>3. Signed(Low(x, Word), Word) = x
    BY <1>6, <2>1, SignedOfLow, SignedSame, Widths
  <2> HIDE DEF v
  <2> QED  BY <1>2, <1>6, <1>9, <2>2, <2>3, Zenon
<1>11. CASE Overflow(0, x) # {}
  <2>1. PICK b \in Overflow(0, x) : b \in 12 .. 30 /\ b \in {15, 16}
    BY <1>5, <1>6, <1>11, OverflowBits
  <2>2. b \in v.flag
    BY <1>7, <2>1 DEF FlagWord
  <2> HIDE DEF v
  <2> QED  BY <1>2, <2>1, <2>2 DEF Flagged
<1> QED  BY <1>10, <1>11

(* An accumulator that does not hold the exact value of its sum, shifted   *)
(* as the command asks, is reported in FLAG: no cut on the way goes        *)
(* unnoticed, and the sum of the cross products of NCLIP is the area.      *)
THEOREM CutsReported == GTESpec => ExactOrFlagged
<1> DEFINE A == /\ Completes({"MVMVA", "RTPS"}) /\ m_instr_val.cv # 2 =>
                     \A i \in 1 .. 3 :
                       \/ {31 - i, 28 - i} \cap m_regs'.flag # {}
                       \/ m_regs'.mac[i]
                            = Sar(Exact(m_regs, m_instr_val, i), m_instr_val.sf * Shift)
                /\ Completes({"NCLIP"}) =>
                     \/ {15, 16} \cap m_regs'.flag # {}
                     \/ Signed(m_regs'.raw[24], Word) = Area(m_regs)
<1>1. GTEInv /\ [Next]_vars => GTEInv'
  BY GTEStep
<1>2. GTEInv /\ [Next]_vars => [A]_vars
  <2> SUFFICES ASSUME GTEInv, [Next]_vars PROVE A
    BY Zenon
  <2> DEFINE u == m_regs
             ins == m_instr_val
  <2>1. UnitOK(u) /\ Fields(ins)
    BY Zenon DEF GTEInv
  <2>2. ASSUME Completes({"MVMVA", "RTPS"}), ins.cv # 2, NEW i \in 1 .. 3
        PROVE  \/ {31 - i, 28 - i} \cap m_regs'.flag # {}
               \/ m_regs'.mac[i] = Sar(Exact(u, ins, i), ins.sf * Shift)
    <3> DEFINE x == IF ins.op = "MVMVA" THEN Product(u, ins.mx, ins.v, ins.cv)
                    ELSE Product(u, 0, 0, 0)
    <3>1. m_regs' = Executed(u, ins) /\ ins.op \in {"MVMVA", "RTPS"}
      BY <2>2, CompletesIs
    <3>2. Held(m_regs', x, ins.sf * Shift)
      BY <2>1, <2>2, <3>1, ExecutedHeld, Zenon
    <3>3. x[i] = Exact(u, ins, i)
      BY Zenon DEF Product, Linear, Exact
    <3>4. Flagged(m_regs', i) \/ m_regs'.mac[i] = Sar(x[i], ins.sf * Shift)
      BY <2>2, <3>2, Zenon DEF Held
    <3>5. i # 0
      BY SMT
    <3> HIDE DEF x, u, ins
    <3>6. CASE Flagged(m_regs', i)
      BY <3>5, <3>6, Zenon DEF Flagged
    <3>7. CASE m_regs'.mac[i] = Sar(x[i], ins.sf * Shift)
      BY <3>3, <3>7, Zenon
    <3> QED  BY <3>4, <3>6, <3>7, Zenon
  <2>3. ASSUME Completes({"NCLIP"})
        PROVE  \/ {15, 16} \cap m_regs'.flag # {}
               \/ Signed(m_regs'.raw[24], Word) = Area(m_regs)
    <3>1. m_regs' = Executed(u, ins) /\ ins.op \in {"NCLIP"}
      BY <2>3, CompletesIs
    <3>2. Flagged(m_regs', 0) \/ Signed(m_regs'.raw[24], Word) = Area(u)
      BY <2>1, <3>1, AreaHeld
    <3> QED  BY <3>2, Zenon DEF Flagged
  <2> QED  BY <2>2, <2>3, Zenon
<1>3. ExactOrFlagged <=> [][A]_vars
  BY PTL DEF ExactOrFlagged
<1> QED  BY GTEInit, <1>1, <1>2, <1>3, PTL DEF GTESpec
-----------------------------------------------------------------------------
(* What a command leaves alone before and after it pushes its result: the  *)
(* registers but IR, from IRn on, and the accumulators.                    *)
Steady(u, v, n) ==
  /\ UnitOK(v) /\ u.flag \subseteq v.flag
  /\ \A i \in 0 .. 62 : i \notin n .. 11 /\ i \notin 24 .. 27 => v.raw[i] = u.raw[i]

LEMMA SteadyOK == ASSUME NEW u, NEW v, NEW n, Steady(u, v, n) PROVE UnitOK(v)
BY DEF Steady

LEMMA SteadySelf == ASSUME NEW u, UnitOK(u), NEW n PROVE Steady(u, u, n)
BY DEF Steady

LEMMA SteadyTwice ==
  ASSUME NEW u, NEW v, NEW w, NEW n, Steady(u, v, n), Steady(v, w, n)
  PROVE  Steady(u, w, n)
BY DEF Steady

LEMMA SteadyMore ==
  ASSUME NEW u, NEW v, Steady(u, v, 9)
  PROVE  Steady(u, v, 8)
<1>1. 9 .. 11 \subseteq 8 .. 11
  BY SMT
<1> QED  BY <1>1 DEF Steady

LEMMA RaiseSteady == ASSUME NEW u, UnitOK(u), NEW bits, NEW n PROVE Steady(u, Raise(u, bits), n)
<1>1. /\ UnitOK(Raise(u, bits)) /\ Raise(u, bits).raw = u.raw
      /\ Raise(u, bits).flag = FlagWord(u.flag \cup bits)
  BY RaiseIs
<1>2. u.flag \subseteq Raise(u, bits).flag
  BY <1>1, FlagGrows
<1> QED  BY <1>1, <1>2, Zenon DEF Steady

LEMMA WriteMacSteady ==
  ASSUME NEW u, UnitOK(u), NEW i \in 0 .. 3, NEW x \in Int, NEW sf \in {0, 1}, NEW n
  PROVE  Steady(u, WriteMac(u, i, x, sf), n)
<1> DEFINE v == WriteMac(u, i, x, sf)
<1>1. /\ UnitOK(v)
      /\ v.flag = FlagWord(u.flag \cup Overflow(i, x))
      /\ v.mac[i] = Sar(Cut(i, x), sf * Shift)
      /\ \A j \in 0 .. 3 : j # i => v.mac[j] = u.mac[j]
      /\ \A j \in 0 .. 62 : j # 24 + i => v.raw[j] = u.raw[j]
  BY WriteMacOK
<1>2. u.flag \subseteq v.flag
  BY <1>1, FlagGrows
<1>3. 24 + i \in 24 .. 27
  BY SMT
<1> HIDE DEF v
<1>4. \A j \in 0 .. 62 : j \notin n .. 11 /\ j \notin 24 .. 27 => v.raw[j] = u.raw[j]
  BY <1>1, <1>3, Zenon
<1> QED  BY <1>1, <1>2, <1>4, Zenon DEF Steady, v

LEMMA WriteMacsSteady ==
  ASSUME NEW u, UnitOK(u), NEW x, Vec(x), NEW sf \in {0, 1}, NEW n
  PROVE  Steady(u, WriteMacs(u, x, sf), n)
<1> DEFINE p1 == WriteMac(u, 1, x[1], sf)
           p2 == WriteMac(p1, 2, x[2], sf)
           p3 == WriteMac(p2, 3, x[3], sf)
<1>1. 1 \in 0 .. 3 /\ 2 \in 0 .. 3 /\ 3 \in 0 .. 3
  BY SMT
<1>2. x[1] \in Int /\ x[2] \in Int /\ x[3] \in Int
  BY DEF Vec
<1>3. Steady(u, p1, n) /\ UnitOK(p1)
  BY <1>1, <1>2, WriteMacSteady, SteadyOK, Zenon
<1> HIDE DEF p1
<1>4. Steady(p1, p2, n) /\ UnitOK(p2)
  BY <1>1, <1>2, <1>3, WriteMacSteady, SteadyOK, Zenon
<1> HIDE DEF p2
<1>5. Steady(p2, p3, n)
  BY <1>1, <1>2, <1>4, WriteMacSteady, Zenon
<1> HIDE DEF p3
<1>6. WriteMacs(u, x, sf) = p3
  BY Zenon DEF WriteMacs, p1, p2, p3
<1> QED  BY <1>3, <1>4, <1>5, <1>6, SteadyTwice, Zenon

LEMMA SetIRSteady ==
  ASSUME NEW u, UnitOK(u), NEW i \in 0 .. 3, NEW x \in Numbers(Half), NEW n \in {8, 9}, n <= 8 + i
  PROVE  Steady(u, SetIR(u, i, x), n)
<1> DEFINE v == SetIR(u, i, x)
<1>1. /\ UnitOK(v)
      /\ \A j \in 0 .. 62 : j # 8 + i => v.raw[j] = u.raw[j]
      /\ v.flag = u.flag
  BY SetIROK
<1>2. 8 + i \in n .. 11
  BY SMT
<1> HIDE DEF v
<1>3. \A j \in 0 .. 62 : j \notin n .. 11 /\ j \notin 24 .. 27 => v.raw[j] = u.raw[j]
  BY <1>1, <1>2, Zenon
<1>4. u.flag \subseteq v.flag
  BY <1>1
<1> QED  BY <1>1, <1>3, <1>4, Zenon DEF Steady, v

LEMMA MacIntoIR1Steady ==
  ASSUME NEW u, UnitOK(u), NEW i \in 1 .. 3, NEW lm \in {0, 1}
  PROVE  Steady(u, MacIntoIR1(u, i, lm), 9)
<1> DEFINE v == MacIntoIR1(u, i, lm)
<1>1. Limited(u, v, i, lm) /\ UnitOK(v)
  BY MacIntoIR1Sat, MacIntoIR1OK
<1>2. 8 + i \in 9 .. 11
  BY SMT
<1> HIDE DEF v
<1>3. \A j \in 0 .. 62 : j \notin 9 .. 11 /\ j \notin 24 .. 27 => v.raw[j] = u.raw[j]
  BY <1>1, <1>2, Zenon DEF Limited
<1> QED  BY <1>1, <1>3, Zenon DEF Steady, Limited, v

LEMMA MacIntoIRSteady ==
  ASSUME NEW u, UnitOK(u), NEW lm \in {0, 1}
  PROVE  Steady(u, MacIntoIR(u, lm), 9)
<1> DEFINE p1 == MacIntoIR1(u, 1, lm)
           p2 == MacIntoIR1(p1, 2, lm)
           p3 == MacIntoIR1(p2, 3, lm)
<1>1. Steady(u, p1, 9) /\ UnitOK(p1)
  BY OneTwoThree, MacIntoIR1Steady, SteadyOK, Zenon
<1> HIDE DEF p1
<1>2. Steady(p1, p2, 9) /\ UnitOK(p2)
  BY <1>1, OneTwoThree, MacIntoIR1Steady, SteadyOK, Zenon
<1> HIDE DEF p2
<1>3. Steady(p2, p3, 9)
  BY <1>2, OneTwoThree, MacIntoIR1Steady, Zenon
<1> HIDE DEF p3
<1>4. MacIntoIR(u, lm) = p3
  BY Zenon DEF MacIntoIR, p1, p2, p3
<1> QED  BY <1>1, <1>2, <1>3, <1>4, SteadyTwice, Zenon

LEMMA AddColumnSteady ==
  ASSUME NEW u, UnitOK(u), NEW a, Mat(a), NEW b, Vec(b), NEW j \in 1 .. 3, NEW sf \in {0, 1}, NEW n
  PROVE  Steady(u, AddColumn(u, a, b, j, sf), n)
<1> DEFINE x == [i \in 1 .. 3 |-> u.mac[i] + a[i][j] * b[j]]
<1>1. Vec(x)
  BY MacType, VecPlus, Zenon
<1>2. AddColumn(u, a, b, j, sf) = WriteMacs(u, x, sf)
  BY Zenon DEF AddColumn
<1> HIDE DEF x
<1> QED  BY <1>1, <1>2, WriteMacsSteady, Zenon

(* The first column of a sum is a vector.                                  *)
LEMMA FirstColumn ==
  ASSUME NEW a, Mat(a), NEW b, Vec(b), NEW c, Vec(c)
  PROVE  Vec([i \in 1 .. 3 |-> c[i] * 2^Shift + a[i][1] * b[1]])
<1> DEFINE y == [i \in 1 .. 3 |-> c[i] * 2^Shift]
           z == [i \in 1 .. 3 |-> y[i] + a[i][1] * b[1]]
<1>1. Vec(y)
  <2>1. 2^Shift \in Int
    BY Powers, SMT
  <2> QED  BY <2>1, VecScaled, Zenon
<1>2. Vec(z)
  <2> HIDE DEF y
  <2> QED  BY <1>1, OneTwoThree, VecPlus, Zenon
<1>3. z = [i \in 1 .. 3 |-> c[i] * 2^Shift + a[i][1] * b[1]]
  BY Zenon
<1> HIDE DEF z
<1> QED  BY <1>2, <1>3, Zenon

LEMMA SumSteady ==
  ASSUME NEW u, UnitOK(u), NEW sf \in {0, 1}, NEW a, Mat(a), NEW b, Vec(b), NEW c, Vec(c),
         NEW cv, cv # 2, NEW n
  PROVE  Steady(u, Sum(u, sf, a, b, c, cv), n)
<1> DEFINE x1 == [i \in 1 .. 3 |-> c[i] * 2^Shift + a[i][1] * b[1]]
           s1 == WriteMacs(u, x1, 0)
           s2 == AddColumn(s1, a, b, 2, 0)
           s3 == AddColumn(s2, a, b, 3, sf)
<1>1. 0 \in {0, 1}
  BY SMT
<1>2. Vec(x1)
  BY FirstColumn
<1>3. Sum(u, sf, a, b, c, cv) = s3
  BY Zenon DEF Sum
<1> HIDE DEF x1
<1>4. Steady(u, s1, n) /\ UnitOK(s1)
  BY <1>1, <1>2, WriteMacsSteady, SteadyOK, Zenon
<1> HIDE DEF s1
<1>5. Steady(s1, s2, n) /\ UnitOK(s2)
  BY <1>1, <1>4, OneTwoThree, AddColumnSteady, SteadyOK, Zenon
<1> HIDE DEF s2
<1>6. Steady(s2, s3, n)
  BY <1>5, OneTwoThree, AddColumnSteady, Zenon
<1> HIDE DEF s3
<1> QED  BY <1>3, <1>4, <1>5, <1>6, SteadyTwice, Zenon

LEMMA ProductsSteady ==
  ASSUME NEW u, UnitOK(u), NEW sf \in {0, 1},
         NEW mx \in 0 .. 3, NEW v \in 0 .. 3, NEW cv \in 0 .. 3, cv # 2, NEW n
  PROVE  Steady(u, Products(u, sf, mx, v, cv), n)
<1>1. Mat(Matrix(u, mx)) /\ Vec(Vector(u, v)) /\ Vec(Translation(u, cv))
  BY MatrixType, VectorType, TranslationType, Zenon
<1> QED  BY <1>1, SumSteady, Zenon DEF Products

LEMMA MvmvaSteady ==
  ASSUME NEW u, UnitOK(u), NEW sf \in {0, 1}, NEW lm \in {0, 1},
         NEW mx \in 0 .. 3, NEW v \in 0 .. 3, NEW cv \in 0 .. 3, cv # 2
  PROVE  Steady(u, Mvmva(u, sf, mx, v, cv, lm), 9)
<1> DEFINE p == Products(u, sf, mx, v, cv)
<1>0. Steady(u, p, 9)
  BY ProductsSteady
<1>1. Steady(u, p, 9) /\ UnitOK(p)
  BY <1>0, SteadyOK
<1>2. Mvmva(u, sf, mx, v, cv, lm) = MacIntoIR(p, lm)
  BY Zenon DEF Mvmva
<1> HIDE DEF p
<1>3. Steady(p, MacIntoIR(p, lm), 9)
  BY <1>1, MacIntoIRSteady
<1> QED  BY <1>1, <1>2, <1>3, SteadyTwice, Zenon

LEMMA FarVec ==
  ASSUME NEW u, UnitOK(u), NEW m, Vec(m)
  PROVE  Vec([i \in 1 .. 3 |-> Words3(u, 53)[i] * 2^Shift - m[i]])
<1>1. Vec(Words3(u, 53)) /\ 2^Shift \in Int
  <2>1. 53 \in 0 .. 60
    BY SMT
  <2> QED  BY <2>1, WordsType, Powers, SMT
<1>2. ASSUME NEW i \in 1 .. 3 PROVE Words3(u, 53)[i] * 2^Shift - m[i] \in Int
  <2>1. Words3(u, 53)[i] \in Int /\ m[i] \in Int
    BY <1>1, VecAt, Zenon
  <2> QED  BY <1>1, <2>1, SMT
<1> QED  BY <1>2, OneTwoThree, Zenon DEF Vec

LEMMA ToFarSteady ==
  ASSUME NEW u, UnitOK(u), NEW m, Vec(m), NEW sf \in {0, 1}
  PROVE  Steady(u, ToFar(u, m, sf), 9)
<1> DEFINE x == [i \in 1 .. 3 |-> Words3(u, 53)[i] * 2^Shift - m[i]]
           p == WriteMacs(u, x, sf)
<1>1. Vec(x)
  BY FarVec, Zenon
<1>2. ToFar(u, m, sf) = MacIntoIR(p, 0) /\ 0 \in {0, 1}
  BY SMT DEF ToFar
<1> HIDE DEF x
<1>3. Steady(u, p, 9) /\ UnitOK(p)
  BY <1>1, WriteMacsSteady, SteadyOK, Zenon
<1> HIDE DEF p
<1>4. Steady(p, MacIntoIR(p, 0), 9)
  BY <1>2, <1>3, MacIntoIRSteady, Zenon
<1> QED  BY <1>2, <1>3, <1>4, SteadyTwice, Zenon

LEMMA BlendSteady ==
  ASSUME NEW u, UnitOK(u), NEW m, Vec(m), NEW sf \in {0, 1}
  PROVE  Steady(u, Blend(u, m, sf), 9)
<1>1. Vec([i \in 1 .. 3 |-> m[i] + IR0(u) * IRs(u)[i]])
  BY Blended
<1> QED  BY <1>1, WriteMacsSteady, Zenon DEF Blend
(* A command that pushes a colour: the queue moves on by one, and the      *)
(* vertices, IR0 and the control registers are kept.                       *)
Painted(u, v) ==
  /\ UnitOK(v) /\ u.flag \subseteq v.flag
  /\ v.raw[20] = u.raw[21] /\ v.raw[21] = u.raw[22]
  /\ \A i \in 0 .. 8 : v.raw[i] = u.raw[i]
  /\ \A i \in 32 .. 62 : v.raw[i] = u.raw[i]

LEMMA PaintedOK == ASSUME NEW u, NEW v, Painted(u, v) PROVE UnitOK(v)
BY DEF Painted

LEMMA SteadyPainted ==
  ASSUME NEW u, NEW v, NEW w
  PROVE  /\ Steady(u, v, 9) /\ Painted(v, w) => Painted(u, w)
         /\ Painted(u, v) /\ Steady(v, w, 9) => Painted(u, w)
<1> DEFINE S == (0 .. 8) \cup {20, 21, 22} \cup (32 .. 62)
<1>1. \A i \in S : i \in 0 .. 62 /\ i \notin 9 .. 11 /\ i \notin 24 .. 27
  BY SMT
<1>2. /\ 20 \in S /\ 21 \in S /\ 22 \in S
      /\ \A i \in 0 .. 8 : i \in S
      /\ \A i \in 32 .. 62 : i \in S
  BY Zenon
<1> HIDE DEF S
<1>3. \A x, y : Steady(x, y, 9) =>
        UnitOK(y) /\ x.flag \subseteq y.flag /\ \A i \in S : y.raw[i] = x.raw[i]
  BY <1>1, Zenon DEF Steady
<1>4. ASSUME Steady(u, v, 9), Painted(v, w) PROVE Painted(u, w)
  <2>1. UnitOK(w) /\ u.flag \subseteq w.flag
    BY <1>3, <1>4 DEF Painted
  <2>2. \A i \in S : v.raw[i] = u.raw[i]
    BY <1>3, <1>4, Zenon
  <2>3. w.raw[20] = u.raw[21] /\ w.raw[21] = u.raw[22]
    BY <1>2, <1>4, <2>2, Zenon DEF Painted
  <2>4. \A i \in 0 .. 8 : w.raw[i] = u.raw[i]
    BY <1>2, <1>4, <2>2, Zenon DEF Painted
  <2>5. \A i \in 32 .. 62 : w.raw[i] = u.raw[i]
    BY <1>2, <1>4, <2>2, Zenon DEF Painted
  <2> QED  BY <2>1, <2>3, <2>4, <2>5, Zenon DEF Painted
<1>5. ASSUME Painted(u, v), Steady(v, w, 9) PROVE Painted(u, w)
  <2>1. UnitOK(w) /\ u.flag \subseteq w.flag
    BY <1>3, <1>5 DEF Painted
  <2>2. \A i \in S : w.raw[i] = v.raw[i]
    BY <1>3, <1>5, Zenon
  <2>3. w.raw[20] = u.raw[21] /\ w.raw[21] = u.raw[22]
    BY <1>2, <1>5, <2>2, Zenon DEF Painted
  <2>4. \A i \in 0 .. 8 : w.raw[i] = u.raw[i]
    BY <1>2, <1>5, <2>2, Zenon DEF Painted
  <2>5. \A i \in 32 .. 62 : w.raw[i] = u.raw[i]
    BY <1>2, <1>5, <2>2, Zenon DEF Painted
  <2> QED  BY <2>1, <2>3, <2>4, <2>5, Zenon DEF Painted
<1> QED  BY <1>4, <1>5, Zenon

(* The entry PUSH_COLOR_MAC_SAR4 makes, and the flags it raises.           *)
Colors(u) == [k \in 1 .. 3 |-> Sar(Signed(u.raw[24 + k], Word), ColorShift)]
Entry(u) ==
  Clamp(Colors(u)[1], 0, 2^Color - 1) + Clamp(Colors(u)[2], 0, 2^Color - 1) * 2^Color
    + Clamp(Colors(u)[3], 0, 2^Color - 1) * 2^(2 * Color)
    + (u.raw[6] \div 2^(3 * Color)) * 2^(3 * Color)
Limiteds(u) == UNION {Lim(Colors(u)[k], 0, 2^Color - 1, 22 - k) : k \in 1 .. 3}

LEMMA PushColorGives ==
  ASSUME NEW u, UnitOK(u)
  PROVE  LET v == PushColor(u) IN
         /\ UnitOK(v) /\ v.flag = FlagWord(u.flag \cup Limiteds(u)) /\ v.mac = u.mac
         /\ v.raw[20] = u.raw[21] /\ v.raw[21] = u.raw[22] /\ v.raw[22] = Entry(u)
         /\ \A j \in 0 .. 62 : j \notin 20 .. 22 => v.raw[j] = u.raw[j]
<1> DEFINE m == Colors(u)
           c == [k \in 1 .. 3 |-> Clamp(m[k], 0, 2^Color - 1)]
           code == u.raw[6] \div 2^(3 * Color)
           x == c[1] + c[2] * 2^Color + c[3] * 2^(2 * Color) + code * 2^(3 * Color)
           bits == Limiteds(u)
           v == [u EXCEPT !.raw[20] = u.raw[21], !.raw[21] = u.raw[22], !.raw[22] = x]
           f == FlagWord(v.flag \cup bits)
           w == [v EXCEPT !.flag = f]
<1>1. PushColor(u) = w
  BY Zenon DEF PushColor, Raise, Colors, Limiteds
<1>2. x = Entry(u)
  BY OneTwoThree, Zenon DEF Entry
<1>3. u \in Units
  BY DEF UnitOK
<1> HIDE DEF x, bits
<1>4. /\ v.flag = u.flag /\ v.mac = u.mac
      /\ v.raw[20] = u.raw[21] /\ v.raw[21] = u.raw[22] /\ v.raw[22] = x
      /\ \A j \in 0 .. 62 : j \notin 20 .. 22 => v.raw[j] = u.raw[j]
  BY <1>3, SMT DEF Units
<1>5. f = FlagWord(u.flag \cup bits)
  BY <1>4, Zenon
<1> HIDE DEF f
<1>6. w.flag = f /\ w.mac = v.mac /\ w.raw = v.raw
  BY <1>3, SMT DEF Units
<1>7. UnitOK(w)
  BY <1>1, PushColorOK, Zenon
<1> HIDE DEF v, w
<1> QED  BY <1>1, <1>2, <1>4, <1>5, <1>6, <1>7, Zenon DEF bits

LEMMA PushColorPaints == ASSUME NEW u, UnitOK(u) PROVE Painted(u, PushColor(u))
<1> DEFINE v == PushColor(u)
<1>1. /\ UnitOK(v) /\ v.flag = FlagWord(u.flag \cup Limiteds(u)) /\ v.mac = u.mac
      /\ v.raw[20] = u.raw[21] /\ v.raw[21] = u.raw[22] /\ v.raw[22] = Entry(u)
      /\ \A j \in 0 .. 62 : j \notin 20 .. 22 => v.raw[j] = u.raw[j]
  BY PushColorGives
<1>2. u.flag \subseteq v.flag
  BY <1>1, FlagGrows
<1>3. /\ \A i \in 0 .. 8 : i \in 0 .. 62 /\ i \notin 20 .. 22
      /\ \A i \in 32 .. 62 : i \in 0 .. 62 /\ i \notin 20 .. 22
  BY SMT
<1> HIDE DEF v
<1> QED  BY <1>1, <1>2, <1>3, Zenon DEF Painted, v

LEMMA InterpolatePaints ==
  ASSUME NEW u, UnitOK(u), NEW sf \in {0, 1}, NEW lm \in {0, 1}
  PROVE  Painted(u, Interpolate(u, sf, lm))
<1> DEFINE t == ToFar(u, u.mac, sf)
           b == Blend(t, u.mac, sf)
           i == MacIntoIR(b, lm)
<1>1. Vec(u.mac)
  BY MacType
<1>2. Steady(u, t, 9) /\ UnitOK(t)
  BY <1>1, ToFarSteady, SteadyOK
<1>3. Interpolate(u, sf, lm) = PushColor(i)
  BY Zenon DEF Interpolate
<1> HIDE DEF t
<1>4. Steady(t, b, 9) /\ UnitOK(b)
  BY <1>1, <1>2, BlendSteady, SteadyOK
<1> HIDE DEF b
<1>5. Steady(b, i, 9) /\ UnitOK(i)
  BY <1>4, MacIntoIRSteady, SteadyOK
<1> HIDE DEF i
<1>6. Steady(u, i, 9)
  BY <1>2, <1>4, <1>5, SteadyTwice, Zenon
<1>7. Painted(i, PushColor(i))
  BY <1>5, PushColorPaints
<1> QED  BY <1>3, <1>6, <1>7, SteadyPainted, Zenon

LEMMA ColorVec ==
  ASSUME NEW u, UnitOK(u), NEW from \in 0 .. 62
  PROVE  Vec([i \in 1 .. 3 |-> Rgb8(u, from)[i] * 2^(ColorShift + Shift)])
<1>1. ColorShift + Shift \in Nat
  BY Widths, SMT DEF ColorShift
<1>2. 2^(ColorShift + Shift) \in Int
  <2>1. 2^(ColorShift + Shift) \in Nat
    BY <1>1, PowerType
  <2> QED  BY <2>1, SMT
<1> QED  BY <1>2, RgbType, VecScaled, Zenon

LEMMA DpcPaints ==
  ASSUME NEW u, UnitOK(u), NEW sf \in {0, 1}, NEW lm \in {0, 1}, NEW from \in 0 .. 62
  PROVE  Painted(u, Dpc(u, sf, lm, from))
<1> DEFINE x == [i \in 1 .. 3 |-> Rgb8(u, from)[i] * 2^(ColorShift + Shift)]
           p == WriteMacs(u, x, 0)
<1>0. 0 \in {0, 1}
  BY SMT
<1>1. Vec(x)
  BY ColorVec, Zenon
<1>2. Dpc(u, sf, lm, from) = Interpolate(p, sf, lm)
  BY Zenon DEF Dpc
<1> HIDE DEF x
<1>3. Steady(u, p, 9) /\ UnitOK(p)
  BY <1>0, <1>1, WriteMacsSteady, SteadyOK
<1> HIDE DEF p
<1>4. Painted(p, Interpolate(p, sf, lm))
  BY <1>3, InterpolatePaints
<1> QED  BY <1>2, <1>3, <1>4, SteadyPainted, Zenon

LEMMA DcplPaints ==
  ASSUME NEW u, UnitOK(u), NEW sf \in {0, 1}, NEW lm \in {0, 1}
  PROVE  Painted(u, Dcpl(u, sf, lm))
<1> DEFINE p == WriteMacs(u, Tinted(u), 0)
<1>1. Vec(Tinted(u)) /\ 0 \in {0, 1}
  BY TintedType, SMT
<1>2. Steady(u, p, 9) /\ UnitOK(p)
  BY <1>1, WriteMacsSteady, SteadyOK
<1>3. Dcpl(u, sf, lm) = Interpolate(p, sf, lm)
  BY Zenon DEF Dcpl
<1> HIDE DEF p
<1>4. Painted(p, Interpolate(p, sf, lm))
  BY <1>2, InterpolatePaints
<1> QED  BY <1>2, <1>3, <1>4, SteadyPainted, Zenon

LEMMA TintPaints ==
  ASSUME NEW u, UnitOK(u), NEW sf \in {0, 1}, NEW lm \in {0, 1}
  PROVE  Painted(u, Tint(u, sf, lm))
<1> DEFINE p == WriteMacs(u, Tinted(u), sf)
           q == PushColor(p)
<1>1. Vec(Tinted(u))
  BY TintedType
<1>2. Steady(u, p, 9) /\ UnitOK(p)
  BY <1>1, WriteMacsSteady, SteadyOK
<1>3. Tint(u, sf, lm) = MacIntoIR(q, lm)
  BY Zenon DEF Tint
<1> HIDE DEF p
<1>4. Painted(p, q) /\ UnitOK(q)
  BY <1>2, PushColorPaints, PaintedOK
<1> HIDE DEF q
<1>5. Steady(q, MacIntoIR(q, lm), 9)
  BY <1>4, MacIntoIRSteady
<1> QED  BY <1>2, <1>3, <1>4, <1>5, SteadyPainted, Zenon

LEMMA LightSteady ==
  ASSUME NEW u, UnitOK(u), NEW sf \in {0, 1}, NEW lm \in {0, 1}
  PROVE  /\ Steady(u, Light(u, sf, lm), 9)
         /\ \A v \in 0 .. 3 : Steady(u, Normal(u, sf, lm, v), 9)
<1>1. 1 \in 0 .. 3 /\ 2 \in 0 .. 3 /\ 3 \in 0 .. 3 /\ 1 # 2 /\ 3 # 2
  BY SMT
<1> QED  BY <1>1, MvmvaSteady, Zenon DEF Light, Normal

LEMMA ColorRunPaints ==
  ASSUME NEW u, UnitOK(u), NEW op \in Singles \ {"RTPS"}, NEW sf \in {0, 1}, NEW lm \in {0, 1},
         NEW v \in 0 .. 3, NEW triple
  PROVE  Painted(u, Run(u, op, sf, lm, v, triple))
<1> DEFINE n == Normal(u, sf, lm, v)
           l == Light(n, sf, lm)
<1>1. Steady(u, n, 9) /\ UnitOK(n)
  BY LightSteady, SteadyOK
<1> HIDE DEF n
<1>2. Steady(n, l, 9) /\ UnitOK(l)
  BY <1>1, LightSteady, SteadyOK
<1> HIDE DEF l
<1>3. Steady(u, l, 9)
  BY <1>1, <1>2, SteadyTwice, Zenon
<1>4. CASE op = "NCDS"
  <2>1. Run(u, op, sf, lm, v, triple) = Ncd(u, sf, lm, v)
    BY <1>4 DEF Run
  <2>2. Painted(l, Dcpl(l, sf, lm))
    BY <1>2, DcplPaints
  <2> QED  BY <1>3, <2>1, <2>2, SteadyPainted, Zenon DEF Ncd, Cdp, n, l
<1>5. CASE op = "NCCS"
  <2>1. Run(u, op, sf, lm, v, triple) = Ncc(u, sf, lm, v)
    BY <1>5 DEF Run
  <2>2. Painted(l, Tint(l, sf, lm))
    BY <1>2, TintPaints
  <2> QED  BY <1>3, <2>1, <2>2, SteadyPainted, Zenon DEF Ncc, Cc, n, l
<1>6. CASE op = "NCS"
  <2>1. Run(u, op, sf, lm, v, triple) = Nc(u, sf, lm, v)
    BY <1>6 DEF Run
  <2>2. Painted(l, PushColor(l))
    BY <1>2, PushColorPaints
  <2> QED  BY <1>3, <2>1, <2>2, SteadyPainted, Zenon DEF Nc, n, l
<1>7. CASE op = "DPCS"
  <2>1. Run(u, op, sf, lm, v, triple) = Dpc(u, sf, lm, IF triple THEN 20 ELSE 6)
    BY <1>7 DEF Run
  <2>2. 20 \in 0 .. 62 /\ 6 \in 0 .. 62
    BY SMT
  <2>3. Painted(u, Dpc(u, sf, lm, 20)) /\ Painted(u, Dpc(u, sf, lm, 6))
    BY <2>2, DpcPaints
  <2> QED  BY <2>1, <2>3, Zenon
<1> QED  BY <1>4, <1>5, <1>6, <1>7 DEF Singles
-----------------------------------------------------------------------------
(* Two units that a command cannot tell apart: they agree on what it reads *)
(* besides its vertex or colour, and the flags of one are flags of the     *)
(* other.  While it is executed, they come to agree on the accumulators in *)
(* M, then on IR.                                                          *)
Lit == {8} \cup (32 .. 62)
Code(u) == u.raw[6] \div 2^(3 * Color)
Alike(u, w, M) ==
  /\ UnitOK(u) /\ UnitOK(w) /\ w.flag \subseteq u.flag
  /\ \A i \in Lit : w.raw[i] = u.raw[i]
  /\ Code(w) = Code(u)
  /\ \A i \in M : w.mac[i] = u.mac[i]
SameIR(u, w) == \A i \in 9 .. 11 : w.raw[i] = u.raw[i]
SameColor(u, w) == w.flag \subseteq u.flag /\ w.raw[22] = u.raw[22]

LEMMA LitIs ==
  /\ \A i \in Lit \cup {6} : i \in 0 .. 62
  /\ 8 \in Lit /\ \A i \in 32 .. 62 : i \in Lit
BY SMT DEF Lit

LEMMA AlikeOK == ASSUME NEW u, NEW w, NEW M, Alike(u, w, M) PROVE UnitOK(u) /\ UnitOK(w)
BY DEF Alike

LEMMA AlikeLess ==
  ASSUME NEW u, NEW w, NEW M, Alike(u, w, M), NEW N, N \subseteq M
  PROVE  Alike(u, w, N)
BY DEF Alike

LEMMA AlikeMore ==
  ASSUME NEW u, NEW w, Alike(u, w, {}), NEW M, \A i \in M : w.mac[i] = u.mac[i]
  PROVE  Alike(u, w, M)
BY DEF Alike

(* Two units stay alike when the same flags are raised in both and both    *)
(* change the same registers, of those that may.                           *)
Changed(u, p, B, X) ==
  /\ UnitOK(p) /\ p.flag = FlagWord(u.flag \cup B)
  /\ X \cap (Lit \cup {6}) = {}
  /\ \A j \in 0 .. 62 : j \notin X => p.raw[j] = u.raw[j]

LEMMA StillAlike ==
  ASSUME NEW u, NEW w, NEW M, Alike(u, w, M), NEW p, NEW q, NEW B, NEW X,
         Changed(u, p, B, X), Changed(w, q, B, X)
  PROVE  Alike(p, q, {})
<1>1. q.flag \subseteq p.flag
  <2>1. FlagWord(w.flag \cup B) \subseteq FlagWord(u.flag \cup B)
    BY DEF FlagWord, Alike
  <2> QED  BY <2>1 DEF Changed
<1>2. \A j \in Lit \cup {6} : p.raw[j] = u.raw[j] /\ q.raw[j] = w.raw[j]
  <2>1. \A j \in Lit \cup {6} : j \in 0 .. 62 /\ j \notin X
    BY LitIs DEF Changed
  <2> QED  BY <2>1, Zenon DEF Changed
<1>3. Code(q) = Code(p)
  <2>1. p.raw[6] = u.raw[6] /\ q.raw[6] = w.raw[6]
    BY <1>2
  <2> QED  BY <2>1, Zenon DEF Code, Alike
<1>4. \A j \in Lit : q.raw[j] = p.raw[j]
  <2>1. \A j \in Lit : w.raw[j] = u.raw[j]
    BY DEF Alike
  <2> QED  BY <1>2, <2>1
<1> QED  BY <1>1, <1>3, <1>4 DEF Alike, Changed

LEMMA WriteMacAlike ==
  ASSUME NEW u, NEW w, NEW M, M \subseteq 0 .. 3, Alike(u, w, M),
         NEW i \in 0 .. 3, NEW x \in Int, NEW sf \in {0, 1}
  PROVE  Alike(WriteMac(u, i, x, sf), WriteMac(w, i, x, sf), M \cup {i})
<1> DEFINE u1 == WriteMac(u, i, x, sf)
           w1 == WriteMac(w, i, x, sf)
           N == M \cup {i}
<1>1. UnitOK(u) /\ UnitOK(w)
  BY AlikeOK
<1>2. /\ UnitOK(u1)
      /\ u1.flag = FlagWord(u.flag \cup Overflow(i, x))
      /\ u1.mac[i] = Sar(Cut(i, x), sf * Shift)
      /\ \A j \in 0 .. 3 : j # i => u1.mac[j] = u.mac[j]
      /\ \A j \in 0 .. 62 : j # 24 + i => u1.raw[j] = u.raw[j]
  BY <1>1, WriteMacOK
<1>3. /\ UnitOK(w1)
      /\ w1.flag = FlagWord(w.flag \cup Overflow(i, x))
      /\ w1.mac[i] = Sar(Cut(i, x), sf * Shift)
      /\ \A j \in 0 .. 3 : j # i => w1.mac[j] = w.mac[j]
      /\ \A j \in 0 .. 62 : j # 24 + i => w1.raw[j] = w.raw[j]
  BY <1>1, WriteMacOK
<1> HIDE DEF u1, w1
<1>4. Alike(u1, w1, {})
  <2>1. {24 + i} \cap (Lit \cup {6}) = {}
    BY SMT DEF Lit
  <2>2. /\ \A j \in 0 .. 62 : j \notin {24 + i} => u1.raw[j] = u.raw[j]
        /\ \A j \in 0 .. 62 : j \notin {24 + i} => w1.raw[j] = w.raw[j]
    BY <1>2, <1>3, Zenon
  <2>3. Changed(u, u1, Overflow(i, x), {24 + i}) /\ Changed(w, w1, Overflow(i, x), {24 + i})
    BY <1>2, <1>3, <2>1, <2>2, Zenon DEF Changed
  <2> QED  BY <2>3, StillAlike
<1>8. \A j \in N : w1.mac[j] = u1.mac[j]
  <2> SUFFICES ASSUME NEW j \in N PROVE w1.mac[j] = u1.mac[j]
    OBVIOUS
  <2>1. CASE j = i
    BY <1>2, <1>3, <2>1, Zenon
  <2>2. CASE j # i
    BY <1>2, <1>3, <2>2 DEF Alike
  <2> QED  BY <2>1, <2>2
<1> HIDE DEF N
<1>9. Alike(u1, w1, N)
  BY <1>4, <1>8, AlikeMore
<1> QED  BY <1>9 DEF u1, w1, N

LEMMA WriteMacsAlike ==
  ASSUME NEW u, NEW w, Alike(u, w, {}), NEW x, Vec(x), NEW sf \in {0, 1}
  PROVE  Alike(WriteMacs(u, x, sf), WriteMacs(w, x, sf), 1 .. 3)
<1> DEFINE u1 == WriteMac(u, 1, x[1], sf)
           w1 == WriteMac(w, 1, x[1], sf)
           u2 == WriteMac(u1, 2, x[2], sf)
           w2 == WriteMac(w1, 2, x[2], sf)
           u3 == WriteMac(u2, 3, x[3], sf)
           w3 == WriteMac(w2, 3, x[3], sf)
<1>1. 1 \in 0 .. 3 /\ 2 \in 0 .. 3 /\ 3 \in 0 .. 3
  BY SMT
<1>2. x[1] \in Int /\ x[2] \in Int /\ x[3] \in Int
  BY DEF Vec
<1>3. Alike(u1, w1, {} \cup {1})
  BY <1>1, <1>2, WriteMacAlike
<1>4. {} \cup {1} = {1} /\ {1} \subseteq 0 .. 3
  BY SMT
<1> HIDE DEF u1, w1
<1>5. Alike(u2, w2, {1} \cup {2})
  BY <1>1, <1>2, <1>3, <1>4, WriteMacAlike
<1>6. {1} \cup {2} = {1, 2} /\ {1, 2} \subseteq 0 .. 3
  BY SMT
<1> HIDE DEF u2, w2
<1>7. Alike(u3, w3, {1, 2} \cup {3})
  BY <1>1, <1>2, <1>5, <1>6, WriteMacAlike
<1>8. {1, 2} \cup {3} = 1 .. 3
  BY SMT
<1> HIDE DEF u3, w3
<1>9. WriteMacs(u, x, sf) = u3 /\ WriteMacs(w, x, sf) = w3
  BY Zenon DEF WriteMacs, u1, u2, u3, w1, w2, w3
<1> QED  BY <1>7, <1>8, <1>9, Zenon

(* The registers MACi follow the accumulators.                             *)
LEMMA MacRegs ==
  ASSUME NEW u, NEW w, Alike(u, w, 1 .. 3), NEW i \in 1 .. 3
  PROVE  w.raw[24 + i] = u.raw[24 + i]
<1>1. i \in 0 .. 3
  BY SMT
<1>2. u.raw[24 + i] = Low(u.mac[i], Word) /\ w.raw[24 + i] = Low(w.mac[i], Word)
  BY <1>1, AlikeOK, Zenon DEF UnitOK, MacOK
<1> QED  BY <1>2, Zenon DEF Alike

LEMMA MacIntoIR1Alike ==
  ASSUME NEW u, NEW w, Alike(u, w, 1 .. 3), NEW i \in 1 .. 3, NEW lm \in {0, 1}
  PROVE  LET u1 == MacIntoIR1(u, i, lm)
             w1 == MacIntoIR1(w, i, lm)
         IN  /\ Alike(u1, w1, 1 .. 3) /\ w1.raw[8 + i] = u1.raw[8 + i]
             /\ \A j \in 9 .. 11 : w.raw[j] = u.raw[j] => w1.raw[j] = u1.raw[j]
<1> DEFINE u1 == MacIntoIR1(u, i, lm)
           w1 == MacIntoIR1(w, i, lm)
           m == Signed(u.raw[24 + i], Word)
           r == Low(Clamp(m, Least(lm), Most), Word)
           B == Lim(m, Least(lm), Most, 25 - i)
<1>1. UnitOK(u) /\ UnitOK(w)
  BY AlikeOK
<1>2. Signed(w.raw[24 + i], Word) = m
  BY MacRegs, Zenon
<1>3. Written(u, u1, i, m, lm) /\ Written(w, w1, i, m, lm)
  <2>1. Written(u, u1, i, m, lm)
    BY <1>1, MacIntoIR1Writes, Zenon
  <2>2. Written(w, w1, i, Signed(w.raw[24 + i], Word), lm)
    BY <1>1, MacIntoIR1Writes, Zenon
  <2> HIDE DEF w1, m
  <2> QED  BY <1>2, <2>1, <2>2, Zenon
<1> HIDE DEF u1, w1, m
<1>4. /\ UnitOK(u1) /\ u1.mac = u.mac /\ u1.raw[8 + i] = r
      /\ \A j \in 0 .. 62 : j # 8 + i => u1.raw[j] = u.raw[j]
      /\ u1.flag = FlagWord(u.flag \cup B)
      /\ UnitOK(w1) /\ w1.mac = w.mac /\ w1.raw[8 + i] = r
      /\ \A j \in 0 .. 62 : j # 8 + i => w1.raw[j] = w.raw[j]
      /\ w1.flag = FlagWord(w.flag \cup B)
  BY <1>3, Zenon DEF Written
<1> HIDE DEF r, B
<1>5. 8 + i \in 9 .. 11 /\ \A j \in 9 .. 11 : j \in 0 .. 62
  BY SMT
<1>6. Alike(u1, w1, {})
  <2>1. {8 + i} \cap (Lit \cup {6}) = {}
    BY SMT DEF Lit
  <2>2. /\ \A j \in 0 .. 62 : j \notin {8 + i} => u1.raw[j] = u.raw[j]
        /\ \A j \in 0 .. 62 : j \notin {8 + i} => w1.raw[j] = w.raw[j]
    BY <1>4, Zenon
  <2>3. Changed(u, u1, B, {8 + i}) /\ Changed(w, w1, B, {8 + i})
    BY <1>4, <2>1, <2>2, Zenon DEF Changed
  <2> QED  BY <2>3, StillAlike
<1>7. \A j \in 1 .. 3 : w1.mac[j] = u1.mac[j]
  BY <1>4, Zenon DEF Alike
<1>8. Alike(u1, w1, 1 .. 3)
  BY <1>6, <1>7, AlikeMore
<1>9. \A j \in 9 .. 11 : w.raw[j] = u.raw[j] => w1.raw[j] = u1.raw[j]
  BY <1>4, <1>5, Zenon
<1> QED  BY <1>4, <1>8, <1>9, Zenon DEF u1, w1

LEMMA MacIntoIRAlike ==
  ASSUME NEW u, NEW w, Alike(u, w, 1 .. 3), NEW lm \in {0, 1}
  PROVE  /\ Alike(MacIntoIR(u, lm), MacIntoIR(w, lm), 1 .. 3)
         /\ SameIR(MacIntoIR(u, lm), MacIntoIR(w, lm))
<1> DEFINE u1 == MacIntoIR1(u, 1, lm)
           w1 == MacIntoIR1(w, 1, lm)
           u2 == MacIntoIR1(u1, 2, lm)
           w2 == MacIntoIR1(w1, 2, lm)
           u3 == MacIntoIR1(u2, 3, lm)
           w3 == MacIntoIR1(w2, 3, lm)
<1>1. Alike(u1, w1, 1 .. 3) /\ w1.raw[8 + 1] = u1.raw[8 + 1]
  BY OneTwoThree, MacIntoIR1Alike
<1> HIDE DEF u1, w1
<1>2. /\ Alike(u2, w2, 1 .. 3) /\ w2.raw[8 + 2] = u2.raw[8 + 2]
      /\ \A j \in 9 .. 11 : w1.raw[j] = u1.raw[j] => w2.raw[j] = u2.raw[j]
  BY <1>1, OneTwoThree, MacIntoIR1Alike
<1> HIDE DEF u2, w2
<1>3. /\ Alike(u3, w3, 1 .. 3) /\ w3.raw[8 + 3] = u3.raw[8 + 3]
      /\ \A j \in 9 .. 11 : w2.raw[j] = u2.raw[j] => w3.raw[j] = u3.raw[j]
  BY <1>2, OneTwoThree, MacIntoIR1Alike
<1> HIDE DEF u3, w3
<1>4. 8 + 1 = 9 /\ 8 + 2 = 10 /\ 8 + 3 = 11 /\ 9 .. 11 = {9, 10, 11}
  BY SMT
<1>5. SameIR(u3, w3)
  BY <1>1, <1>2, <1>3, <1>4 DEF SameIR
<1>6. MacIntoIR(u, lm) = u3 /\ MacIntoIR(w, lm) = w3
  BY Zenon DEF MacIntoIR, u1, u2, u3, w1, w2, w3
<1> QED  BY <1>3, <1>5, <1>6, Zenon

LEMMA PushColorAlike ==
  ASSUME NEW u, NEW w, Alike(u, w, 1 .. 3)
  PROVE  /\ Alike(PushColor(u), PushColor(w), 1 .. 3)
         /\ SameColor(PushColor(u), PushColor(w))
<1> DEFINE u1 == PushColor(u)
           w1 == PushColor(w)
<1>1. /\ UnitOK(u1) /\ u1.flag = FlagWord(u.flag \cup Limiteds(u)) /\ u1.mac = u.mac
      /\ u1.raw[22] = Entry(u)
      /\ \A j \in 0 .. 62 : j \notin 20 .. 22 => u1.raw[j] = u.raw[j]
  BY AlikeOK, PushColorGives
<1>2. /\ UnitOK(w1) /\ w1.flag = FlagWord(w.flag \cup Limiteds(w)) /\ w1.mac = w.mac
      /\ w1.raw[22] = Entry(w)
      /\ \A j \in 0 .. 62 : j \notin 20 .. 22 => w1.raw[j] = w.raw[j]
  BY AlikeOK, PushColorGives
<1>3. Colors(w) = Colors(u)
  BY MacRegs, Zenon DEF Colors
<1>4. Limiteds(w) = Limiteds(u)
  BY <1>3, Zenon DEF Limiteds
<1>5. Entry(w) = Entry(u)
  <2>1. w.raw[6] \div 2^(3 * Color) = u.raw[6] \div 2^(3 * Color)
    BY Zenon DEF Alike, Code
  <2> QED  BY <1>3, <2>1, Zenon DEF Entry
<1> HIDE DEF u1, w1
<1>6. Alike(u1, w1, {})
  <2>1. (20 .. 22) \cap (Lit \cup {6}) = {}
    BY SMT DEF Lit
  <2>2. u1.flag = FlagWord(u.flag \cup Limiteds(u)) /\ w1.flag = FlagWord(w.flag \cup Limiteds(u))
    BY <1>1, <1>2, <1>4, Zenon
  <2>3. Changed(u, u1, Limiteds(u), 20 .. 22) /\ Changed(w, w1, Limiteds(u), 20 .. 22)
    BY <1>1, <1>2, <2>1, <2>2, Zenon DEF Changed
  <2> QED  BY <2>3, StillAlike
<1>9. \A j \in 1 .. 3 : w1.mac[j] = u1.mac[j]
  BY <1>1, <1>2, Zenon DEF Alike
<1>10. Alike(u1, w1, 1 .. 3)
  BY <1>6, <1>9, AlikeMore
<1>11. SameColor(u1, w1)
  BY <1>1, <1>2, <1>5, <1>6, Zenon DEF SameColor, Alike
<1> QED  BY <1>10, <1>11, Zenon DEF u1, w1
(* What a colour command reads of the control registers is in Lit.         *)
LEMMA LitElem ==
  ASSUME NEW u, NEW w, NEW M, Alike(u, w, M), NEW base \in {32, 40, 48}, NEW k \in 1 .. 9
  PROVE  Elem(w, base, k) = Elem(u, base, k)
<1> DEFINE n == base + (k - 1) \div 2
<1>1. n \in Lit
  <2>1. (k - 1) \div 2 \in 0 .. 4
    BY SMT
  <2> QED  BY <2>1, SMT DEF Lit
<1>2. w.raw[n] = u.raw[n]
  BY <1>1, Zenon DEF Alike
<1>3. Lo(w, n) = Lo(u, n) /\ Hi(w, n) = Hi(u, n)
  BY <1>2, Zenon DEF Lo, Hi
<1> QED  BY <1>3, Zenon DEF Elem

LEMMA LitOperands ==
  ASSUME NEW u, NEW w, NEW M, Alike(u, w, M)
  PROVE  /\ Matrix(w, 0) = Matrix(u, 0)
         /\ Matrix(w, 1) = Matrix(u, 1) /\ Matrix(w, 2) = Matrix(u, 2)
         /\ Translation(w, 0) = Translation(u, 0) /\ Translation(w, 1) = Translation(u, 1) /\ Translation(w, 3) = Translation(u, 3)
         /\ Words3(w, 53) = Words3(u, 53) /\ IR0(w) = IR0(u)
<1>1. ASSUME NEW mx \in {0, 1, 2} PROVE Matrix(w, mx) = Matrix(u, mx)
  <2> DEFINE base == 32 + 8 * mx
             e(y, i, j) == Elem(y, base, 3 * (i - 1) + j)
  <2>1. base \in {32, 40, 48} /\ mx # 3
    BY SMT
  <2>2. \A i \in 1 .. 3 : \A j \in 1 .. 3 : 3 * (i - 1) + j \in 1 .. 9
    BY SMT
  <2>3. /\ Matrix(w, mx) = [i \in 1 .. 3 |-> [j \in 1 .. 3 |-> e(w, i, j)]]
        /\ Matrix(u, mx) = [i \in 1 .. 3 |-> [j \in 1 .. 3 |-> e(u, i, j)]]
    BY <2>1, Zenon DEF Matrix
  <2>4. \A i \in 1 .. 3 : \A j \in 1 .. 3 : e(w, i, j) = e(u, i, j)
    <3> HIDE DEF base
    <3> QED  BY <2>1, <2>2, LitElem
  <2> HIDE DEF e
  <2> QED  BY <2>3, <2>4, Zenon
<1>2. ASSUME NEW base \in {37, 45, 53} PROVE Words3(w, base) = Words3(u, base)
  <2>1. \A i \in 1 .. 3 : base + i - 1 \in Lit
    BY SMT DEF Lit
  <2>2. \A i \in 1 .. 3 : w.raw[base + i - 1] = u.raw[base + i - 1]
    BY <2>1, Zenon DEF Alike
  <2> QED  BY <2>2, Zenon DEF Words3
<1>3. Translation(w, 0) = Translation(u, 0) /\ Translation(w, 1) = Translation(u, 1) /\ Translation(w, 3) = Translation(u, 3)
  <2>1. 37 + 8 * 0 = 37 /\ 37 + 8 * 1 = 45 /\ 0 # 3 /\ 1 # 3
    BY SMT
  <2>2. Words3(w, 37 + 8 * 0) = Words3(u, 37 + 8 * 0) /\ Words3(w, 37 + 8 * 1) = Words3(u, 37 + 8 * 1)
    BY <1>2, <2>1
  <2> QED  BY <2>1, <2>2, Zenon DEF Translation
<1>4. IR0(w) = IR0(u)
  <2>1. w.raw[8] = u.raw[8]
    BY LitIs, Zenon DEF Alike
  <2> QED  BY <2>1, Zenon DEF IR0
<1> QED  BY <1>1, <1>2, <1>3, <1>4

LEMMA SameIRs == ASSUME NEW u, NEW w, SameIR(u, w) PROVE IRs(w) = IRs(u)
<1>1. \A i \in 1 .. 3 : 8 + i \in 9 .. 11
  BY SMT
<1>2. \A i \in 1 .. 3 : w.raw[8 + i] = u.raw[8 + i]
  BY <1>1, Zenon DEF SameIR
<1> QED  BY <1>2, Zenon DEF IRs

LEMMA AddColumnAlike ==
  ASSUME NEW u, NEW w, Alike(u, w, 1 .. 3), NEW a, Mat(a), NEW b, Vec(b), NEW j \in 1 .. 3,
         NEW sf \in {0, 1}
  PROVE  Alike(AddColumn(u, a, b, j, sf), AddColumn(w, a, b, j, sf), 1 .. 3)
<1> DEFINE x == [i \in 1 .. 3 |-> u.mac[i] + a[i][j] * b[j]]
           y == [i \in 1 .. 3 |-> w.mac[i] + a[i][j] * b[j]]
<1>1. Vec(x)
  BY AlikeOK, MacType, VecPlus, Zenon
<1>2. y = x
  BY Zenon DEF Alike
<1>3. AddColumn(u, a, b, j, sf) = WriteMacs(u, x, sf)
  BY Zenon DEF AddColumn
<1>4. AddColumn(w, a, b, j, sf) = WriteMacs(w, y, sf)
  BY Zenon DEF AddColumn
<1> HIDE DEF x, y
<1>5. Alike(u, w, {})
  BY AlikeLess
<1>6. Alike(WriteMacs(u, x, sf), WriteMacs(w, x, sf), 1 .. 3)
  BY <1>1, <1>5, WriteMacsAlike
<1> QED  BY <1>2, <1>3, <1>4, <1>6, Zenon

LEMMA SumAlike ==
  ASSUME NEW u, NEW w, Alike(u, w, {}), NEW sf \in {0, 1},
         NEW a, Mat(a), NEW b, Vec(b), NEW c, Vec(c), NEW cv, cv # 2
  PROVE  Alike(Sum(u, sf, a, b, c, cv), Sum(w, sf, a, b, c, cv), 1 .. 3)
<1> DEFINE x1 == [i \in 1 .. 3 |-> c[i] * 2^Shift + a[i][1] * b[1]]
           s1 == WriteMacs(u, x1, 0)
           s2 == AddColumn(s1, a, b, 2, 0)
           s3 == AddColumn(s2, a, b, 3, sf)
           t1 == WriteMacs(w, x1, 0)
           t2 == AddColumn(t1, a, b, 2, 0)
           t3 == AddColumn(t2, a, b, 3, sf)
<1>1. 0 \in {0, 1}
  BY SMT
<1>2. Vec(x1)
  BY FirstColumn
<1>3. Sum(u, sf, a, b, c, cv) = s3
  BY Zenon DEF Sum
<1>4. Sum(w, sf, a, b, c, cv) = t3
  BY Zenon DEF Sum
<1> HIDE DEF x1
<1>5. Alike(s1, t1, 1 .. 3)
  BY <1>1, <1>2, WriteMacsAlike
<1> HIDE DEF s1, t1
<1>6. Alike(s2, t2, 1 .. 3)
  BY <1>1, <1>5, OneTwoThree, AddColumnAlike
<1> HIDE DEF s2, t2
<1>7. Alike(s3, t3, 1 .. 3)
  BY <1>6, OneTwoThree, AddColumnAlike
<1> HIDE DEF s3, t3
<1> QED  BY <1>3, <1>4, <1>7, Zenon

LEMMA MvmvaAlike ==
  ASSUME NEW u, NEW w, Alike(u, w, {}), NEW sf \in {0, 1}, NEW lm \in {0, 1},
         NEW mx \in 0 .. 3, NEW v \in 0 .. 3, NEW k \in 0 .. 3, NEW cv \in 0 .. 3, cv # 2,
         Matrix(w, mx) = Matrix(u, mx), Vector(w, k) = Vector(u, v),
         Translation(w, cv) = Translation(u, cv)
  PROVE  /\ Alike(Mvmva(u, sf, mx, v, cv, lm), Mvmva(w, sf, mx, k, cv, lm), 1 .. 3)
         /\ SameIR(Mvmva(u, sf, mx, v, cv, lm), Mvmva(w, sf, mx, k, cv, lm))
<1> DEFINE a == Matrix(u, mx)
           b == Vector(u, v)
           c == Translation(u, cv)
           p == Sum(u, sf, a, b, c, cv)
           q == Sum(w, sf, a, b, c, cv)
<1>1. Mat(a) /\ Vec(b) /\ Vec(c)
  BY AlikeOK, MatrixType, VectorType, TranslationType
<1>2. Mvmva(u, sf, mx, v, cv, lm) = MacIntoIR(p, lm)
  BY Zenon DEF Mvmva, Products
<1>3. Mvmva(w, sf, mx, k, cv, lm) = MacIntoIR(q, lm)
  BY Zenon DEF Mvmva, Products
<1> HIDE DEF a, b, c
<1>4. Alike(p, q, 1 .. 3)
  BY <1>1, SumAlike
<1> HIDE DEF p, q
<1>5. Alike(MacIntoIR(p, lm), MacIntoIR(q, lm), 1 .. 3) /\ SameIR(MacIntoIR(p, lm), MacIntoIR(q, lm))
  BY <1>4, MacIntoIRAlike
<1> QED  BY <1>2, <1>3, <1>5, Zenon

LEMMA ToFarAlike ==
  ASSUME NEW u, NEW w, Alike(u, w, {}), NEW m, Vec(m), NEW n, \A i \in 1 .. 3 : n[i] = m[i],
         NEW sf \in {0, 1}
  PROVE  /\ Alike(ToFar(u, m, sf), ToFar(w, n, sf), 1 .. 3)
         /\ SameIR(ToFar(u, m, sf), ToFar(w, n, sf))
<1> DEFINE x == [i \in 1 .. 3 |-> Words3(u, 53)[i] * 2^Shift - m[i]]
           y == [i \in 1 .. 3 |-> Words3(w, 53)[i] * 2^Shift - n[i]]
           p == WriteMacs(u, x, sf)
           q == WriteMacs(w, y, sf)
<1>1. Vec(x)
  BY AlikeOK, FarVec
<1>2. y = x
  BY LitOperands, Zenon
<1>3. 0 \in {0, 1}
  BY SMT
<1>4. ToFar(u, m, sf) = MacIntoIR(p, 0)
  BY Zenon DEF ToFar
<1>5. ToFar(w, n, sf) = MacIntoIR(q, 0)
  BY Zenon DEF ToFar
<1> HIDE DEF x, y
<1>6. Alike(p, q, 1 .. 3)
  BY <1>1, <1>2, WriteMacsAlike
<1> HIDE DEF p, q
<1>7. Alike(MacIntoIR(p, 0), MacIntoIR(q, 0), 1 .. 3) /\ SameIR(MacIntoIR(p, 0), MacIntoIR(q, 0))
  BY <1>3, <1>6, MacIntoIRAlike
<1> QED  BY <1>4, <1>5, <1>7, Zenon

LEMMA BlendAlike ==
  ASSUME NEW u, NEW w, Alike(u, w, {}), SameIR(u, w),
         NEW m, Vec(m), NEW n, \A i \in 1 .. 3 : n[i] = m[i], NEW sf \in {0, 1}
  PROVE  Alike(Blend(u, m, sf), Blend(w, n, sf), 1 .. 3)
<1> DEFINE x == [i \in 1 .. 3 |-> m[i] + IR0(u) * IRs(u)[i]]
           y == [i \in 1 .. 3 |-> n[i] + IR0(w) * IRs(w)[i]]
<1>1. Vec(x)
  BY AlikeOK, Blended
<1>2. y = x
  BY LitOperands, SameIRs, Zenon
<1>3. Blend(u, m, sf) = WriteMacs(u, x, sf)
  BY Zenon DEF Blend
<1>4. Blend(w, n, sf) = WriteMacs(w, y, sf)
  BY Zenon DEF Blend
<1> HIDE DEF x, y
<1>5. Alike(WriteMacs(u, x, sf), WriteMacs(w, x, sf), 1 .. 3)
  BY <1>1, WriteMacsAlike
<1> QED  BY <1>2, <1>3, <1>4, <1>5, Zenon

LEMMA InterpolateAlike ==
  ASSUME NEW u, NEW w, Alike(u, w, 1 .. 3), NEW sf \in {0, 1}, NEW lm \in {0, 1}
  PROVE  SameColor(Interpolate(u, sf, lm), Interpolate(w, sf, lm))
<1> DEFINE p1 == ToFar(u, u.mac, sf)
           p2 == Blend(p1, u.mac, sf)
           p3 == MacIntoIR(p2, lm)
           q1 == ToFar(w, w.mac, sf)
           q2 == Blend(q1, w.mac, sf)
           q3 == MacIntoIR(q2, lm)
<1>1. Vec(u.mac) /\ Alike(u, w, {})
  BY AlikeOK, AlikeLess, MacType
<1>2. \A i \in 1 .. 3 : w.mac[i] = u.mac[i]
  BY DEF Alike
<1>3. Interpolate(u, sf, lm) = PushColor(p3)
  BY Zenon DEF Interpolate
<1>4. Interpolate(w, sf, lm) = PushColor(q3)
  BY Zenon DEF Interpolate
<1>5. Alike(p1, q1, 1 .. 3) /\ SameIR(p1, q1)
  BY <1>1, <1>2, ToFarAlike
<1> HIDE DEF p1, q1
<1>6. Alike(p1, q1, {})
  BY <1>5, AlikeLess
<1>7. Alike(p2, q2, 1 .. 3)
  BY <1>1, <1>2, <1>5, <1>6, BlendAlike
<1> HIDE DEF p2, q2
<1>8. Alike(p3, q3, 1 .. 3)
  BY <1>7, MacIntoIRAlike
<1> HIDE DEF p3, q3
<1>9. SameColor(PushColor(p3), PushColor(q3))
  BY <1>8, PushColorAlike
<1> QED  BY <1>3, <1>4, <1>9, Zenon
LEMMA SteadyColor ==
  ASSUME NEW u, NEW v, Steady(u, v, 9)
  PROVE  v.raw[6] = u.raw[6] /\ v.raw[22] = u.raw[22]
<1>1. /\ 6 \in 0 .. 62 /\ 6 \notin 9 .. 11 /\ 6 \notin 24 .. 27
      /\ 22 \in 0 .. 62 /\ 22 \notin 9 .. 11 /\ 22 \notin 24 .. 27
  BY SMT
<1> QED  BY <1>1, Zenon DEF Steady

LEMMA TintedAlike ==
  ASSUME NEW u, NEW w, SameIR(u, w), w.raw[6] = u.raw[6]
  PROVE  Tinted(w) = Tinted(u)
<1>1. IRs(w) = IRs(u)
  BY SameIRs
<1>2. Rgb8(w, 6) = Rgb8(u, 6)
  BY Zenon DEF Rgb8
<1> QED  BY <1>1, <1>2, Zenon DEF Tinted

LEMMA DcplAlike ==
  ASSUME NEW u, NEW w, Alike(u, w, {}), SameIR(u, w), w.raw[6] = u.raw[6],
         NEW sf \in {0, 1}, NEW lm \in {0, 1}
  PROVE  SameColor(Dcpl(u, sf, lm), Dcpl(w, sf, lm))
<1> DEFINE x == Tinted(u)
           p == WriteMacs(u, x, 0)
           q == WriteMacs(w, x, 0)
<1>1. Vec(x) /\ Tinted(w) = x
  BY AlikeOK, TintedType, TintedAlike
<1>2. 0 \in {0, 1}
  BY SMT
<1>3. Dcpl(u, sf, lm) = Interpolate(p, sf, lm)
  BY Zenon DEF Dcpl
<1>4. Dcpl(w, sf, lm) = Interpolate(q, sf, lm)
  BY <1>1, Zenon DEF Dcpl
<1> HIDE DEF x
<1>5. Alike(p, q, 1 .. 3)
  BY <1>1, <1>2, WriteMacsAlike
<1> HIDE DEF p, q
<1>6. SameColor(Interpolate(p, sf, lm), Interpolate(q, sf, lm))
  BY <1>5, InterpolateAlike
<1> QED  BY <1>3, <1>4, <1>6, Zenon

LEMMA TintAlike ==
  ASSUME NEW u, NEW w, Alike(u, w, {}), SameIR(u, w), w.raw[6] = u.raw[6],
         NEW sf \in {0, 1}, NEW lm \in {0, 1}
  PROVE  SameColor(Tint(u, sf, lm), Tint(w, sf, lm))
<1> DEFINE x == Tinted(u)
           p1 == WriteMacs(u, x, sf)
           p2 == PushColor(p1)
           p3 == MacIntoIR(p2, lm)
           q1 == WriteMacs(w, x, sf)
           q2 == PushColor(q1)
           q3 == MacIntoIR(q2, lm)
<1>1. Vec(x) /\ Tinted(w) = x
  BY AlikeOK, TintedType, TintedAlike
<1>2. Tint(u, sf, lm) = p3
  BY Zenon DEF Tint
<1>3. Tint(w, sf, lm) = q3
  BY <1>1, Zenon DEF Tint
<1> HIDE DEF x
<1>4. Alike(p1, q1, 1 .. 3)
  BY <1>1, WriteMacsAlike
<1> HIDE DEF p1, q1
<1>5. Alike(p2, q2, 1 .. 3) /\ SameColor(p2, q2)
  BY <1>4, PushColorAlike
<1> HIDE DEF p2, q2
<1>6. UnitOK(p2) /\ UnitOK(q2)
  BY <1>5, AlikeOK
<1>7. Alike(p3, q3, 1 .. 3)
  BY <1>5, MacIntoIRAlike
<1>8. Steady(p2, p3, 9) /\ Steady(q2, q3, 9)
  BY <1>6, MacIntoIRSteady
<1> HIDE DEF p3, q3
<1>9. p3.raw[22] = p2.raw[22] /\ q3.raw[22] = q2.raw[22]
  BY <1>8, SteadyColor
<1>10. SameColor(p3, q3)
  BY <1>5, <1>7, <1>9, Zenon DEF SameColor, Alike
<1> QED  BY <1>2, <1>3, <1>10, Zenon

LEMMA DpcAlike ==
  ASSUME NEW u, NEW w, Alike(u, w, {}), NEW from \in 0 .. 62, Rgb8(w, 6) = Rgb8(u, from),
         NEW sf \in {0, 1}, NEW lm \in {0, 1}
  PROVE  SameColor(Dpc(u, sf, lm, from), Dpc(w, sf, lm, 6))
<1> DEFINE x == [i \in 1 .. 3 |-> Rgb8(u, from)[i] * 2^(ColorShift + Shift)]
           p == WriteMacs(u, x, 0)
           q == WriteMacs(w, x, 0)
<1>1. Vec(x)
  BY AlikeOK, ColorVec
<1>2. 0 \in {0, 1}
  BY SMT
<1>3. Dpc(u, sf, lm, from) = Interpolate(p, sf, lm)
  BY Zenon DEF Dpc
<1>4. Dpc(w, sf, lm, 6) = Interpolate(q, sf, lm)
  BY Zenon DEF Dpc
<1> HIDE DEF x
<1>5. Alike(p, q, 1 .. 3)
  BY <1>1, <1>2, WriteMacsAlike
<1> HIDE DEF p, q
<1>6. SameColor(Interpolate(p, sf, lm), Interpolate(q, sf, lm))
  BY <1>5, InterpolateAlike
<1> QED  BY <1>3, <1>4, <1>6, Zenon

(* A normal is turned into the light of the same colour in both units.     *)
LEMMA LitAlike ==
  ASSUME NEW u, NEW w, Alike(u, w, {}), NEW v \in 0 .. 3, Vector(w, 0) = Vector(u, v),
         w.raw[6] = u.raw[6], NEW sf \in {0, 1}, NEW lm \in {0, 1}
  PROVE  LET p == Light(Normal(u, sf, lm, v), sf, lm)
             q == Light(Normal(w, sf, lm, 0), sf, lm)
         IN  Alike(p, q, 1 .. 3) /\ SameIR(p, q) /\ q.raw[6] = p.raw[6]
<1> DEFINE n == Normal(u, sf, lm, v)
           o == Normal(w, sf, lm, 0)
           p == Light(n, sf, lm)
           q == Light(o, sf, lm)
<1>0. /\ 0 \in 0 .. 3 /\ 1 \in 0 .. 3 /\ 2 \in 0 .. 3 /\ 3 \in 0 .. 3 /\ 1 # 2 /\ 3 # 2
      /\ UnitOK(u) /\ UnitOK(w)
  BY AlikeOK, SMT
<1>1. Alike(n, o, 1 .. 3) /\ SameIR(n, o)
  <2>1. Matrix(w, 1) = Matrix(u, 1) /\ Translation(w, 3) = Translation(u, 3)
    BY LitOperands
  <2>2. /\ Alike(Mvmva(u, sf, 1, v, 3, lm), Mvmva(w, sf, 1, 0, 3, lm), 1 .. 3)
        /\ SameIR(Mvmva(u, sf, 1, v, 3, lm), Mvmva(w, sf, 1, 0, 3, lm))
    BY <1>0, <2>1, MvmvaAlike
  <2> QED  BY <2>2, Zenon DEF Normal
<1>2. Steady(u, n, 9) /\ Steady(w, o, 9)
  BY <1>0, LightSteady
<1> HIDE DEF n, o
<1>3. UnitOK(n) /\ UnitOK(o) /\ Alike(n, o, {})
  BY <1>1, AlikeOK, AlikeLess
<1>4. Alike(p, q, 1 .. 3) /\ SameIR(p, q)
  <2>1. Matrix(o, 2) = Matrix(n, 2) /\ Translation(o, 1) = Translation(n, 1)
    BY <1>1, LitOperands
  <2>2. Vector(o, 3) = Vector(n, 3)
    BY <1>1, SameIRs, Zenon DEF Vector
  <2>3. /\ Alike(Mvmva(n, sf, 2, 3, 1, lm), Mvmva(o, sf, 2, 3, 1, lm), 1 .. 3)
        /\ SameIR(Mvmva(n, sf, 2, 3, 1, lm), Mvmva(o, sf, 2, 3, 1, lm))
    BY <1>0, <1>3, <2>1, <2>2, MvmvaAlike
  <2> QED  BY <2>3, Zenon DEF Light
<1>5. Steady(n, p, 9) /\ Steady(o, q, 9)
  BY <1>3, LightSteady
<1> HIDE DEF p, q
<1>6. q.raw[6] = p.raw[6]
  <2>1. n.raw[6] = u.raw[6] /\ o.raw[6] = w.raw[6]
    BY <1>2, SteadyColor
  <2>2. p.raw[6] = n.raw[6] /\ q.raw[6] = o.raw[6]
    BY <1>5, SteadyColor
  <2> QED  BY <2>1, <2>2
<1> QED  BY <1>4, <1>6, Zenon DEF n, o, p, q

LEMMA ColorRunAlike ==
  ASSUME NEW u, NEW w, Alike(u, w, {}), NEW op \in Singles \ {"RTPS"}, NEW v \in 0 .. 3,
         op # "DPCS" => Vector(w, 0) = Vector(u, v) /\ w.raw[6] = u.raw[6],
         op = "DPCS" => Rgb8(w, 6) = Rgb8(u, 20),
         NEW sf \in {0, 1}, NEW lm \in {0, 1}
  PROVE  SameColor(Run(u, op, sf, lm, v, TRUE), Run(w, op, sf, lm, 0, FALSE))
<1> DEFINE p == Light(Normal(u, sf, lm, v), sf, lm)
           q == Light(Normal(w, sf, lm, 0), sf, lm)
<1>1. op # "DPCS" => Alike(p, q, 1 .. 3) /\ SameIR(p, q) /\ q.raw[6] = p.raw[6]
  BY LitAlike
<1>2. /\ Ncd(u, sf, lm, v) = Dcpl(p, sf, lm) /\ Ncd(w, sf, lm, 0) = Dcpl(q, sf, lm)
      /\ Ncc(u, sf, lm, v) = Tint(p, sf, lm) /\ Ncc(w, sf, lm, 0) = Tint(q, sf, lm)
      /\ Nc(u, sf, lm, v) = PushColor(p) /\ Nc(w, sf, lm, 0) = PushColor(q)
  BY Zenon DEF Ncd, Cdp, Ncc, Cc, Nc
<1> HIDE DEF p, q
<1>3. CASE op = "NCDS"
  <2>1. /\ Run(u, op, sf, lm, v, TRUE) = Ncd(u, sf, lm, v)
        /\ Run(w, op, sf, lm, 0, FALSE) = Ncd(w, sf, lm, 0)
    BY <1>3 DEF Run
  <2>2. Alike(p, q, {}) /\ SameIR(p, q) /\ q.raw[6] = p.raw[6]
    BY <1>1, <1>3, AlikeLess
  <2>3. SameColor(Dcpl(p, sf, lm), Dcpl(q, sf, lm))
    BY <2>2, DcplAlike
  <2> QED  BY <1>2, <2>1, <2>3, Zenon
<1>4. CASE op = "NCCS"
  <2>1. /\ Run(u, op, sf, lm, v, TRUE) = Ncc(u, sf, lm, v)
        /\ Run(w, op, sf, lm, 0, FALSE) = Ncc(w, sf, lm, 0)
    BY <1>4 DEF Run
  <2>2. Alike(p, q, {}) /\ SameIR(p, q) /\ q.raw[6] = p.raw[6]
    BY <1>1, <1>4, AlikeLess
  <2>3. SameColor(Tint(p, sf, lm), Tint(q, sf, lm))
    BY <2>2, TintAlike
  <2> QED  BY <1>2, <2>1, <2>3, Zenon
<1>5. CASE op = "NCS"
  <2>1. /\ Run(u, op, sf, lm, v, TRUE) = Nc(u, sf, lm, v)
        /\ Run(w, op, sf, lm, 0, FALSE) = Nc(w, sf, lm, 0)
    BY <1>5 DEF Run
  <2>2. SameColor(PushColor(p), PushColor(q))
    BY <1>1, <1>5, PushColorAlike
  <2> QED  BY <1>2, <2>1, <2>2, Zenon
<1>6. CASE op = "DPCS"
  <2>1. /\ Run(u, op, sf, lm, v, TRUE) = Dpc(u, sf, lm, 20)
        /\ Run(w, op, sf, lm, 0, FALSE) = Dpc(w, sf, lm, 6)
    BY <1>6 DEF Run
  <2>2. 20 \in 0 .. 62
    BY SMT
  <2>3. SameColor(Dpc(u, sf, lm, 20), Dpc(w, sf, lm, 6))
    BY <1>6, <2>2, DpcAlike
  <2> QED  BY <2>1, <2>3, Zenon
<1> QED  BY <1>3, <1>4, <1>5, <1>6 DEF Singles
-----------------------------------------------------------------------------
(* What a command for one vertex or colour starts from: the unit with the  *)
(* flags cleared and the vertex, or the colour, in the first place.        *)
LEMMA ClearedIs ==
  ASSUME NEW u, UnitOK(u)
  PROVE  UnitOK(Cleared(u)) /\ Cleared(u).raw = u.raw /\ Cleared(u).mac = u.mac /\ Cleared(u).flag = {}
<1>1. UnitOK(Cleared(u))
  BY ClearedOK, Zenon DEF Cleared
<1>2. u \in Units
  BY DEF UnitOK
<1>3. Cleared(u).raw = u.raw /\ Cleared(u).mac = u.mac /\ Cleared(u).flag = {}
  BY <1>2, SMT DEF Cleared, Units
<1> QED  BY <1>1, <1>3

Replaced(u, v, i, x) == v.raw[i] = x /\ \A j \in 0 .. 62 : j # i => v.raw[j] = u.raw[j]

LEMMA PutIs ==
  ASSUME NEW u, UnitOK(u), NEW i \in 0 .. 62, NEW x
  PROVE  Replaced(u, Put(u, i, x), i, x)
<1>1. u \in Units
  BY DEF UnitOK
<1> QED  BY <1>1, SMT DEF Put, Units, Replaced

(* The three digits below the code, and the code, of a word put together   *)
(* from two.                                                               *)
Spelt(z, P, a, b, c, q) ==
  /\ z % P = a /\ (z \div P) % P = b /\ (z \div (P * P)) % P = c
  /\ z \div (P * P * P) = q /\ z % (P * P * P) = a + b * P + c * (P * P)

LEMMA Digits ==
  ASSUME NEW P \in Nat, P > 0, NEW a \in 0 .. P - 1, NEW b \in 0 .. P - 1, NEW c \in 0 .. P - 1,
         NEW q \in Nat, NEW z, z = P * (P * (P * q + c) + b) + a
  PROVE  Spelt(z, P, a, b, c, q)
<1> DEFINE s == P * q + c
           t == P * s + b
<1>1. /\ P * P \in Nat /\ P * P > 0 /\ P * P * P \in Nat /\ P * P * P > 0
      /\ s \in Int /\ t \in Int /\ z = P * t + a
  BY SMT
<1>2. s % P = c /\ s \div P = q
  BY Remainder, SMT
<1>3. t % P = b /\ t \div P = s
  <2> HIDE DEF s
  <2> QED  BY <1>1, Remainder
<1>4. z % P = a /\ z \div P = t
  <2> HIDE DEF t
  <2> QED  BY <1>1, Remainder
<1>5. z \div (P * P) = s
  <2> DEFINE m == P * P
             r == P * b + a
  <2>1. r \in 0 .. m - 1
    <3>1. b * P \in 0 .. (P - 1) * P
      BY SMT
    <3> QED  BY <3>1, SMT
  <2>2. z = m * s + r
    <3>1. z = P * (P * s + b) + a
      BY <1>1
    <3> HIDE DEF s
    <3> QED  BY <1>1, <3>1, SMT
  <2> HIDE DEF m, r, s
  <2>3. m \in Nat /\ m > 0
    BY <1>1 DEF m
  <2> QED  BY <1>1, <2>1, <2>2, <2>3, Remainder DEF m
<1>6. z \div (P * P * P) = q /\ z % (P * P * P) = a + b * P + c * (P * P)
  <2> DEFINE m == P * P * P
             r == a + b * P + c * (P * P)
  <2>1. r \in 0 .. m - 1
    <3>1. a + b * P \in 0 .. P * P - 1
      BY Pack
    <3>2. (a + b * P) + c * (P * P) \in 0 .. (P * P) * P - 1
      <4> DEFINE n == P * P
                 x == a + b * P
      <4>1. n \in Nat /\ x \in 0 .. n - 1
        BY <1>1, <3>1
      <4> HIDE DEF n, x
      <4>2. x + c * n \in 0 .. n * P - 1
        BY <4>1, Pack
      <4> QED  BY <4>2 DEF n, x
    <3> QED  BY <3>2, SMT
  <2>2. z = m * q + r
    BY <1>1, SMT
  <2> HIDE DEF m, r
  <2>3. m \in Nat /\ m > 0
    BY <1>1 DEF m
  <2>4. z \div m = q /\ z % m = r
    BY <2>1, <2>2, <2>3, Remainder
  <2> QED  BY <2>4 DEF m, r
<1> QED  BY <1>2, <1>3, <1>4, <1>5, <1>6 DEF Spelt
(* The colours packed into a word, which Rgb8 unpacks.                     *)
Unpacked(x) == [k \in 1 .. 3 |-> Low(x \div 2^((k - 1) * Color), Color)]

LEMMA UnpackedDigits ==
  ASSUME NEW x \in Nat
  PROVE  /\ Unpacked(x)[1] = x % 2^Color /\ Unpacked(x)[2] = (x \div 2^Color) % 2^Color
         /\ Unpacked(x)[3] = (x \div (2^Color * 2^Color)) % 2^Color
<1>1. (1 - 1) * Color = 0 /\ (2 - 1) * Color = Color /\ (3 - 1) * Color = 2 * Color
  BY Widths, SMT
<1>2. 2^0 = 1 /\ x \div 1 = x
  BY SMT
<1>3. /\ Unpacked(x)[1] = Low(x \div 2^((1 - 1) * Color), Color)
      /\ Unpacked(x)[2] = Low(x \div 2^((2 - 1) * Color), Color)
      /\ Unpacked(x)[3] = Low(x \div 2^((3 - 1) * Color), Color)
  BY OneTwoThree, Zenon DEF Unpacked
<1>4. 2^(2 * Color) = 2^Color * 2^Color
  BY ColorPowers
<1> QED  BY <1>1, <1>2, <1>3, <1>4, Zenon DEF Low

(* The low colours of one word below the code of another.                  *)
LEMMA Recolored ==
  ASSUME NEW x \in Words, NEW y \in Words
  PROVE  LET z == Low(x, 3 * Color) + (y \div 2^(3 * Color)) * 2^(3 * Color) IN
         /\ z \in Words /\ z \div 2^(3 * Color) = y \div 2^(3 * Color)
         /\ Unpacked(z) = Unpacked(x)
<1> DEFINE P == 2^Color
           m == P * P * P
           z == Low(x, 3 * Color) + (y \div 2^(3 * Color)) * 2^(3 * Color)
           x1 == x \div P
           x2 == x1 \div P
           x3 == x2 \div P
           a == x % P
           b == x1 % P
           c == x2 % P
           h == y \div m
<1>1. P \in Nat /\ P > 0 /\ 2^(3 * Color) = m /\ Words = 0 .. m * P - 1
  BY Powers, ColorPowers, Zenon DEF Words
<1> HIDE DEF P
<1>2. m \in Nat /\ m > 0
  BY <1>1, SMT
<1>3. x \in Int /\ y \in Int /\ x \in Nat
  BY <1>1, <1>2, SMT
<1>4. x1 \in Int /\ a \in 0 .. P - 1 /\ x = P * x1 + a
  BY <1>1, <1>3, Division
<1> HIDE DEF x1, a
<1>5. x2 \in Int /\ b \in 0 .. P - 1 /\ x1 = P * x2 + b
  BY <1>1, <1>4, Division
<1> HIDE DEF x2, b
<1>6. x3 \in Int /\ c \in 0 .. P - 1 /\ x2 = P * x3 + c
  BY <1>1, <1>5, Division
<1> HIDE DEF x3, c
<1>7. x1 >= 0 /\ x2 >= 0 /\ x3 \in Nat
  <2>1. ASSUME NEW s \in Int, NEW t \in Int, NEW r \in 0 .. P - 1, s = P * t + r, s >= 0
        PROVE  t >= 0
    <3>1. CASE t < 0
      <4>1. P * t <= -P
        BY <1>1, <3>1, SMT
      <4> QED  BY <1>1, <2>1, <4>1, SMT
    <3> QED  BY <3>1, SMT
  <2>2. x1 >= 0
    BY <1>3, <1>4, <2>1
  <2>3. x2 >= 0
    BY <1>4, <1>5, <2>1, <2>2
  <2>4. x3 >= 0
    BY <1>5, <1>6, <2>1, <2>3
  <2> QED  BY <1>6, <2>2, <2>3, <2>4, SMT
<1>8. x = P * (P * (P * x3 + c) + b) + a
  BY <1>4, <1>5, <1>6, Zenon
<1>9. Spelt(x, P, a, b, c, x3)
  <2> HIDE DEF m
  <2> QED  BY <1>1, <1>4, <1>5, <1>6, <1>7, <1>8, Digits
<1>10. h \in 0 .. P - 1 /\ h \in Nat
  <2> HIDE DEF m
  <2>1. h \in 0 .. P - 1
    BY <1>1, <1>2, HighPart
  <2> HIDE DEF h
  <2> QED  BY <1>1, <2>1, SMT
<1>11. z = (a + b * P + c * (P * P)) + h * m
  <2>1. x % m = a + b * P + c * (P * P)
    BY <1>9 DEF Spelt
  <2> HIDE DEF m, P
  <2> QED  BY <1>1, <2>1, Zenon DEF Low
<1>12. z = P * (P * (P * h + c) + b) + a
  <2> HIDE DEF h, z
  <2> QED  BY <1>1, <1>4, <1>5, <1>6, <1>10, <1>11, SMT
<1>13. z \in Words
  <2>1. x % m \in 0 .. m - 1
    <3> HIDE DEF m
    <3> QED  BY <1>2, <1>3, Division
  <2>2. (x % m) + h * m \in 0 .. m * P - 1
    <3> HIDE DEF m, h
    <3> QED  BY <1>1, <1>2, <1>10, <2>1, Pack
  <2>3. x % m = a + b * P + c * (P * P)
    BY <1>9 DEF Spelt
  <2> HIDE DEF m, h, z
  <2> QED  BY <1>1, <1>11, <2>2, <2>3, Zenon
<1> HIDE DEF z, h
<1>14. z \in Nat
  BY <1>1, <1>2, <1>13, SMT
<1>15. Spelt(z, P, a, b, c, h)
  <2> HIDE DEF m
  <2> QED  BY <1>1, <1>4, <1>5, <1>6, <1>10, <1>12, Digits
<1>16. Unpacked(z) = Unpacked(x)
  <2>1. ASSUME NEW s \in Nat, NEW q, Spelt(s, P, a, b, c, q)
        PROVE  Unpacked(s)[1] = a /\ Unpacked(s)[2] = b /\ Unpacked(s)[3] = c
    BY <2>1, UnpackedDigits, Zenon DEF Spelt, P
  <2>2. /\ Unpacked(z)[1] = Unpacked(x)[1] /\ Unpacked(z)[2] = Unpacked(x)[2]
        /\ Unpacked(z)[3] = Unpacked(x)[3]
    <3>1. Unpacked(z)[1] = a /\ Unpacked(z)[2] = b /\ Unpacked(z)[3] = c
      BY <1>14, <1>15, <2>1
    <3>2. Unpacked(x)[1] = a /\ Unpacked(x)[2] = b /\ Unpacked(x)[3] = c
      BY <1>3, <1>9, <2>1
    <3> QED  BY <3>1, <3>2
  <2>3. 1 .. 3 = {1, 2, 3}
    BY SMT
  <2>4. \A k \in 1 .. 3 : Unpacked(z)[k] = Unpacked(x)[k]
    BY <2>2, <2>3, Zenon
  <2>5. \A s : Unpacked(s) = [k \in 1 .. 3 |-> Unpacked(s)[k]]
    BY Zenon DEF Unpacked
  <2> QED  BY <2>4, <2>5, Zenon
<1>17. z \div 2^(3 * Color) = y \div 2^(3 * Color)
  BY <1>1, <1>15, Zenon DEF h, Spelt
<1> QED  BY <1>13, <1>16, <1>17, Zenon DEF z
LEMMA AloneVertex ==
  ASSUME NEW u, UnitOK(u), NEW op, op # "DPCT", NEW k \in 0 .. 2
  PROVE  LET w == Alone(u, op, k) IN
         /\ UnitOK(w) /\ Vector(w, 0) = Vector(u, k)
         /\ \A j \in 2 .. 62 : w.raw[j] = u.raw[j]
<1> DEFINE a == u.raw[2 * k]
           b == u.raw[2 * k + 1]
           v == Put(u, 0, a)
           w == Put(v, 1, b)
<1>1. Alone(u, op, k) = w
  BY Zenon DEF Alone, Put
<1>2. /\ 0 \in 0 .. 62 /\ 1 \in 0 .. 62 /\ 0 \notin 24 .. 27 /\ 1 \notin 24 .. 27 /\ 0 # 1
      /\ 2 * k \in 0 .. 62 /\ 2 * k + 1 \in Signed16 /\ 2 * k + 1 \in 0 .. 62
  BY SMT DEF Signed16
<1>3. RegOK(0, a)
  <2>1. 0 \notin Signed16 /\ 0 \notin Unsigned16
    BY SMT DEF Signed16, Unsigned16
  <2>2. a \in Words
    BY <1>2, RegType
  <2> QED  BY <1>2, <2>1, <2>2, PlainOK
<1>4. RegOK(1, b)
  <2>1. 1 \in Signed16 /\ 1 \notin Unsigned16
    BY SMT DEF Signed16, Unsigned16
  <2>2. RegOK(2 * k + 1, b)
    BY <1>2, Zenon DEF UnitOK
  <2> HIDE DEF b
  <2> QED  BY <1>2, <2>1, <2>2, Zenon DEF RegOK
<1> HIDE DEF a, b
<1>5. UnitOK(v)
  BY <1>2, <1>3, PutOK
<1>6. v.raw[0] = a /\ \A j \in 0 .. 62 : j # 0 => v.raw[j] = u.raw[j]
  <2>1. Replaced(u, v, 0, a)
    BY <1>2, PutIs
  <2> HIDE DEF v
  <2> QED  BY <2>1 DEF Replaced
<1> HIDE DEF v
<1>7. UnitOK(w)
  BY <1>2, <1>4, <1>5, PutOK
<1>8. w.raw[1] = b /\ \A j \in 0 .. 62 : j # 1 => w.raw[j] = v.raw[j]
  <2>1. Replaced(v, w, 1, b)
    BY <1>2, <1>5, PutIs
  <2> HIDE DEF w
  <2> QED  BY <2>1 DEF Replaced
<1> HIDE DEF w
<1>9. w.raw[0] = a
  BY <1>2, <1>6, <1>8
<1>10. \A j \in 2 .. 62 : w.raw[j] = u.raw[j]
  <2>1. \A j \in 2 .. 62 : j \in 0 .. 62 /\ j # 0 /\ j # 1
    BY SMT
  <2> QED  BY <1>6, <1>8, <2>1, Zenon
<1>11. Vector(w, 0) = Vector(u, k)
  <2>1. 2 * 0 = 0 /\ 2 * 0 + 1 = 1 /\ 0 # 3 /\ k # 3
    BY SMT
  <2>2. Vector(w, 0) = Three(Lo(w, 2 * 0), Hi(w, 2 * 0), Lo(w, 2 * 0 + 1))
    BY <2>1, Zenon DEF Vector
  <2>3. Vector(u, k) = Three(Lo(u, 2 * k), Hi(u, 2 * k), Lo(u, 2 * k + 1))
    BY <2>1, Zenon DEF Vector
  <2>4. Lo(w, 0) = Lo(u, 2 * k) /\ Hi(w, 0) = Hi(u, 2 * k) /\ Lo(w, 1) = Lo(u, 2 * k + 1)
    BY <1>8, <1>9, Zenon DEF Lo, Hi, a, b
  <2> QED  BY <2>1, <2>2, <2>3, <2>4
<1> QED  BY <1>1, <1>7, <1>10, <1>11, Zenon

LEMMA AloneColor ==
  ASSUME NEW u, UnitOK(u), NEW k \in 0 .. 2
  PROVE  LET w == Alone(u, "DPCT", k) IN
         /\ UnitOK(w) /\ Code(w) = Code(u) /\ Rgb8(w, 6) = Unpacked(u.raw[20 + k])
         /\ \A j \in 0 .. 62 : j # 6 => w.raw[j] = u.raw[j]
<1> DEFINE x == u.raw[20 + k]
           y == u.raw[6]
           z == Low(x, 3 * Color) + (y \div 2^(3 * Color)) * 2^(3 * Color)
           w == Put(u, 6, z)
<1>1. Alone(u, "DPCT", k) = w
  BY Zenon DEF Alone, Put
<1>2. 6 \in 0 .. 62 /\ 20 + k \in 0 .. 62 /\ 6 \notin 24 .. 27 /\ 6 \notin Signed16 /\ 6 \notin Unsigned16
  BY SMT DEF Signed16, Unsigned16
<1>3. x \in Words /\ y \in Words
  BY <1>2, RegType
<1> HIDE DEF x, y
<1>4. z \in Words /\ z \div 2^(3 * Color) = y \div 2^(3 * Color) /\ Unpacked(z) = Unpacked(x)
  BY <1>3, Recolored
<1> HIDE DEF z
<1>5. RegOK(6, z)
  BY <1>2, <1>4, PlainOK
<1>6. UnitOK(w)
  BY <1>2, <1>5, PutOK
<1>7. w.raw[6] = z /\ \A j \in 0 .. 62 : j # 6 => w.raw[j] = u.raw[j]
  <2>1. Replaced(u, w, 6, z)
    BY <1>2, PutIs
  <2> HIDE DEF w
  <2> QED  BY <2>1 DEF Replaced
<1> HIDE DEF w
<1>8. Code(w) = Code(u)
  BY <1>4, <1>7, Zenon DEF Code, y
<1>9. Rgb8(w, 6) = Unpacked(x)
  <2>1. Rgb8(w, 6) = Unpacked(z)
    BY <1>7, Zenon DEF Rgb8, Unpacked
  <2> QED  BY <1>4, <2>1
<1> QED  BY <1>1, <1>6, <1>7, <1>8, <1>9, Zenon DEF x

(* The unit before run k of a command for three, seen from the start.      *)
Reached(u, r, k) ==
  /\ UnitOK(r) /\ r.raw[20] = u.raw[20 + k]
  /\ \A i \in 0 .. 8 : r.raw[i] = u.raw[i]
  /\ \A i \in 32 .. 62 : r.raw[i] = u.raw[i]

LEMMA ReachedVector ==
  ASSUME NEW u, NEW r, NEW k \in 0 .. 2, \A i \in 0 .. 8 : r.raw[i] = u.raw[i]
  PROVE  Vector(r, k) = Vector(u, k)
<1>1. 2 * k \in 0 .. 8 /\ 2 * k + 1 \in 0 .. 8 /\ k # 3
  BY SMT
<1>2. Lo(r, 2 * k) = Lo(u, 2 * k) /\ Hi(r, 2 * k) = Hi(u, 2 * k) /\ Lo(r, 2 * k + 1) = Lo(u, 2 * k + 1)
  BY <1>1, Zenon DEF Lo, Hi
<1> QED  BY <1>1, <1>2, Zenon DEF Vector

LEMMA ColorRunOfThree ==
  ASSUME NEW u, UnitOK(u), NEW op \in Triples \ {"RTPT"}, NEW k \in 0 .. 2, NEW r, Reached(u, r, k),
         NEW sf \in {0, 1}, NEW lm \in {0, 1}
  PROVE  SameColor(Run(r, Single[op], sf, lm, k, TRUE),
                   Run(Cleared(Alone(u, op, k)), Single[op], sf, lm, 0, FALSE))
<1> DEFINE a == Alone(u, op, k)
           w == Cleared(a)
<1>1. /\ Single[op] \in Singles \ {"RTPS"} /\ (Single[op] = "DPCS" <=> op = "DPCT")
      /\ k \in 0 .. 3
  BY SMT DEF Triples, Single, Singles
<1>2. /\ UnitOK(a) /\ Code(a) = Code(u) /\ \A j \in Lit : a.raw[j] = u.raw[j]
      /\ op # "DPCT" => Vector(a, 0) = Vector(u, k) /\ a.raw[6] = u.raw[6]
      /\ op = "DPCT" => Rgb8(a, 6) = Unpacked(u.raw[20 + k])
  <2>1. /\ \A j \in Lit : j \in 0 .. 62 /\ j \in 2 .. 62 /\ j # 6
        /\ 6 \in 2 .. 62
    BY SMT DEF Lit
  <2>2. CASE op = "DPCT"
    <3>1. /\ UnitOK(a) /\ Code(a) = Code(u) /\ Rgb8(a, 6) = Unpacked(u.raw[20 + k])
          /\ \A j \in 0 .. 62 : j # 6 => a.raw[j] = u.raw[j]
      BY <2>2, AloneColor
    <3> HIDE DEF a
    <3> QED  BY <2>1, <2>2, <3>1, Zenon
  <2>3. CASE op # "DPCT"
    <3>1. /\ UnitOK(a) /\ Vector(a, 0) = Vector(u, k)
          /\ \A j \in 2 .. 62 : a.raw[j] = u.raw[j]
      BY <2>3, AloneVertex
    <3> HIDE DEF a
    <3>2. a.raw[6] = u.raw[6] /\ \A j \in Lit : a.raw[j] = u.raw[j]
      BY <2>1, <3>1, Zenon
    <3>3. Code(a) = Code(u)
      BY <3>2, Zenon DEF Code
    <3> QED  BY <2>3, <3>1, <3>2, <3>3, Zenon
  <2> QED  BY <2>2, <2>3
<1> HIDE DEF a
<1>3. UnitOK(w) /\ w.raw = a.raw /\ w.flag = {}
  BY <1>2, ClearedIs
<1> HIDE DEF w
<1>4. /\ UnitOK(r) /\ r.raw[6] = u.raw[6] /\ r.raw[20] = u.raw[20 + k]
      /\ \A j \in Lit : r.raw[j] = u.raw[j]
  <2>1. 6 \in 0 .. 8 /\ 8 \in 0 .. 8
    BY SMT
  <2>2. \A j \in Lit : j = 8 \/ j \in 32 .. 62
    BY Zenon DEF Lit
  <2> QED  BY <2>1, <2>2, Zenon DEF Reached
<1>5. Alike(r, w, {})
  <2>1. \A j \in Lit : w.raw[j] = r.raw[j]
    BY <1>2, <1>3, <1>4, Zenon
  <2>2. Code(w) = Code(r)
    <3>1. Code(w) = Code(a)
      BY <1>3, Zenon DEF Code
    <3>2. Code(r) = Code(u)
      BY <1>4, Zenon DEF Code
    <3> QED  BY <1>2, <3>1, <3>2
  <2>3. w.flag \subseteq r.flag
    BY <1>3
  <2> QED  BY <1>3, <1>4, <2>1, <2>2, <2>3, Zenon DEF Alike
<1>6. Single[op] # "DPCS" => Vector(w, 0) = Vector(r, k) /\ w.raw[6] = r.raw[6]
  <2>1. Vector(w, 0) = Vector(a, 0)
    <3>1. \A i : Lo(w, i) = Lo(a, i) /\ Hi(w, i) = Hi(a, i)
      BY <1>3, Zenon DEF Lo, Hi
    <3>2. \A y : Vector(y, 0) = Three(Lo(y, 2 * 0), Hi(y, 2 * 0), Lo(y, 2 * 0 + 1))
      BY SMT DEF Vector
    <3> QED  BY <3>1, <3>2, Zenon
  <2>2. Vector(r, k) = Vector(u, k)
    BY ReachedVector DEF Reached
  <2> QED  BY <1>1, <1>2, <1>3, <1>4, <2>1, <2>2, Zenon
<1>7. Single[op] = "DPCS" => Rgb8(w, 6) = Rgb8(r, 20)
  <2>1. Rgb8(w, 6) = Rgb8(a, 6)
    BY <1>3, Zenon DEF Rgb8
  <2>2. Rgb8(r, 20) = Unpacked(u.raw[20 + k])
    BY <1>4, Zenon DEF Rgb8, Unpacked
  <2> QED  BY <1>1, <1>2, <2>1, <2>2, Zenon
<1>8. SameColor(Run(r, Single[op], sf, lm, k, TRUE), Run(w, Single[op], sf, lm, 0, FALSE))
  BY <1>1, <1>5, <1>6, <1>7, ColorRunAlike
<1> QED  BY <1>8 DEF w, a
-----------------------------------------------------------------------------
(* A command for a vertex: what it moves on in the queues of depths and of *)
(* pixels, what it puts there, and what it keeps.                          *)
Shifted(u, v, z) ==
  /\ UnitOK(v)
  /\ v.raw[17] = u.raw[18] /\ v.raw[18] = u.raw[19] /\ v.raw[19] = z
  /\ \A j \in 0 .. 62 : j \notin 16 .. 19 => v.raw[j] = u.raw[j]

LEMMA PushZGives ==
  ASSUME NEW u, UnitOK(u), NEW z \in Int
  PROVE  /\ Shifted(u, PushZ(u, z), Clamp(z, 0, 2^Half - 1))
         /\ Changed(u, PushZ(u, z), Lim(z, 0, 2^Half - 1, 18), 16 .. 19)
<1> DEFINE c == Clamp(z, 0, 2^Half - 1)
           B == Lim(z, 0, 2^Half - 1, 18)
           v == [u EXCEPT !.raw[16] = u.raw[17], !.raw[17] = u.raw[18], !.raw[18] = u.raw[19],
                          !.raw[19] = c]
           f == FlagWord(v.flag \cup B)
           w == [v EXCEPT !.flag = f]
<1>1. u \in Units
  BY DEF UnitOK
<1>2. PushZ(u, z) = w
  BY Zenon DEF PushZ, Raise
<1> HIDE DEF c, B
<1>3. /\ v.flag = u.flag
      /\ v.raw[17] = u.raw[18] /\ v.raw[18] = u.raw[19] /\ v.raw[19] = c
      /\ \A j \in 0 .. 62 : j \notin 16 .. 19 => v.raw[j] = u.raw[j]
  BY <1>1, SMT DEF Units
<1>4. f = FlagWord(u.flag \cup B)
  BY <1>3, Zenon
<1> HIDE DEF f
<1>5. w.flag = f /\ w.raw = v.raw
  BY <1>1, SMT DEF Units
<1>6. UnitOK(w)
  BY <1>2, PushZOK, Zenon
<1> HIDE DEF w, v
<1>7. Shifted(u, w, c)
  BY <1>3, <1>5, <1>6, Zenon DEF Shifted
<1>8. (16 .. 19) \cap (Lit \cup {6}) = {}
  BY SMT DEF Lit
<1>9. Changed(u, w, B, 16 .. 19)
  BY <1>3, <1>4, <1>5, <1>6, <1>8, Zenon DEF Changed
<1> QED  BY <1>2, <1>7, <1>9, Zenon DEF c, B

LEMMA RaiseChanged == ASSUME NEW u, UnitOK(u), NEW B PROVE Changed(u, Raise(u, B), B, {})
<1>1. /\ UnitOK(Raise(u, B)) /\ Raise(u, B).raw = u.raw
      /\ Raise(u, B).flag = FlagWord(u.flag \cup B)
  BY RaiseIs
<1>2. {} \cap (Lit \cup {6}) = {}
  OBVIOUS
<1> QED  BY <1>1, <1>2, Zenon DEF Changed

(* IR3 and the flags of the depth, before the depth is pushed.             *)
Depth(u, wide, sf, lm) ==
  SetIR(Raise(u, Lim(Sar(wide, Shift), Least(0), Most, 22)), 3,
        Clamp(Signed(Sar(wide, sf * Shift), Word), Least(lm), Most))

LEMMA DepthChanged ==
  ASSUME NEW u, UnitOK(u), NEW wide \in Int, NEW sf \in {0, 1}, NEW lm \in {0, 1}
  PROVE  /\ Changed(u, Depth(u, wide, sf, lm), Lim(Sar(wide, Shift), Least(0), Most, 22), {11})
         /\ LimitDepth(u, wide, sf, lm) = PushZ(Depth(u, wide, sf, lm), Sar(wide, Shift))
<1> DEFINE B == Lim(Sar(wide, Shift), Least(0), Most, 22)
           s == Signed(Sar(wide, sf * Shift), Word)
           c == Clamp(s, Least(lm), Most)
           r == Raise(u, B)
           v == SetIR(r, 3, c)
<1>1. c \in Numbers(Half)
  <2>1. sf * Shift \in Nat
    BY Widths, SMT
  <2>2. Sar(wide, sf * Shift) \in Int
    BY <2>1, SarType
  <2>3. s \in Int
    BY <2>2, SignedRange, Widths
  <2> HIDE DEF s
  <2> QED  BY <2>3, ClampRange, Limits
<1>2. Depth(u, wide, sf, lm) = v
  BY Zenon DEF Depth
<1>3. LimitDepth(u, wide, sf, lm) = PushZ(Depth(u, wide, sf, lm), Sar(wide, Shift))
  BY Zenon DEF LimitDepth, Depth
<1> HIDE DEF B, c
<1>4. UnitOK(r) /\ r.raw = u.raw /\ r.flag = FlagWord(u.flag \cup B)
  BY RaiseIs
<1> HIDE DEF r
<1>5. 3 \in 0 .. 3 /\ 8 + 3 = 11
  BY SMT
<1>6. /\ UnitOK(v) /\ v.flag = r.flag
      /\ \A j \in 0 .. 62 : j # 8 + 3 => v.raw[j] = r.raw[j]
  BY <1>1, <1>4, <1>5, SetIROK, Zenon
<1> HIDE DEF v
<1>7. {11} \cap (Lit \cup {6}) = {}
  BY SMT DEF Lit
<1>8. \A j \in 0 .. 62 : j \notin {11} => v.raw[j] = u.raw[j]
  BY <1>4, <1>5, <1>6, Zenon
<1>9. Changed(u, v, B, {11})
  BY <1>4, <1>6, <1>7, <1>8, Zenon DEF Changed
<1> QED  BY <1>2, <1>3, <1>9, Zenon DEF B

LEMMA ScaledSteady ==
  ASSUME NEW u, UnitOK(u), NEW base \in 0 .. 62, NEW factor \in Int, NEW div \in Int, NEW n
  PROVE  Steady(u, Scaled(u, base, factor, div), n)
<1> DEFINE x == Signed(u.raw[base], Word) + factor * div
<1>1. x \in Int
  <2>1. Signed(u.raw[base], Word) \in Int
    BY RegType
  <2> QED  BY <2>1, SMT
<1>2. Scaled(u, base, factor, div) = WriteMac(u, 0, x, 0)
  BY Zenon DEF Scaled
<1>3. 0 \in 0 .. 3 /\ 0 \in {0, 1}
  BY SMT
<1> HIDE DEF x
<1> QED  BY <1>1, <1>2, <1>3, WriteMacSteady, Zenon

LEMMA ScaledAlike ==
  ASSUME NEW u, NEW w, NEW M, M \subseteq {0}, Alike(u, w, M), NEW base \in 32 .. 62,
         NEW factor \in Int, NEW div \in Int
  PROVE  Alike(Scaled(u, base, factor, div), Scaled(w, base, factor, div), {0})
<1> DEFINE x == Signed(u.raw[base], Word) + factor * div
<1>1. x \in Int
  <2>1. base \in 0 .. 62
    BY SMT
  <2>2. Signed(u.raw[base], Word) \in Int
    BY <2>1, AlikeOK, RegType
  <2> QED  BY <2>2, SMT
<1>2. w.raw[base] = u.raw[base]
  BY LitIs, Zenon DEF Alike
<1>3. Scaled(u, base, factor, div) = WriteMac(u, 0, x, 0)
  BY Zenon DEF Scaled
<1>4. Scaled(w, base, factor, div) = WriteMac(w, 0, x, 0)
  BY <1>2, Zenon DEF Scaled
<1>5. 0 \in 0 .. 3 /\ 0 \in {0, 1} /\ {} \subseteq 0 .. 3 /\ {} \cup {0} = {0}
  BY SMT
<1> HIDE DEF x
<1>6. Alike(u, w, {})
  BY AlikeLess
<1>7. Alike(WriteMac(u, 0, x, 0), WriteMac(w, 0, x, 0), {} \cup {0})
  BY <1>1, <1>5, <1>6, WriteMacAlike
<1> QED  BY <1>3, <1>4, <1>5, <1>7, Zenon

LEMMA FadeSteady == ASSUME NEW u, UnitOK(u) PROVE Steady(u, Fade(u), 8)
<1> DEFINE p == Sar(u.mac[0], Shift)
           c == Clamp(p, 0, 2^Shift)
           r == Raise(u, Lim(p, 0, 2^Shift, 12))
<1>1. p \in Int
  <2>1. 0 \in 0 .. 3 /\ Shift \in Nat
    BY Widths, SMT
  <2> QED  BY <2>1, MacAt
<1>2. Fade(u) = SetIR(r, 0, c)
  BY Zenon DEF Fade, LimitFade
<1> HIDE DEF p
<1>3. c \in 0 .. 2^Shift
  <2>1. 0 \in Int /\ 2^Shift \in Int /\ 0 <= 2^Shift
    BY Powers, SMT
  <2> QED  BY <1>1, <2>1, ClampRange
<1> HIDE DEF c
<1>4. c \in Numbers(Half)
  BY <1>3, Powers, SMT DEF Numbers
<1>5. Steady(u, r, 8) /\ UnitOK(r)
  BY RaiseSteady, SteadyOK
<1> HIDE DEF r
<1>6. 0 \in 0 .. 3 /\ 8 \in {8, 9} /\ 8 <= 8 + 0
  BY SMT
<1>7. Steady(r, SetIR(r, 0, c), 8)
  BY <1>4, <1>5, <1>6, SetIRSteady
<1> QED  BY <1>2, <1>5, <1>7, SteadyTwice, Zenon
(* The rest of the command, from the division on, pushes the pixel.        *)
Edges(sx, sy) == Pixel(sx) + Pixel(sy) * 2^Half
SecondOf(x, div) == Scaled(x, 57, IRs(x)[2], div)
Drawn(u, v, n, pixel) ==
  /\ UnitOK(v)
  /\ v.raw[12] = u.raw[13] /\ v.raw[13] = u.raw[14] /\ v.raw[14] = pixel
  /\ \A j \in 0 .. 62 : j \notin n .. 14 /\ j \notin 24 .. 27 => v.raw[j] = u.raw[j]

LEMMA PushPixelDraws ==
  ASSUME NEW u, UnitOK(u), NEW sx \in Int, NEW sy \in Int, NEW n, n = 8 \/ n = 9
  PROVE  Drawn(u, PushPixel(u, sx, sy), n, Edges(sx, sy))
<1> DEFINE x == Edges(sx, sy)
           r == Raise(u, Lim(sx, -Edge, Edge - 1, 14) \cup Lim(sy, -Edge, Edge - 1, 13))
           v == [r EXCEPT !.raw[12] = r.raw[13], !.raw[13] = r.raw[14], !.raw[14] = x]
<1>1. x \in Words
  <2>1. x \in 0 .. 2^Half * 2^Half - 1
    BY PixelType, Powers, Pack, Zenon DEF Edges
  <2> QED  BY <2>1, Powers, Zenon DEF Words
<1>2. UnitOK(r) /\ r.raw = u.raw
  BY RaiseIs
<1>3. PushPixel(u, sx, sy) = v
  <2>1. Write(r, 15, x) = PushSXY(r, x)
    BY SMT DEF Write, Signed16, Unsigned16
  <2> QED  BY <2>1, Zenon DEF PushPixel, PushSXY, Edges
<1> HIDE DEF x, r
<1>4. r \in Units
  BY <1>2 DEF UnitOK
<1>5. /\ v.raw[12] = r.raw[13] /\ v.raw[13] = r.raw[14] /\ v.raw[14] = x
      /\ \A j \in 0 .. 62 : j \notin 12 .. 14 => v.raw[j] = r.raw[j]
  BY <1>4, SMT DEF Units
<1>6. UnitOK(v)
  BY <1>1, <1>2, PushSXYOK DEF PushSXY
<1> HIDE DEF v
<1>7. \A j \in 0 .. 62 : j \notin n .. 14 => j \notin 12 .. 14
  BY SMT
<1>8. Drawn(u, v, n, x)
  BY <1>2, <1>5, <1>6, <1>7, Zenon DEF Drawn
<1> QED  BY <1>3, <1>8, Zenon DEF x

LEMMA SteadyDrawn ==
  ASSUME NEW u, NEW v, NEW w, NEW n, n = 8 \/ n = 9, Steady(u, v, n), NEW pixel, Drawn(v, w, n, pixel)
  PROVE  Drawn(u, w, n, pixel)
<1>1. /\ 13 \in 0 .. 62 /\ 13 \notin n .. 11 /\ 13 \notin 24 .. 27
      /\ 14 \in 0 .. 62 /\ 14 \notin n .. 11 /\ 14 \notin 24 .. 27
      /\ \A j \in 0 .. 62 : j \notin n .. 14 => j \notin n .. 11
  BY SMT
<1>2. v.raw[13] = u.raw[13] /\ v.raw[14] = u.raw[14]
  BY <1>1, Zenon DEF Steady
<1>3. w.raw[12] = u.raw[13] /\ w.raw[13] = u.raw[14] /\ w.raw[14] = pixel /\ UnitOK(w)
  BY <1>2, Zenon DEF Drawn
<1>4. \A j \in 0 .. 62 : j \notin n .. 14 /\ j \notin 24 .. 27 => w.raw[j] = u.raw[j]
  <2> SUFFICES ASSUME NEW j \in 0 .. 62, j \notin n .. 14, j \notin 24 .. 27
               PROVE  w.raw[j] = u.raw[j]
    BY Zenon
  <2>1. w.raw[j] = v.raw[j]
    BY Zenon DEF Drawn
  <2>2. v.raw[j] = u.raw[j]
    BY <1>1, Zenon DEF Steady
  <2> QED  BY <2>1, <2>2
<1> QED  BY <1>3, <1>4, Zenon DEF Drawn

LEMMA ToScreenDraws ==
  ASSUME NEW u, UnitOK(u), NEW div \in Int, NEW depth_queue
  PROVE  Drawn(u, ToScreen(u, div, depth_queue), IF depth_queue THEN 8 ELSE 9,
               Edges(Sar(u.mac[0], Half), Sar(SecondOf(u, div).mac[0], Half)))
<1> DEFINE y == SecondOf(u, div)
           w == Scaled(y, 60, Lo(y, 59), div)
           t == IF depth_queue THEN Fade(w) ELSE y
           sx == Sar(u.mac[0], Half)
           sy == Sar(y.mac[0], Half)
           n == IF depth_queue THEN 8 ELSE 9
<1>1. /\ 57 \in 0 .. 62 /\ 60 \in 0 .. 62 /\ 59 \in 0 .. 62 /\ 0 \in 0 .. 3 /\ Half \in Nat
      /\ IRs(u)[2] \in Int
  BY Widths, IRType, SMT DEF Vec
<1>2. Steady(u, y, 9) /\ Steady(u, y, 8) /\ UnitOK(y)
  BY <1>1, ScaledSteady, SteadyOK, Zenon DEF SecondOf
<1>3. ToScreen(u, div, depth_queue) = PushPixel(t, sx, sy)
  BY Zenon DEF ToScreen, SecondOf
<1> HIDE DEF y
<1>4. Lo(y, 59) \in Int
  BY <1>1, <1>2, HalvesType
<1>5. Steady(y, w, 8) /\ UnitOK(w)
  <2> DEFINE f == Lo(y, 59)
  <2>1. f \in Int
    BY <1>4
  <2> HIDE DEF f
  <2>2. Steady(y, Scaled(y, 60, f, div), 8)
    BY <1>1, <1>2, <2>1, ScaledSteady, Zenon
  <2>3. Steady(y, w, 8)
    BY <2>2 DEF f
  <2> QED  BY <2>3, SteadyOK
<1> HIDE DEF w
<1>6. Steady(u, t, n) /\ UnitOK(t)
  <2>1. Steady(w, Fade(w), 8)
    BY <1>5, FadeSteady
  <2>2. Steady(u, Fade(w), 8)
    BY <1>2, <1>5, <2>1, SteadyTwice, Zenon
  <2>3. Steady(u, t, n)
    BY <1>2, <2>2, Zenon
  <2> QED  BY <2>3, SteadyOK, Zenon
<1>7. sx \in Int /\ sy \in Int
  BY <1>1, <1>2, MacAt
<1>8. n = 8 \/ n = 9
  BY Zenon
<1> HIDE DEF t, sx, sy, n
<1>9. Drawn(t, PushPixel(t, sx, sy), n, Edges(sx, sy))
  BY <1>6, <1>7, <1>8, PushPixelDraws, Zenon
<1>10. Drawn(u, PushPixel(t, sx, sy), n, Edges(sx, sy))
  BY <1>6, <1>8, <1>9, SteadyDrawn, Zenon
<1> QED  BY <1>3, <1>10, Zenon DEF y, sx, sy, n

LEMMA ScreenAlike ==
  ASSUME NEW u, NEW w, Alike(u, w, {0}), NEW div \in Int, IRs(w)[2] = IRs(u)[2]
  PROVE  Edges(Sar(w.mac[0], Half), Sar(SecondOf(w, div).mac[0], Half))
           = Edges(Sar(u.mac[0], Half), Sar(SecondOf(u, div).mac[0], Half))
<1>1. w.mac[0] = u.mac[0]
  BY Zenon DEF Alike
<1>2. 57 \in 32 .. 62 /\ {0} \subseteq {0} /\ IRs(u)[2] \in Int
  BY AlikeOK, IRType, SMT DEF Vec
<1>3. Alike(SecondOf(u, div), SecondOf(w, div), {0})
  BY <1>2, ScaledAlike, Zenon DEF SecondOf
<1>4. SecondOf(w, div).mac[0] = SecondOf(u, div).mac[0]
  BY <1>3, Zenon DEF Alike
<1> QED  BY <1>1, <1>4, Zenon
-----------------------------------------------------------------------------
(* Project: two units that hold the same vertex come to hold the same IR1, *)
(* IR2 and depth.                                                          *)
Within(u, v, n) ==
  /\ UnitOK(v) /\ v.raw[17] = u.raw[18] /\ v.raw[18] = u.raw[19]
  /\ \A j \in 0 .. 62 : j \notin n .. 11 /\ j \notin 16 .. 19 /\ j \notin 24 .. 27 => v.raw[j] = u.raw[j]

LEMMA ProjectWithin ==
  ASSUME NEW u, UnitOK(u), NEW sf \in {0, 1}, NEW lm \in {0, 1}, NEW v \in 0 .. 3
  PROVE  Within(u, Project(u, sf, lm, v), 9)
<1> DEFINE p == Products(u, sf, 0, v, 0)
           q == Products(u, 0, 0, v, 0)
           wide == q.mac[3]
           z == Sar(wide, Shift)
           p1 == MacIntoIR1(p, 1, lm)
           p2 == MacIntoIR1(p1, 2, lm)
           d == Depth(p2, wide, sf, lm)
           e == PushZ(d, z)
<1>1. 0 \in 0 .. 3 /\ 3 \in 0 .. 3 /\ 0 \in {0, 1} /\ 0 # 2 /\ Shift \in Nat
  BY Widths, SMT
<1>2. Steady(u, p, 9)
  BY <1>1, ProductsSteady
<1>3. UnitOK(q)
  BY <1>1, ProductsOK
<1>4. Project(u, sf, lm, v) = LimitDepth(p2, wide, sf, lm)
  BY Zenon DEF Project
<1> HIDE DEF p, q
<1>5. wide \in Int
  BY <1>1, <1>3, MacAt
<1> HIDE DEF wide
<1>6. z \in Int
  BY <1>1, <1>5, SarType
<1>7. Steady(p, p1, 9) /\ UnitOK(p1)
  <2>1. UnitOK(p)
    BY <1>2, SteadyOK
  <2> QED  BY <2>1, OneTwoThree, MacIntoIR1Steady, SteadyOK
<1> HIDE DEF p1
<1>8. Steady(p1, p2, 9) /\ UnitOK(p2)
  BY <1>7, OneTwoThree, MacIntoIR1Steady, SteadyOK
<1> HIDE DEF p2
<1>9. Steady(u, p2, 9)
  BY <1>2, <1>7, <1>8, SteadyTwice, Zenon
<1>10. /\ Changed(p2, d, Lim(z, Least(0), Most, 22), {11})
       /\ LimitDepth(p2, wide, sf, lm) = e
  BY <1>5, <1>8, DepthChanged
<1>11. UnitOK(d)
  BY <1>10 DEF Changed
<1> HIDE DEF d, z
<1>12. Shifted(d, e, Clamp(z, 0, 2^Half - 1))
  BY <1>6, <1>11, PushZGives
<1> HIDE DEF e
<1>13. /\ 18 \in 0 .. 62 /\ 18 \notin 9 .. 11 /\ 18 \notin 24 .. 27 /\ 18 \notin {11}
       /\ 19 \in 0 .. 62 /\ 19 \notin 9 .. 11 /\ 19 \notin 24 .. 27 /\ 19 \notin {11}
       /\ 11 \in 9 .. 11
  BY SMT
<1>14. \A j \in 0 .. 62 : j \notin 9 .. 11 /\ j \notin 24 .. 27 => d.raw[j] = u.raw[j]
  <2> SUFFICES ASSUME NEW j \in 0 .. 62, j \notin 9 .. 11, j \notin 24 .. 27
               PROVE  d.raw[j] = u.raw[j]
    BY Zenon
  <2>1. p2.raw[j] = u.raw[j]
    BY <1>9, Zenon DEF Steady
  <2>2. j \notin {11}
    BY <1>13
  <2>3. d.raw[j] = p2.raw[j]
    BY <1>10, <2>2, Zenon DEF Changed
  <2> QED  BY <2>1, <2>3
<1>15. d.raw[18] = u.raw[18] /\ d.raw[19] = u.raw[19]
  BY <1>13, <1>14, Zenon
<1>16. Within(u, e, 9)
  BY <1>12, <1>14, <1>15, Zenon DEF Within, Shifted
<1> QED  BY <1>4, <1>10, <1>16, Zenon

Projected(p, q) ==
  /\ Alike(p, q, {})
  /\ q.raw[9] = p.raw[9] /\ q.raw[10] = p.raw[10] /\ q.raw[19] = p.raw[19]

LEMMA ProjectAlike ==
  ASSUME NEW u, NEW w, Alike(u, w, {}), NEW v \in 0 .. 3, NEW k \in 0 .. 3, Vector(w, k) = Vector(u, v),
         NEW sf \in {0, 1}, NEW lm \in {0, 1}
  PROVE  Projected(Project(u, sf, lm, v), Project(w, sf, lm, k))
<1> DEFINE wide == Products(u, 0, 0, v, 0).mac[3]
           z == Sar(wide, Shift)
           B == Lim(z, Least(0), Most, 22)
           C == Lim(z, 0, 2^Half - 1, 18)
           c == Clamp(z, 0, 2^Half - 1)
           p0 == Products(u, sf, 0, v, 0)
           p1 == MacIntoIR1(p0, 1, lm)
           p2 == MacIntoIR1(p1, 2, lm)
           p3 == Depth(p2, wide, sf, lm)
           p4 == PushZ(p3, z)
           q0 == Products(w, sf, 0, k, 0)
           q1 == MacIntoIR1(q0, 1, lm)
           q2 == MacIntoIR1(q1, 2, lm)
           q3 == Depth(q2, wide, sf, lm)
           q4 == PushZ(q3, z)
<1>1. 0 \in 0 .. 3 /\ 3 \in 0 .. 3 /\ 3 \in 1 .. 3 /\ 0 \in {0, 1} /\ 0 # 2 /\ Shift \in Nat
  BY Widths, SMT
<1>2. UnitOK(u) /\ UnitOK(w)
  BY AlikeOK
<1>3. /\ Alike(p0, q0, 1 .. 3)
      /\ Products(w, 0, 0, k, 0).mac[3] = wide
  <2> DEFINE a == Matrix(u, 0)
             b == Vector(u, v)
             t == Translation(u, 0)
  <2>1. Mat(a) /\ Vec(b) /\ Vec(t)
    BY <1>1, <1>2, MatrixType, VectorType, TranslationType
  <2>2. Matrix(w, 0) = a /\ Translation(w, 0) = t
    BY LitOperands
  <2>3. \A s : Products(u, s, 0, v, 0) = Sum(u, s, a, b, t, 0)
    BY Zenon DEF Products
  <2>4. \A s : Products(w, s, 0, k, 0) = Sum(w, s, a, b, t, 0)
    BY <2>2, Zenon DEF Products
  <2> HIDE DEF a, b, t
  <2>5. \A s \in {0, 1} : Alike(Sum(u, s, a, b, t, 0), Sum(w, s, a, b, t, 0), 1 .. 3)
    BY <1>1, <2>1, SumAlike
  <2>6. Alike(p0, q0, 1 .. 3)
    BY <2>3, <2>4, <2>5
  <2>7. Alike(Products(u, 0, 0, v, 0), Products(w, 0, 0, k, 0), 1 .. 3)
    BY <1>1, <2>3, <2>4, <2>5
  <2>8. Products(w, 0, 0, k, 0).mac[3] = Products(u, 0, 0, v, 0).mac[3]
    BY <1>1, <2>7, Zenon DEF Alike
  <2> QED  BY <2>6, <2>8
<1>4. Project(u, sf, lm, v) = LimitDepth(p2, wide, sf, lm)
  BY Zenon DEF Project
<1>5. Project(w, sf, lm, k) = LimitDepth(q2, wide, sf, lm)
  BY <1>3, Zenon DEF Project
<1>6. wide \in Int
  <2>1. UnitOK(Products(u, 0, 0, v, 0))
    BY <1>1, <1>2, ProductsOK
  <2> QED  BY <1>1, <2>1, MacAt
<1> HIDE DEF wide, p0, q0
<1>7. z \in Int
  BY <1>1, <1>6, SarType
<1>8. Alike(p1, q1, 1 .. 3) /\ q1.raw[8 + 1] = p1.raw[8 + 1]
  BY <1>3, OneTwoThree, MacIntoIR1Alike
<1> HIDE DEF p1, q1
<1>9. /\ Alike(p2, q2, 1 .. 3) /\ q2.raw[8 + 2] = p2.raw[8 + 2]
      /\ \A j \in 9 .. 11 : q1.raw[j] = p1.raw[j] => q2.raw[j] = p2.raw[j]
  BY <1>8, OneTwoThree, MacIntoIR1Alike
<1> HIDE DEF p2, q2
<1>10. q2.raw[9] = p2.raw[9] /\ q2.raw[10] = p2.raw[10]
  <2>1. 8 + 1 = 9 /\ 8 + 2 = 10 /\ 9 \in 9 .. 11
    BY SMT
  <2> QED  BY <1>8, <1>9, <2>1
<1>11. UnitOK(p2) /\ UnitOK(q2)
  BY <1>9, AlikeOK
<1>12. Changed(p2, p3, B, {11}) /\ LimitDepth(p2, wide, sf, lm) = p4
  BY <1>6, <1>11, DepthChanged
<1>13. Changed(q2, q3, B, {11}) /\ LimitDepth(q2, wide, sf, lm) = q4
  BY <1>6, <1>11, DepthChanged
<1> HIDE DEF p3, q3, B, z
<1>14. Alike(p3, q3, {})
  BY <1>9, <1>12, <1>13, StillAlike
<1>15. UnitOK(p3) /\ UnitOK(q3)
  BY <1>14, AlikeOK
<1>16. Shifted(p3, p4, c) /\ Changed(p3, p4, C, 16 .. 19)
  BY <1>7, <1>15, PushZGives
<1>17. Shifted(q3, q4, c) /\ Changed(q3, q4, C, 16 .. 19)
  BY <1>7, <1>15, PushZGives
<1> HIDE DEF p4, q4, C, c
<1>18. Alike(p4, q4, {})
  BY <1>14, <1>16, <1>17, StillAlike
<1>19. q4.raw[19] = p4.raw[19]
  BY <1>16, <1>17 DEF Shifted
<1>20. ASSUME NEW j \in {9, 10} PROVE p4.raw[j] = p2.raw[j] /\ q4.raw[j] = q2.raw[j]
  <2>1. j \in 0 .. 62 /\ j \notin {11} /\ j \notin 16 .. 19
    BY SMT
  <2>2. p3.raw[j] = p2.raw[j] /\ q3.raw[j] = q2.raw[j]
    BY <1>12, <1>13, <2>1, Zenon DEF Changed
  <2>3. p4.raw[j] = p3.raw[j] /\ q4.raw[j] = q3.raw[j]
    BY <1>16, <1>17, <2>1, Zenon DEF Shifted
  <2> QED  BY <2>2, <2>3
<1>21. q4.raw[9] = p4.raw[9] /\ q4.raw[10] = p4.raw[10]
  BY <1>10, <1>20
<1>22. Project(u, sf, lm, v) = p4 /\ Project(w, sf, lm, k) = q4
  BY <1>4, <1>5, <1>12, <1>13
<1> QED  BY <1>18, <1>19, <1>21, <1>22, Zenon DEF Projected
(* The pixel is a function of what Project leaves.                         *)
DivOf(p) == Quotient(Low(p.raw[58], Half), p.raw[19])
Warned(p) == Raise(p, IF Overflows(Low(p.raw[58], Half), p.raw[19]) THEN {17} ELSE {})
FirstOf(p) == Scaled(Warned(p), 56, IRs(p)[1], DivOf(p))
PixelOf(p) ==
  Edges(Sar(FirstOf(p).mac[0], Half), Sar(SecondOf(FirstOf(p), DivOf(p)).mac[0], Half))

LEMMA DivOfType == ASSUME NEW p, UnitOK(p) PROVE DivOf(p) \in Int
<1> DEFINE h == Low(p.raw[58], Half)
<1>1. 58 \in 0 .. 62 /\ 19 \in 0 .. 62
  BY SMT
<1>2. p.raw[58] \in Int /\ p.raw[19] \in 0 .. 2^Word - 1
  BY <1>1, RegType DEF Words
<1>3. h \in 0 .. 2^Half - 1
  BY <1>2, LowRange, Widths
<1> HIDE DEF h
<1>4. h \in Nat /\ p.raw[19] \in Nat
  BY <1>2, <1>3, SMT
<1>5. Quotient(h, p.raw[19]) \in Int
  BY <1>4, QuotientType
<1> QED  BY <1>5, Zenon DEF DivOf, h

LEMMA FirstOfSteady ==
  ASSUME NEW p, UnitOK(p)
  PROVE  /\ UnitOK(Warned(p)) /\ UnitOK(FirstOf(p)) /\ IRs(p)[1] \in Int
         /\ \A n : Steady(p, FirstOf(p), n)
<1> DEFINE r == Warned(p)
           t == FirstOf(p)
<1>1. IRs(p)[1] \in Int /\ DivOf(p) \in Int /\ 56 \in 0 .. 62
  BY IRType, DivOfType, SMT DEF Vec
<1>2. \A n : Steady(p, r, n)
  BY RaiseSteady, Zenon DEF Warned
<1>3. UnitOK(r)
  BY <1>2, SteadyOK
<1>4. \A n : Steady(r, t, n)
  BY <1>1, <1>3, ScaledSteady, Zenon DEF FirstOf
<1>5. UnitOK(t)
  BY <1>4, SteadyOK
<1>6. \A n : Steady(p, t, n)
  BY <1>2, <1>4, SteadyTwice, Zenon
<1> QED  BY <1>1, <1>3, <1>5, <1>6, Zenon

LEMMA RtpDraws ==
  ASSUME NEW u, UnitOK(u), NEW sf \in {0, 1}, NEW lm \in {0, 1}, NEW v \in 0 .. 3, NEW depth_queue
  PROVE  LET p == Project(u, sf, lm, v)
         IN  Drawn(p, Rtp(u, sf, lm, v, depth_queue), IF depth_queue THEN 8 ELSE 9, PixelOf(p))
<1> DEFINE p == Project(u, sf, lm, v)
           t == FirstOf(p)
           div == DivOf(p)
           n == IF depth_queue THEN 8 ELSE 9
           e == ToScreen(t, div, depth_queue)
<1>1. Rtp(u, sf, lm, v, depth_queue) = e
  BY Zenon DEF Rtp, Far, Perspective, FirstOf, DivOf, Warned
<1>2. UnitOK(p)
  BY ProjectWithin DEF Within
<1> HIDE DEF p
<1>3. Steady(p, t, n) /\ UnitOK(t)
  BY <1>2, FirstOfSteady
<1>4. div \in Int
  BY <1>2, DivOfType
<1>5. Drawn(t, e, n, PixelOf(p))
  BY <1>3, <1>4, ToScreenDraws, Zenon DEF PixelOf
<1>6. n = 8 \/ n = 9
  BY Zenon
<1> HIDE DEF n, t, e
<1>7. Drawn(p, e, n, PixelOf(p))
  BY <1>3, <1>5, <1>6, SteadyDrawn
<1> QED  BY <1>1, <1>7, Zenon DEF n, p

LEMMA PixelAlike ==
  ASSUME NEW p, NEW q, Alike(p, q, {}),
         q.raw[9] = p.raw[9], q.raw[10] = p.raw[10], q.raw[19] = p.raw[19]
  PROVE  PixelOf(q) = PixelOf(p)
<1> DEFINE t == FirstOf(p)
           s == FirstOf(q)
           B == IF Overflows(Low(p.raw[58], Half), p.raw[19]) THEN {17} ELSE {}
<1>1. UnitOK(p) /\ UnitOK(q)
  BY AlikeOK
<1>2. q.raw[58] = p.raw[58]
  <2>1. 58 \in Lit
    BY SMT DEF Lit
  <2> QED  BY <2>1, Zenon DEF Alike
<1>3. DivOf(q) = DivOf(p) /\ Warned(p) = Raise(p, B) /\ Warned(q) = Raise(q, B)
  BY <1>2, Zenon DEF DivOf, Warned
<1>4. IRs(q)[1] = IRs(p)[1]
  <2>1. 8 + 1 = 9
    BY SMT
  <2>2. \A y : IRs(y)[1] = Signed(y.raw[8 + 1], Half)
    BY OneTwoThree, Zenon DEF IRs
  <2> QED  BY <2>1, <2>2
<1>5. Alike(Warned(p), Warned(q), {})
  <2>1. Changed(p, Warned(p), B, {}) /\ Changed(q, Warned(q), B, {})
    BY <1>1, <1>3, RaiseChanged, Zenon
  <2> QED  BY <2>1, StillAlike
<1>6. 56 \in 32 .. 62 /\ {} \subseteq {0} /\ DivOf(p) \in Int /\ IRs(p)[1] \in Int
  BY <1>1, DivOfType, FirstOfSteady, SMT
<1>7. Alike(t, s, {0})
  <2>1. t = Scaled(Warned(p), 56, IRs(p)[1], DivOf(p))
    BY Zenon DEF FirstOf
  <2>2. s = Scaled(Warned(q), 56, IRs(p)[1], DivOf(p))
    BY <1>3, <1>4, Zenon DEF FirstOf
  <2> HIDE DEF t, s
  <2>3. Alike(Scaled(Warned(p), 56, IRs(p)[1], DivOf(p)), Scaled(Warned(q), 56, IRs(p)[1], DivOf(p)), {0})
    BY <1>5, <1>6, ScaledAlike
  <2> QED  BY <2>1, <2>2, <2>3
<1>8. IRs(s)[2] = IRs(t)[2]
  <2>1. 8 + 2 = 10 /\ 10 \in 0 .. 62 /\ 10 \notin 12 .. 11 /\ 10 \notin 24 .. 27
    BY SMT
  <2>2. \A y : IRs(y)[2] = Signed(y.raw[8 + 2], Half)
    BY OneTwoThree, Zenon DEF IRs
  <2>3. Steady(p, t, 12) /\ Steady(q, s, 12)
    BY <1>1, FirstOfSteady
  <2> HIDE DEF t, s
  <2>4. t.raw[10] = p.raw[10] /\ s.raw[10] = q.raw[10]
    BY <2>1, <2>3, Zenon DEF Steady
  <2> QED  BY <2>1, <2>2, <2>4
<1> HIDE DEF t, s
<1>9. Edges(Sar(s.mac[0], Half), Sar(SecondOf(s, DivOf(p)).mac[0], Half))
        = Edges(Sar(t.mac[0], Half), Sar(SecondOf(t, DivOf(p)).mac[0], Half))
  BY <1>6, <1>7, <1>8, ScreenAlike
<1> QED  BY <1>3, <1>9, Zenon DEF PixelOf, t, s

Placed(u, v, n) ==
  /\ UnitOK(v)
  /\ v.raw[12] = u.raw[13] /\ v.raw[13] = u.raw[14]
  /\ v.raw[17] = u.raw[18] /\ v.raw[18] = u.raw[19]
  /\ \A j \in 0 .. 62 : j \notin n .. 19 /\ j \notin 24 .. 27 => v.raw[j] = u.raw[j]

LEMMA RtpPlaces ==
  ASSUME NEW u, UnitOK(u), NEW sf \in {0, 1}, NEW lm \in {0, 1}, NEW v \in 0 .. 3, NEW depth_queue
  PROVE  Placed(u, Rtp(u, sf, lm, v, depth_queue), IF depth_queue THEN 8 ELSE 9)
<1> DEFINE p == Project(u, sf, lm, v)
           e == Rtp(u, sf, lm, v, depth_queue)
           n == IF depth_queue THEN 8 ELSE 9
<1>1. Within(u, p, 9)
  BY ProjectWithin
<1>2. Drawn(p, e, n, PixelOf(p))
  BY RtpDraws
<1>3. n = 8 \/ n = 9
  BY Zenon
<1> HIDE DEF p, e, n
<1>4. ASSUME NEW j \in {13, 14} PROVE p.raw[j] = u.raw[j]
  <2>1. j \in 0 .. 62 /\ j \notin 9 .. 11 /\ j \notin 16 .. 19 /\ j \notin 24 .. 27
    BY SMT
  <2> QED  BY <1>1, <2>1, Zenon DEF Within
<1>5. ASSUME NEW j \in {17, 18} PROVE e.raw[j] = p.raw[j]
  <2>1. j \in 0 .. 62 /\ j \notin n .. 14 /\ j \notin 24 .. 27
    BY <1>3, SMT
  <2> QED  BY <1>2, <2>1, Zenon DEF Drawn
<1>6. /\ UnitOK(e)
      /\ e.raw[12] = u.raw[13] /\ e.raw[13] = u.raw[14]
      /\ e.raw[17] = u.raw[18] /\ e.raw[18] = u.raw[19]
  BY <1>1, <1>2, <1>4, <1>5 DEF Drawn, Within
<1>7. ASSUME NEW j \in 0 .. 62, j \notin n .. 19, j \notin 24 .. 27 PROVE e.raw[j] = u.raw[j]
  <2>1. j \notin n .. 14 /\ j \notin 9 .. 11 /\ j \notin 16 .. 19
    BY <1>3, <1>7, SMT
  <2>2. e.raw[j] = p.raw[j]
    BY <1>2, <1>7, <2>1, Zenon DEF Drawn
  <2>3. p.raw[j] = u.raw[j]
    BY <1>1, <1>7, <2>1, Zenon DEF Within
  <2> QED  BY <2>2, <2>3
<1>8. Placed(u, e, n)
  BY <1>6, <1>7, Zenon DEF Placed
<1> QED  BY <1>8 DEF e, n

LEMMA RtpAlike ==
  ASSUME NEW u, NEW w, Alike(u, w, {}), NEW v \in 0 .. 3, NEW k \in 0 .. 3, Vector(w, k) = Vector(u, v),
         NEW sf \in {0, 1}, NEW lm \in {0, 1}, NEW c, NEW d
  PROVE  LET e == Rtp(u, sf, lm, v, c)
             f == Rtp(w, sf, lm, k, d)
         IN  f.raw[14] = e.raw[14] /\ f.raw[19] = e.raw[19]
<1> DEFINE p == Project(u, sf, lm, v)
           q == Project(w, sf, lm, k)
           e == Rtp(u, sf, lm, v, c)
           f == Rtp(w, sf, lm, k, d)
           m == IF c THEN 8 ELSE 9
           n == IF d THEN 8 ELSE 9
<1>1. UnitOK(u) /\ UnitOK(w)
  BY AlikeOK
<1>2. Drawn(p, e, m, PixelOf(p)) /\ Drawn(q, f, n, PixelOf(q))
  BY <1>1, RtpDraws
<1>3. Projected(p, q)
  BY ProjectAlike
<1>4. (m = 8 \/ m = 9) /\ (n = 8 \/ n = 9)
  BY Zenon
<1> HIDE DEF p, q, e, f, m, n
<1>5. PixelOf(q) = PixelOf(p)
  BY <1>3, PixelAlike DEF Projected
<1>6. e.raw[14] = PixelOf(p) /\ f.raw[14] = PixelOf(q)
  BY <1>2 DEF Drawn
<1>7. 19 \in 0 .. 62 /\ 19 \notin m .. 14 /\ 19 \notin n .. 14 /\ 19 \notin 24 .. 27
  BY <1>4, SMT
<1>8. e.raw[19] = p.raw[19] /\ f.raw[19] = q.raw[19]
  BY <1>2, <1>7, Zenon DEF Drawn
<1> QED  BY <1>3, <1>5, <1>6, <1>8 DEF e, f, Projected
-----------------------------------------------------------------------------
(* The three runs of a command, each against the command for one.          *)
LEMMA ColorsOfThree ==
  ASSUME NEW m, UnitOK(m), NEW op \in Triples \ {"RTPT"}, NEW sf \in {0, 1}, NEW lm \in {0, 1}
  PROVE  \A k \in 0 .. 2 :
           SameEntry(Thrice(Cleared(m), Single[op], sf, lm), op, k,
                     Run(Cleared(Alone(m, op, k)), Single[op], sf, lm, 0, FALSE))
<1> DEFINE s == Single[op]
           one(k) == Run(Cleared(Alone(m, op, k)), s, sf, lm, 0, FALSE)
           r0 == Cleared(m)
           r1 == Run(r0, s, sf, lm, 0, TRUE)
           r2 == Run(r1, s, sf, lm, 1, TRUE)
           r3 == Run(r2, s, sf, lm, 2, TRUE)
<1>1. /\ s \in Singles \ {"RTPS"} /\ op # "RTPT"
      /\ 0 \in 0 .. 2 /\ 1 \in 0 .. 2 /\ 2 \in 0 .. 2 /\ 0 \in 0 .. 3 /\ 1 \in 0 .. 3 /\ 2 \in 0 .. 3
      /\ 20 + 0 = 20 /\ 20 + 1 = 21 /\ 20 + 2 = 22
  BY SMT DEF Triples, Single, Singles
<1>2. Thrice(r0, s, sf, lm) = r3
  BY ThriceIs
<1>3. \A k \in 0 .. 2 : \A r : Reached(m, r, k) => SameColor(Run(r, s, sf, lm, k, TRUE), one(k))
  BY ColorRunOfThree
<1> HIDE DEF one, s
<1>4. UnitOK(r0) /\ r0.raw = m.raw
  BY ClearedIs
<1> HIDE DEF r0
<1>5. Reached(m, r0, 0)
  BY <1>1, <1>4, Zenon DEF Reached
<1>6. Painted(r0, r1)
  BY <1>1, <1>4, ColorRunPaints
<1>7. SameColor(r1, one(0))
  BY <1>1, <1>3, <1>5
<1> HIDE DEF r1
<1>8. Reached(m, r1, 1)
  BY <1>1, <1>4, <1>6, Zenon DEF Reached, Painted
<1>9. Painted(r1, r2)
  BY <1>1, <1>6, PaintedOK, ColorRunPaints
<1>10. SameColor(r2, one(1))
  BY <1>1, <1>3, <1>8
<1> HIDE DEF r2
<1>11. Reached(m, r2, 2)
  <2>1. UnitOK(r2) /\ r2.raw[20] = m.raw[22]
    BY <1>4, <1>6, <1>9 DEF Painted
  <2>2. \A i \in 0 .. 8 : r2.raw[i] = m.raw[i]
    BY <1>4, <1>6, <1>9, Zenon DEF Painted
  <2>3. \A i \in 32 .. 62 : r2.raw[i] = m.raw[i]
    BY <1>4, <1>6, <1>9, Zenon DEF Painted
  <2> QED  BY <1>1, <2>1, <2>2, <2>3, Zenon DEF Reached
<1>12. Painted(r2, r3)
  BY <1>1, <1>9, PaintedOK, ColorRunPaints
<1>13. SameColor(r3, one(2))
  BY <1>1, <1>3, <1>11
<1> HIDE DEF r3
<1>14. /\ r3.raw[20] = one(0).raw[22] /\ one(0).flag \subseteq r3.flag
       /\ r3.raw[21] = one(1).raw[22] /\ one(1).flag \subseteq r3.flag
       /\ r3.raw[22] = one(2).raw[22] /\ one(2).flag \subseteq r3.flag
  BY <1>7, <1>9, <1>10, <1>12, <1>13 DEF Painted, SameColor
<1>15. SameEntry(r3, op, 0, one(0)) /\ SameEntry(r3, op, 1, one(1)) /\ SameEntry(r3, op, 2, one(2))
  BY <1>1, <1>14, Zenon DEF SameEntry
<1>16. \A k \in 0 .. 2 : SameEntry(r3, op, k, one(k))
  <2>1. 0 .. 2 = {0, 1, 2}
    BY SMT
  <2> QED  BY <1>15, <2>1, Zenon
<1> QED  BY <1>2, <1>16, Zenon DEF r0, s, one

(* A vertex run starts from a unit that has kept the vertices.             *)
Upright(u, r) ==
  /\ UnitOK(r)
  /\ \A i \in 0 .. 8 : r.raw[i] = u.raw[i]
  /\ \A i \in 32 .. 62 : r.raw[i] = u.raw[i]
SameVertex(u, w) == w.raw[14] = u.raw[14] /\ w.raw[19] = u.raw[19]

LEMMA VertexRunOfThree ==
  ASSUME NEW u, UnitOK(u), NEW k \in 0 .. 2, NEW r, Upright(u, r),
         NEW sf \in {0, 1}, NEW lm \in {0, 1}
  PROVE  SameVertex(Run(r, "RTPS", sf, lm, k, TRUE),
                    Run(Cleared(Alone(u, "RTPT", k)), "RTPS", sf, lm, 0, FALSE))
<1> DEFINE a == Alone(u, "RTPT", k)
           c == Cleared(a)
<1>1. /\ UnitOK(a) /\ Vector(a, 0) = Vector(u, k)
      /\ \A j \in 2 .. 62 : a.raw[j] = u.raw[j]
  <2>1. "RTPT" # "DPCT"
    BY SMT
  <2> QED  BY <2>1, AloneVertex
<1> HIDE DEF a
<1>2. UnitOK(c) /\ c.raw = a.raw /\ c.flag = {}
  BY <1>1, ClearedIs
<1> HIDE DEF c
<1>3. Alike(r, c, {})
  <2>1. /\ \A j \in Lit : j \in 2 .. 62 /\ (j = 8 \/ j \in 32 .. 62)
        /\ 8 \in 0 .. 8 /\ 6 \in 0 .. 8 /\ 6 \in 2 .. 62
    BY SMT DEF Lit
  <2>2. \A j \in Lit : c.raw[j] = r.raw[j]
    <3>1. \A j \in Lit : c.raw[j] = u.raw[j]
      BY <1>1, <1>2, <2>1, Zenon
    <3>2. \A j \in Lit : r.raw[j] = u.raw[j]
      BY <2>1, Zenon DEF Upright
    <3> QED  BY <3>1, <3>2, Zenon
  <2>3. c.raw[6] = r.raw[6]
    <3>1. c.raw[6] = u.raw[6]
      <4>1. a.raw[6] = u.raw[6]
        BY <1>1, <2>1
      <4> QED  BY <1>2, <4>1
    <3>2. r.raw[6] = u.raw[6]
      BY <2>1, Zenon DEF Upright
    <3> QED  BY <3>1, <3>2
  <2>4. Code(c) = Code(r)
    BY <2>3, Zenon DEF Code
  <2>5. c.flag \subseteq r.flag /\ UnitOK(r)
    BY <1>2 DEF Upright
  <2> QED  BY <1>2, <2>2, <2>4, <2>5, Zenon DEF Alike
<1>4. Vector(c, 0) = Vector(r, k)
  <2>1. Vector(c, 0) = Vector(a, 0)
    <3>1. \A i : Lo(c, i) = Lo(a, i) /\ Hi(c, i) = Hi(a, i)
      BY <1>2, Zenon DEF Lo, Hi
    <3>2. \A y : Vector(y, 0) = Three(Lo(y, 2 * 0), Hi(y, 2 * 0), Lo(y, 2 * 0 + 1))
      BY SMT DEF Vector
    <3> QED  BY <3>1, <3>2, Zenon
  <2>2. Vector(r, k) = Vector(u, k)
    BY ReachedVector DEF Upright
  <2> QED  BY <1>1, <2>1, <2>2
<1>5. Run(r, "RTPS", sf, lm, k, TRUE) = Rtp(r, sf, lm, k, TRUE => k = 2)
  BY DEF Run
<1>6. Run(c, "RTPS", sf, lm, 0, FALSE) = Rtp(c, sf, lm, 0, FALSE => 0 = 2)
  BY DEF Run
<1>7. 0 \in 0 .. 3 /\ k \in 0 .. 3
  BY SMT
<1>8. /\ Rtp(c, sf, lm, 0, FALSE => 0 = 2).raw[14] = Rtp(r, sf, lm, k, TRUE => k = 2).raw[14]
      /\ Rtp(c, sf, lm, 0, FALSE => 0 = 2).raw[19] = Rtp(r, sf, lm, k, TRUE => k = 2).raw[19]
  BY <1>3, <1>4, <1>7, RtpAlike
<1> QED  BY <1>5, <1>6, <1>8, Zenon DEF SameVertex, c, a

(* What a vertex run of a command for three keeps for the next.            *)
LEMMA VertexRunPlaces ==
  ASSUME NEW r, UnitOK(r), NEW v \in 0 .. 2, NEW sf \in {0, 1}, NEW lm \in {0, 1}
  PROVE  Placed(r, Run(r, "RTPS", sf, lm, v, TRUE), 8)
<1> DEFINE e == Rtp(r, sf, lm, v, TRUE => v = 2)
<1>1. Run(r, "RTPS", sf, lm, v, TRUE) = e /\ v \in 0 .. 3
  BY SMT DEF Run
<1>2. Placed(r, e, IF (TRUE => v = 2) THEN 8 ELSE 9)
  BY <1>1, RtpPlaces, Zenon
<1>3. 9 .. 19 \subseteq 8 .. 19
  BY SMT
<1> HIDE DEF e
<1>4. Placed(r, e, 9) => Placed(r, e, 8)
  BY <1>3, Zenon DEF Placed
<1>5. Placed(r, e, 8)
  BY <1>2, <1>4, Zenon
<1> QED  BY <1>1, <1>5, Zenon

LEMMA VertexRunKeeps ==
  ASSUME NEW u, NEW r, Upright(u, r), NEW v \in 0 .. 1, NEW sf \in {0, 1}, NEW lm \in {0, 1}
  PROVE  Upright(u, Run(r, "RTPS", sf, lm, v, TRUE))
<1> DEFINE e == Rtp(r, sf, lm, v, TRUE => v = 2)
<1>1. Run(r, "RTPS", sf, lm, v, TRUE) = e
  BY SMT DEF Run
<1>2. Placed(r, e, 9)
  <2>1. v \in 0 .. 3 /\ ~(TRUE => v = 2)
    BY SMT
  <2>2. Placed(r, e, IF (TRUE => v = 2) THEN 8 ELSE 9)
    BY <2>1, RtpPlaces, Zenon DEF Upright
  <2> QED  BY <2>1, <2>2, Zenon
<1> HIDE DEF e
<1>3. /\ \A j \in 0 .. 8 : j \in 0 .. 62 /\ j \notin 9 .. 19 /\ j \notin 24 .. 27
      /\ \A j \in 32 .. 62 : j \in 0 .. 62 /\ j \notin 9 .. 19 /\ j \notin 24 .. 27
  BY SMT
<1>4. UnitOK(e)
  BY <1>2 DEF Placed
<1>5. \A j \in 0 .. 8 : e.raw[j] = u.raw[j]
  BY <1>2, <1>3, Zenon DEF Placed, Upright
<1>6. \A j \in 32 .. 62 : e.raw[j] = u.raw[j]
  BY <1>2, <1>3, Zenon DEF Placed, Upright
<1>7. Upright(u, e)
  BY <1>4, <1>5, <1>6, Zenon DEF Upright
<1> QED  BY <1>1, <1>7, Zenon

LEMMA VerticesOfThree ==
  ASSUME NEW m, UnitOK(m), NEW sf \in {0, 1}, NEW lm \in {0, 1}
  PROVE  \A k \in 0 .. 2 :
           SameEntry(Thrice(Cleared(m), "RTPS", sf, lm), "RTPT", k,
                     Run(Cleared(Alone(m, "RTPT", k)), "RTPS", sf, lm, 0, FALSE))
<1> DEFINE one(k) == Run(Cleared(Alone(m, "RTPT", k)), "RTPS", sf, lm, 0, FALSE)
           r0 == Cleared(m)
           r1 == Run(r0, "RTPS", sf, lm, 0, TRUE)
           r2 == Run(r1, "RTPS", sf, lm, 1, TRUE)
           r3 == Run(r2, "RTPS", sf, lm, 2, TRUE)
<1>1. /\ 0 \in 0 .. 2 /\ 1 \in 0 .. 2 /\ 2 \in 0 .. 2 /\ 0 \in 0 .. 1 /\ 1 \in 0 .. 1
      /\ 12 + 0 = 12 /\ 12 + 1 = 13 /\ 12 + 2 = 14
      /\ 17 + 0 = 17 /\ 17 + 1 = 18 /\ 17 + 2 = 19
  BY SMT
<1>2. Thrice(r0, "RTPS", sf, lm) = r3
  BY ThriceIs
<1>3. \A k \in 0 .. 2 : \A r : Upright(m, r) => SameVertex(Run(r, "RTPS", sf, lm, k, TRUE), one(k))
  BY VertexRunOfThree
<1> HIDE DEF one
<1>4. UnitOK(r0) /\ r0.raw = m.raw
  BY ClearedIs
<1> HIDE DEF r0
<1>5. Upright(m, r0)
  BY <1>4, Zenon DEF Upright
<1>6. SameVertex(r1, one(0)) /\ Upright(m, r1)
  BY <1>1, <1>3, <1>5, VertexRunKeeps
<1> HIDE DEF r1
<1>7. SameVertex(r2, one(1)) /\ Placed(r1, r2, 8) /\ Upright(m, r2)
  <2>1. UnitOK(r1)
    BY <1>6 DEF Upright
  <2> QED  BY <1>1, <1>3, <1>6, <2>1, VertexRunPlaces, VertexRunKeeps
<1> HIDE DEF r2
<1>8. SameVertex(r3, one(2)) /\ Placed(r2, r3, 8)
  <2>1. UnitOK(r2)
    BY <1>7 DEF Upright
  <2> QED  BY <1>1, <1>3, <1>7, <2>1, VertexRunPlaces
<1> HIDE DEF r3
<1>9. /\ r3.raw[12] = one(0).raw[14] /\ r3.raw[17] = one(0).raw[19]
      /\ r3.raw[13] = one(1).raw[14] /\ r3.raw[18] = one(1).raw[19]
      /\ r3.raw[14] = one(2).raw[14] /\ r3.raw[19] = one(2).raw[19]
  BY <1>6, <1>7, <1>8 DEF Placed, SameVertex
<1>10. SameEntry(r3, "RTPT", 0, one(0)) /\ SameEntry(r3, "RTPT", 1, one(1)) /\ SameEntry(r3, "RTPT", 2, one(2))
  BY <1>1, <1>9, Zenon DEF SameEntry
<1>11. \A k \in 0 .. 2 : SameEntry(r3, "RTPT", k, one(k))
  <2>1. 0 .. 2 = {0, 1, 2}
    BY SMT
  <2> QED  BY <1>10, <2>1, Zenon
<1> QED  BY <1>2, <1>11, Zenon DEF r0, one

(* Both kinds: a command for three, against the command it repeats.        *)
LEMMA TripleIs ==
  ASSUME NEW m, UnitOK(m), NEW ins, Fields(ins), ins.op \in Triples, NEW k \in 0 .. 2
  PROVE  SameEntry(Executed(m, ins), ins.op, k,
                   Executed(Alone(m, ins.op, k), [ins EXCEPT !.op = Single[ins.op]]))
<1> DEFINE op == ins.op
           s == Single[op]
           single == [ins EXCEPT !.op = s]
           a == Alone(m, op, k)
<1>1. s \in Singles /\ (op = "RTPT" => s = "RTPS")
  BY SMT DEF Triples, Single, Singles
<1>2. single.op = s /\ single.sf = ins.sf /\ single.lm = ins.lm
  BY SMT DEF Fields
<1>3. Executed(m, ins) = Thrice(Cleared(m), s, ins.sf, ins.lm)
  BY ExecutedIs
<1> HIDE DEF single, s, op, a
<1>4. Executed(a, single) = Run(Cleared(a), s, ins.sf, ins.lm, 0, FALSE)
  <2>1. single.op \in Singles
    BY <1>1, <1>2
  <2>2. Executed(a, single) = Run(Cleared(a), single.op, single.sf, single.lm, 0, FALSE)
    BY <2>1, ExecutedIs
  <2> QED  BY <1>2, <2>2
<1>5. ins.sf \in {0, 1} /\ ins.lm \in {0, 1}
  BY DEF Fields
<1>6. SameEntry(Thrice(Cleared(m), s, ins.sf, ins.lm), op, k, Run(Cleared(a), s, ins.sf, ins.lm, 0, FALSE))
  <2>1. CASE op = "RTPT"
    <3>1. SameEntry(Thrice(Cleared(m), "RTPS", ins.sf, ins.lm), "RTPT", k,
                    Run(Cleared(Alone(m, "RTPT", k)), "RTPS", ins.sf, ins.lm, 0, FALSE))
      BY <1>5, VerticesOfThree, Zenon
    <3> QED  BY <1>1, <2>1, <3>1, Zenon DEF a
  <2>2. CASE op # "RTPT"
    <3>1. op \in Triples \ {"RTPT"}
      BY <2>2, Zenon DEF op
    <3> QED  BY <1>5, <3>1, ColorsOfThree, Zenon DEF s, a
  <2> QED  BY <2>1, <2>2, Zenon
<1> QED  BY <1>3, <1>4, <1>6, Zenon DEF op, s, single, a

(* rtpt, ncdt, nct, ncct and dpct run the command for one three times:     *)
(* whatever the registers and the command's bits, entry k of the queue is  *)
(* what the command for one gives for input k from the registers as they   *)
(* were, and the commands for colours report its flags (those of rtpt are  *)
(* not compared). Nothing a run leaves in IR, MAC, FLAG or a queue reaches *)
(* the next one's entry, though all three work on the same registers.      *)
THEOREM ThreeAreSingles == GTESpec => TripleIsThreeSingles
<1> DEFINE A == Completes(DOMAIN Single) =>
                  \A k \in 0 .. 2 :
                    LET op == m_instr_val.op IN
                    SameEntry(m_regs', op, k,
                              Executed(Alone(m_regs, op, k), [m_instr_val EXCEPT !.op = Single[op]]))
<1>1. GTEInv /\ [Next]_vars => GTEInv'
  BY GTEStep
<1>2. GTEInv /\ [Next]_vars => [A]_vars
  <2> SUFFICES ASSUME GTEInv, [Next]_vars, Completes(DOMAIN Single), NEW k \in 0 .. 2
               PROVE  SameEntry(m_regs', m_instr_val.op, k,
                                Executed(Alone(m_regs, m_instr_val.op, k),
                                         [m_instr_val EXCEPT !.op = Single[m_instr_val.op]]))
    BY Zenon
  <2>1. m_regs' = Executed(m_regs, m_instr_val) /\ m_instr_val.op \in DOMAIN Single
    BY CompletesIs
  <2>2. DOMAIN Single = Triples
    BY SMT DEF Single, Triples
  <2>3. UnitOK(m_regs) /\ Fields(m_instr_val)
    BY Zenon DEF GTEInv
  <2>4. SameEntry(Executed(m_regs, m_instr_val), m_instr_val.op, k,
                  Executed(Alone(m_regs, m_instr_val.op, k),
                           [m_instr_val EXCEPT !.op = Single[m_instr_val.op]]))
    BY <2>1, <2>2, <2>3, TripleIs, Zenon
  <2> QED  BY <2>1, <2>4, Zenon
<1>3. TripleIsThreeSingles <=> [][A]_vars
  BY PTL DEF TripleIsThreeSingles
<1> QED  BY GTEInit, <1>1, <1>2, <1>3, PTL DEF GTESpec
=============================================================================
