----------------------------- MODULE FifoProofs -----------------------------
(***************************************************************************)
(* What the operations of Fifo do to the sequence the ring stands for, for *)
(* every capacity and wherever the indices stand.                          *)
(***************************************************************************)
EXTENDS Fifo, SequenceTheorems, TLAPS

LEMMA ModUp ==
  ASSUME NEW n \in Nat \ {0}, NEW x \in 0 .. 2 * n - 1
  PROVE  x % n = IF x < n THEN x ELSE x - n
<1>1. CASE x < n
  BY <1>1, SMT
<1>2. CASE x >= n
  BY <1>2, SMT
<1> QED BY <1>1, <1>2

LEMMA ModDown ==
  ASSUME NEW n \in Nat \ {0}, NEW x \in -(n - 1) .. n - 1
  PROVE  x % n = IF x < 0 THEN x + n ELSE x
<1>1. CASE x < 0
  BY <1>1, SMT
<1>2. CASE x >= 0
  BY <1>2, SMT
<1> QED BY <1>1, <1>2

LEMMA LenIs ==
  ASSUME NEW T, NEW q \in Fifos(T)
  PROVE  /\ q.f \in Slots /\ q.b \in Slots
         /\ FifoLen(q) = IF q.b < q.f THEN q.b - q.f + FifoCap + 1 ELSE q.b - q.f
         /\ FifoLen(q) \in 0 .. FifoCap
<1>1. q.f \in Slots /\ q.b \in Slots
  BY DEF Fifos
<1>2. FifoCap + 1 \in Nat \ {0} /\ q.b - q.f \in -((FifoCap + 1) - 1) .. (FifoCap + 1) - 1
  BY <1>1, FifoAssumption DEF Slots
<1>3. FifoLen(q) = IF q.b - q.f < 0 THEN q.b - q.f + (FifoCap + 1) ELSE q.b - q.f
  BY <1>2, ModDown DEF FifoLen
<1> QED  BY <1>1, <1>3, FifoAssumption DEF Slots

LEMMA SlotIs ==
  ASSUME NEW x \in 0 .. 2 * FifoCap + 1
  PROVE  /\ x % (FifoCap + 1) = IF x <= FifoCap THEN x ELSE x - (FifoCap + 1)
         /\ x % (FifoCap + 1) \in Slots
<1>1. FifoCap + 1 \in Nat \ {0} /\ x \in 0 .. 2 * (FifoCap + 1) - 1
  BY FifoAssumption
<1>2. x % (FifoCap + 1) = IF x < FifoCap + 1 THEN x ELSE x - (FifoCap + 1)
  BY <1>1, ModUp
<1> QED  BY <1>2, FifoAssumption DEF Slots

(* size() is right about an empty buffer, and right when it says full. *)
LEMMA SizeAtBounds ==
  ASSUME NEW T, NEW q \in Fifos(T)
  PROVE  /\ FifoEmpty(q) <=> FifoLen(q) = 0
         /\ FifoSize(q) = FifoCap => FifoLen(q) = FifoCap
  BY LenIs, FifoAssumption DEF FifoEmpty, FifoSize, Slots

LEMMA ContentIsSeq ==
  ASSUME NEW T, NEW q \in Fifos(T)
  PROVE  /\ FifoContent(q) \in Seq(T)
         /\ Len(FifoContent(q)) = FifoLen(q)
         /\ \A i \in 1 .. FifoLen(q) : FifoContent(q)[i] = FifoPeek(q, i - 1)
<1>1. FifoLen(q) \in 0 .. FifoCap /\ q.f \in Slots
  BY LenIs
<1>2. ASSUME NEW i \in 1 .. FifoLen(q)
      PROVE  FifoPeek(q, i - 1) \in T
  <2>1. q.f + (i - 1) \in 0 .. 2 * FifoCap + 1
    BY <1>1, <1>2, FifoAssumption DEF Slots
  <2> QED  BY <2>1, SlotIs DEF FifoPeek, Fifos
<1> QED  BY <1>1, <1>2 DEF FifoContent

LEMMA PushType ==
  ASSUME NEW T, NEW q \in Fifos(T), NEW x \in T
  PROVE  FifoPush(q, x) \in Fifos(T)
<1>1. q.b \in Slots /\ q.b + 1 \in 0 .. 2 * FifoCap + 1
  BY LenIs, FifoAssumption DEF Slots
<1>2. (q.b + 1) % (FifoCap + 1) \in Slots
  BY <1>1, SlotIs
<1> QED  BY <1>1, <1>2 DEF FifoPush, Fifos

LEMMA PushAppends ==
  ASSUME NEW T, NEW q \in Fifos(T), NEW x \in T, FifoLen(q) < FifoCap
  PROVE  /\ FifoPush(q, x) \in Fifos(T)
         /\ FifoContent(FifoPush(q, x)) = Append(FifoContent(q), x)
<1> DEFINE p == FifoPush(q, x)
           n == FifoLen(q)
<1>1. q.f \in Slots /\ q.b \in Slots /\ n \in 0 .. FifoCap
      /\ n = IF q.b < q.f THEN q.b - q.f + FifoCap + 1 ELSE q.b - q.f
  BY LenIs
<1>2. (q.b + 1) % (FifoCap + 1) \in Slots
      /\ (q.b + 1) % (FifoCap + 1) = IF q.b + 1 <= FifoCap THEN q.b + 1 ELSE 0
  <2>1. q.b + 1 \in 0 .. 2 * FifoCap + 1 /\ (q.b + 1 > FifoCap => q.b + 1 = FifoCap + 1)
    BY <1>1, FifoAssumption DEF Slots
  <2> QED  BY <2>1, SlotIs, FifoAssumption
<1>3. p \in Fifos(T) /\ p.f = q.f /\ p.b = (q.b + 1) % (FifoCap + 1)
      /\ p.data = [q.data EXCEPT ![q.b] = x]
  BY <1>1, <1>2 DEF FifoPush, Fifos
<1>4. FifoLen(p) = n + 1
  BY <1>1, <1>2, <1>3, LenIs, FifoAssumption DEF Slots
<1>5. ASSUME NEW i \in 1 .. n
      PROVE  FifoPeek(p, i - 1) = FifoPeek(q, i - 1)
  <2>1. q.f + (i - 1) \in 0 .. 2 * FifoCap + 1
    BY <1>1, <1>5, FifoAssumption DEF Slots
  <2>2. (q.f + (i - 1)) % (FifoCap + 1) \in Slots
        /\ (q.f + (i - 1)) % (FifoCap + 1) # q.b
    BY <1>1, <1>5, <2>1, SlotIs, FifoAssumption DEF Slots
  <2> QED  BY <1>3, <2>2 DEF FifoPeek, Fifos
<1>6. FifoPeek(p, n) = x
  <2>1. q.f + n \in 0 .. 2 * FifoCap + 1
    BY <1>1, FifoAssumption DEF Slots
  <2>2. (q.f + n) % (FifoCap + 1) = q.b
    BY <1>1, <2>1, SlotIs, FifoAssumption DEF Slots
  <2> QED  BY <1>1, <1>3, <2>2 DEF FifoPeek, Fifos
<1> HIDE DEF p
<1>7. Append(FifoContent(q), x) \in Seq(T) /\ FifoContent(p) \in Seq(T)
      /\ Len(FifoContent(p)) = n + 1 /\ Len(Append(FifoContent(q), x)) = n + 1
  BY <1>3, <1>4, ContentIsSeq, AppendProperties
<1>8. ASSUME NEW i \in 1 .. n + 1
      PROVE  FifoContent(p)[i] = Append(FifoContent(q), x)[i]
  <2>1. FifoContent(p)[i] = FifoPeek(p, i - 1)
    BY <1>3, <1>4, ContentIsSeq
  <2>2. CASE i \in 1 .. n
    BY <1>5, <2>1, <2>2, ContentIsSeq, AppendProperties
  <2>3. CASE i = n + 1
    <3>1. i - 1 = n
      BY <1>1, <2>3
    <3>2. Append(FifoContent(q), x)[n + 1] = x
      BY ContentIsSeq, AppendProperties
    <3> QED  BY <1>6, <2>1, <2>3, <3>1, <3>2
  <2>4. i \in 1 .. n \/ i = n + 1
    BY <1>1
  <2> QED  BY <2>2, <2>3, <2>4
<1>9. FifoContent(p) = Append(FifoContent(q), x)
  BY <1>7, <1>8, SeqEqual
<1> QED  BY <1>3, <1>9 DEF p

(* A push onto a full buffer brings the back to the front: size() says that
   it is empty, and all it held is lost. *)
LEMMA PushOverruns ==
  ASSUME NEW T, NEW q \in Fifos(T), NEW x \in T, FifoLen(q) = FifoCap
  PROVE  FifoContent(FifoPush(q, x)) = <<>>
<1> DEFINE p == FifoPush(q, x)
<1>1. q.f \in Slots /\ q.b \in Slots
      /\ FifoCap = IF q.b < q.f THEN q.b - q.f + FifoCap + 1 ELSE q.b - q.f
  BY LenIs
<1>2. (q.b + 1) % (FifoCap + 1) = IF q.b + 1 <= FifoCap THEN q.b + 1 ELSE 0
  <2>1. q.b + 1 \in 0 .. 2 * FifoCap + 1 /\ (q.b + 1 > FifoCap => q.b + 1 = FifoCap + 1)
    BY <1>1, FifoAssumption DEF Slots
  <2> QED  BY <2>1, SlotIs, FifoAssumption
<1>3. p \in Fifos(T) /\ p.f = q.f /\ p.b = q.f
  <2>1. p.f = q.f /\ p.b = (q.b + 1) % (FifoCap + 1)
    BY DEF FifoPush, Fifos
  <2> QED  BY <1>1, <1>2, <2>1, PushType, FifoAssumption DEF Slots
<1> HIDE DEF p
<1>4. FifoLen(p) = 0
  BY <1>1, <1>3, LenIs, FifoAssumption DEF Slots
<1>5. FifoContent(p) \in Seq(T) /\ Len(FifoContent(p)) = 0
  BY <1>3, <1>4, ContentIsSeq
<1> QED  BY <1>5, EmptySeq DEF p

LEMMA PopIsTail ==
  ASSUME NEW T, NEW q \in Fifos(T), FifoLen(q) > 0
  PROVE  /\ FifoPop(q) \in Fifos(T)
         /\ FifoContent(FifoPop(q)) = Tail(FifoContent(q))
<1> DEFINE p == FifoPop(q)
           n == FifoLen(q)
<1>1. q.f \in Slots /\ q.b \in Slots /\ n \in 0 .. FifoCap
      /\ n = IF q.b < q.f THEN q.b - q.f + FifoCap + 1 ELSE q.b - q.f
  BY LenIs
<1>2. (q.f + 1) % (FifoCap + 1) \in Slots
      /\ (q.f + 1) % (FifoCap + 1) = IF q.f + 1 <= FifoCap THEN q.f + 1 ELSE 0
  BY <1>1, SlotIs, FifoAssumption DEF Slots
<1>3. p \in Fifos(T) /\ p.f = (q.f + 1) % (FifoCap + 1) /\ p.b = q.b
      /\ p.data = q.data
  BY <1>1, <1>2 DEF FifoPop, Fifos
<1>4. FifoLen(p) = n - 1
  BY <1>1, <1>2, <1>3, LenIs, FifoAssumption DEF Slots
<1>5. ASSUME NEW i \in 1 .. n - 1
      PROVE  FifoPeek(p, i - 1) = FifoPeek(q, i)
  <2>1. /\ q.f + i \in 0 .. 2 * FifoCap + 1
        /\ p.f + (i - 1) \in 0 .. 2 * FifoCap + 1
    BY <1>1, <1>2, <1>3, <1>5, FifoAssumption DEF Slots
  <2>2. (p.f + (i - 1)) % (FifoCap + 1) = (q.f + i) % (FifoCap + 1)
    <3>1. CASE q.f + 1 <= FifoCap
      <4>1. p.f + (i - 1) = q.f + i
        BY <1>1, <1>2, <1>3, <1>5, <3>1, FifoAssumption DEF Slots
      <4> QED  BY <4>1
    <3>2. CASE q.f + 1 > FifoCap
      <4>a. q.f = FifoCap
        BY <1>1, <3>2, FifoAssumption DEF Slots
      <4>b. p.f = 0
        BY <1>2, <1>3, <3>2, <4>a, FifoAssumption
      <4>1. p.f + (i - 1) = i - 1 /\ q.f + i = FifoCap + i
        BY <1>5, <4>a, <4>b
      <4>2. i - 1 <= FifoCap /\ ~(FifoCap + i <= FifoCap)
            /\ (FifoCap + i) - (FifoCap + 1) = i - 1
        BY <1>1, <1>5, FifoAssumption
      <4>3. (i - 1) % (FifoCap + 1) = i - 1 /\ (FifoCap + i) % (FifoCap + 1) = i - 1
        <5>1. i - 1 \in 0 .. 2 * FifoCap + 1 /\ FifoCap + i \in 0 .. 2 * FifoCap + 1
          BY <2>1, <4>1
        <5>2. (i - 1) % (FifoCap + 1) = i - 1
          BY <4>2, <5>1, SlotIs
        <5>3. (FifoCap + i) % (FifoCap + 1) = (FifoCap + i) - (FifoCap + 1)
          BY <4>2, <5>1, SlotIs
        <5> QED  BY <4>2, <5>2, <5>3
      <4> QED  BY <4>1, <4>3
    <3> QED  BY <1>1, <3>1, <3>2, FifoAssumption DEF Slots
  <2> QED  BY <1>3, <2>2 DEF FifoPeek
<1> HIDE DEF p
<1>6. FifoContent(q) \in Seq(T) /\ FifoContent(p) \in Seq(T)
      /\ Len(FifoContent(q)) = n /\ Len(FifoContent(p)) = n - 1
      /\ FifoContent(q) # <<>>
  BY <1>1, <1>3, <1>4, ContentIsSeq, EmptySeq
<1>7. Tail(FifoContent(q)) \in Seq(T) /\ Len(Tail(FifoContent(q))) = n - 1
  BY <1>6, HeadTailProperties
<1>8. ASSUME NEW i \in 1 .. n - 1
      PROVE  FifoContent(p)[i] = Tail(FifoContent(q))[i]
  <2>1. i \in 1 .. n /\ i + 1 \in 1 .. n /\ (i + 1) - 1 = i
    BY <1>1, <1>8
  <2>2. FifoContent(p)[i] = FifoPeek(p, i - 1)
    BY <1>3, <1>4, ContentIsSeq
  <2>3. Tail(FifoContent(q))[i] = FifoContent(q)[i + 1]
    BY <1>6, <1>7, HeadTailProperties
  <2>4. FifoContent(q)[i + 1] = FifoPeek(q, i)
    BY <2>1, ContentIsSeq
  <2> QED  BY <1>5, <2>2, <2>3, <2>4
<1>9. FifoContent(p) = Tail(FifoContent(q))
  BY <1>6, <1>7, <1>8, SeqEqual
<1> QED  BY <1>3, <1>9 DEF p
=============================================================================
