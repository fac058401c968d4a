---------------------------- MODULE SockIOProofs ----------------------------
(***************************************************************************)
(* The connection of the stub keeps its promise for every size of the ring *)
(* and of the calls: first what the indices and the counters of the        *)
(* nested loops mean to each other, then what a step does to the stream.   *)
(***************************************************************************)
EXTENDS SockIO, SequenceTheorems, TLAPS

(* The connection between the point of the call, the caller's buffer and the
   counters. *)
CallInv ==
  /\ op = "none" <=> pc = "idle"
  /\ pc \in {"read", "read_to", "write"} => op = pc
  /\ pc \in {"fill", "recv", "filled"} => op \in {"read", "read_to"}
  /\ op \in {"read", "read_to"} => Len(out) <= size
  /\ op = "read_to" /\ pc # "return" => \A i \in 1 .. Len(out) : out[i] # Delim
  /\ pc = "return" => Promise!Complete

(* What buf_fill still has to read is what the ring lacks; a second turn
   happens only when the first has reached the end of the buffer.  When
   buf_fill is done the ring has what read is going to pop. *)
FillInv ==
  /\ pc # "recv" => base = NoFrame
  /\ pc = "filled" /\ op = "read" => BufRem >= ToPop
  /\ pc \in {"fill", "recv"} =>
       /\ fill.rem > 0 /\ fill.cnt <= BufSz - 1
       /\ BufRem + fill.rem = fill.cnt + fill.total
       /\ fill.total = 0 \/ m_tail < m_head \/ fill.total >= fill.rem
       /\ op = "read" => fill.cnt = ToPop
  /\ pc = "recv" =>
       /\ fill.total < fill.rem
       /\ base.cnt = Asked
       /\ base.total + base.rem = Segment

SInv == SockTypeOK /\ CallInv /\ FillInv

-----------------------------------------------------------------------------
(* The indices. *)

LEMMA RingFacts ==
  ASSUME SockTypeOK
  PROVE  /\ BufSz \in Nat /\ BufSz > 1
         /\ m_head \in 0 .. BufSz - 1 /\ m_tail \in 0 .. BufSz - 1
         /\ BufRem \in 0 .. BufSz - 1
         /\ BufRem = IF m_tail >= m_head THEN m_tail - m_head
                     ELSE (BufSz - m_head) + m_tail
         /\ Segment \in Int
         /\ Segment = IF m_tail >= m_head
                      THEN BufSz - m_tail - (IF m_head = 0 THEN 1 ELSE 0)
                      ELSE m_head - m_tail - 1
  BY SockAssumption DEF SockTypeOK, Slots, BufRem, Segment

LEMMA WrapIs ==
  ASSUME NEW x \in 0 .. 2 * BufSz - 1
  PROVE  Wrap(x) \in Slots /\ Wrap(x) = IF x >= BufSz THEN x - BufSz ELSE x
  BY SockAssumption DEF Wrap, Slots

LEMMA FirstIs ==
  ASSUME SockTypeOK, NEW n \in 0 .. BufSz
  PROVE  /\ First(n) \in Seq(Chars) /\ Len(First(n)) = n
         /\ \A i \in 1 .. n : First(n)[i] = m_buf[Wrap(m_head + i - 1)]
<1>1. ASSUME NEW i \in 1 .. n
      PROVE  m_buf[Wrap(m_head + i - 1)] \in Chars
  <2>1. m_head + i - 1 \in 0 .. 2 * BufSz - 1
    BY <1>1, RingFacts
  <2> QED  BY <2>1, WrapIs DEF SockTypeOK, Ring
<1> QED  BY <1>1, SockAssumption DEF First

(* What popping does to the ring. *)
LEMMA PopIs ==
  ASSUME SockTypeOK, NEW n \in 0 .. BufRem, Pop(n)
  PROVE  /\ m_head' \in Slots /\ m_tail' = m_tail /\ m_buf' = m_buf
         /\ BufRem' = BufRem - n
         /\ First(BufRem)' = SubSeq(First(BufRem), n + 1, BufRem)
         /\ First(n) = SubSeq(First(BufRem), 1, n)
         /\ out' = out \o First(n)
<1> DEFINE r == BufRem
<1>1. r \in 0 .. BufSz - 1 /\ m_head \in 0 .. BufSz - 1 /\ m_tail \in 0 .. BufSz - 1
      /\ BufSz \in Nat /\ BufSz > 1 /\ n \in 0 .. BufSz - 1
  BY RingFacts
<1>2. m_head' \in Slots
      /\ m_head' = IF m_head + n >= BufSz THEN m_head + n - BufSz ELSE m_head + n
  BY <1>1, WrapIs DEF Pop
<1>3. m_tail' = m_tail /\ m_buf' = m_buf /\ out' = out \o First(n)
  BY DEF Pop
<1>4. BufRem' = r - n
  BY <1>1, <1>2, <1>3, RingFacts DEF BufRem
<1>5. First(r) \in Seq(Chars) /\ Len(First(r)) = r
      /\ \A i \in 1 .. r : First(r)[i] = m_buf[Wrap(m_head + i - 1)]
  <2>1. r \in 0 .. BufSz
    BY <1>1
  <2> HIDE DEF r
  <2> QED  BY <2>1, FirstIs
<1>6. ASSUME NEW i \in 1 .. r - n
      PROVE  Wrap(m_head' + i - 1) = Wrap(m_head + (i + n) - 1)
  <2>1. m_head' + i - 1 \in 0 .. 2 * BufSz - 1 /\ m_head + (i + n) - 1 \in 0 .. 2 * BufSz - 1
    BY <1>1, <1>2, <1>6 DEF Slots
  <2> QED  BY <1>1, <1>2, <1>6, <2>1, WrapIs DEF Slots
<1> HIDE DEF r
<1>7. First(BufRem)' = SubSeq(First(r), n + 1, r)
  <2>1. First(BufRem)' = [i \in 1 .. r - n |-> m_buf[Wrap(m_head' + i - 1)]]
    BY <1>3, <1>4 DEF First, Wrap
  <2>2. SubSeq(First(r), n + 1, r) = [i \in 1 .. r - n |-> First(r)[i + n]]
    BY <1>1, <1>5
  <2>3. \A i \in 1 .. r - n : i + n \in 1 .. r
    BY <1>1
  <2> QED  BY <1>5, <1>6, <2>1, <2>2, <2>3
<1>8. First(n) = SubSeq(First(r), 1, n)
  <2>1. First(n) = [i \in 1 .. n |-> m_buf[Wrap(m_head + i - 1)]]
    BY DEF First
  <2>2. SubSeq(First(r), 1, n) = [i \in 1 .. n |-> First(r)[i]]
    BY <1>1, <1>5
  <2>3. \A i \in 1 .. n : i \in 1 .. r
    BY <1>1 DEF r
  <2> QED  BY <1>5, <2>1, <2>2, <2>3
<1> QED  BY <1>2, <1>3, <1>4, <1>7, <1>8 DEF r

(* What recv does: the new characters stand behind those the ring holds. *)
Stores(k) ==
  /\ m_buf' = [i \in Slots |->
       IF i - m_tail - base.total \in 0 .. k - 1
       THEN sock[i - m_tail - base.total + 1] ELSE m_buf[i]]
  /\ m_head' = m_head /\ m_tail' = m_tail
  /\ base' = [base EXCEPT !.rem = @ - k, !.total = @ + k]

LEMMA RecvIs ==
  ASSUME SockTypeOK, base.total + base.rem = Segment,
         NEW k \in 1 .. Len(sock), k <= base.rem, Stores(k)
  PROVE  /\ m_buf' \in Ring
         /\ base' \in Frames
         /\ base'.cnt = base.cnt /\ base'.total + base'.rem = Segment'
         /\ Held \in 0 .. BufSz - 1 /\ Held' \in 0 .. BufSz - 1
         /\ First(Held)' = First(Held) \o SubSeq(sock, 1, k)
<1> DEFINE t == base.total
           h == Held
<1>1. /\ BufSz \in Nat /\ BufSz > 1
      /\ m_head \in 0 .. BufSz - 1 /\ m_tail \in 0 .. BufSz - 1
      /\ t \in Nat /\ base.rem \in Nat /\ base.cnt \in Nat
      /\ BufRem = IF m_tail >= m_head THEN m_tail - m_head ELSE (BufSz - m_head) + m_tail
  BY RingFacts DEF SockTypeOK, Frames
<1>2. sock \in Seq(Chars) /\ Len(sock) \in Nat /\ k \in 1 .. Len(sock) /\ k <= base.rem
  BY DEF SockTypeOK
<1>3. /\ base'.cnt = base.cnt /\ base'.rem = base.rem - k /\ base'.total = t + k
      /\ base' \in Frames
  <2>1. base \in [cnt : Nat, rem : Nat, total : Nat]
    BY DEF SockTypeOK, Frames
  <2>2. base' = [base EXCEPT !.rem = base.rem - k, !.total = base.total + k]
    BY DEF Stores
  <2>3. base.rem - k \in Nat /\ base.total + k \in Nat
    BY <1>1, <1>2
  <2> QED  BY <2>1, <2>2, <2>3 DEF Frames
<1>4. BufRem' = BufRem /\ Segment' = Segment /\ m_head' = m_head
  BY DEF BufRem, Segment, Stores
<1>5. /\ m_tail >= m_head => /\ h = (m_tail - m_head) + t
                             /\ m_tail + t + base.rem <= BufSz
                             /\ m_head = 0 => m_tail + t + base.rem < BufSz
      /\ m_tail < m_head => /\ h = (BufSz - m_head) + m_tail + t
                            /\ m_tail + t + base.rem < m_head
  <2>1. base.total + base.rem = IF m_tail >= m_head
                        THEN BufSz - m_tail - (IF m_head = 0 THEN 1 ELSE 0)
                        ELSE m_head - m_tail - 1
    BY RingFacts
  <2>2. h = BufRem + t
    BY DEF Held
  <2>3. t = base.total
    OBVIOUS
  <2> HIDE DEF h, t
  <2>4. ASSUME m_tail >= m_head
        PROVE  /\ h = (m_tail - m_head) + t
               /\ m_tail + t + base.rem <= BufSz
               /\ m_head = 0 => m_tail + t + base.rem < BufSz
    <3>1. h = (m_tail - m_head) + t
      BY <1>1, <2>2, <2>4
    <3>2. CASE m_head = 0
      <4>1. t + base.rem = BufSz - m_tail - 1
        BY <2>1, <2>3, <2>4, <3>2
      <4> QED  BY <1>1, <3>1, <4>1
    <3>3. CASE m_head # 0
      <4>1. t + base.rem = BufSz - m_tail - 0
        BY <2>1, <2>3, <2>4, <3>3
      <4> QED  BY <1>1, <3>1, <3>3, <4>1
    <3> QED  BY <3>2, <3>3
  <2>5. ASSUME m_tail < m_head
        PROVE  /\ h = (BufSz - m_head) + m_tail + t
               /\ m_tail + t + base.rem < m_head
    BY <1>1, <2>1, <2>2, <2>3, <2>5
  <2> QED  BY <2>4, <2>5
<1>6. h \in 0 .. BufSz - 1 /\ h + k \in 0 .. BufSz - 1 /\ Held' = h + k
  <2>0. h \in Int /\ BufRem \in Int /\ h = BufRem + t
    BY <1>1, RingFacts DEF Held
  <2> HIDE DEF h, t
  <2>1. h \in 0 .. BufSz - 1 /\ h + k \in 0 .. BufSz - 1
    <3>1. CASE m_tail >= m_head
      BY <1>1, <1>2, <1>5, <2>0, <3>1
    <3>2. CASE m_tail < m_head
      BY <1>1, <1>2, <1>5, <2>0, <3>2
    <3> QED  BY <1>1, <3>1, <3>2
  <2>2. Held' = h + k
    BY <1>1, <1>2, <1>3, <1>4, <2>0 DEF Held
  <2> QED  BY <2>1, <2>2
<1>7. \A j \in 1 .. k : sock[j] \in Chars
  BY <1>2, ElementOfSeq
<1>8. m_buf' \in Ring
  <2>1. ASSUME NEW i \in Slots, i - m_tail - t \in 0 .. k - 1
        PROVE  i - m_tail - t + 1 \in 1 .. k
    BY <1>1, <1>2, <2>1 DEF Slots
  <2> QED  BY <1>7, <2>1 DEF Ring, SockTypeOK, Stores
<1> HIDE DEF h, t
<1>9. ASSUME NEW i \in 1 .. h
      PROVE  m_buf'[Wrap(m_head + i - 1)] = m_buf[Wrap(m_head + i - 1)]
  <2>1. m_head + i - 1 \in 0 .. 2 * BufSz - 1
    BY <1>1, <1>6, <1>9
  <2> DEFINE y == m_head + i - 1
             w == Wrap(y)
  <2>2. w \in Slots /\ y \in Int /\ w = IF y >= BufSz THEN y - BufSz ELSE y
    <3>1. y \in 0 .. 2 * BufSz - 1
      BY <2>1
    <3> HIDE DEF y
    <3>2. Wrap(y) \in Slots /\ Wrap(y) = IF y >= BufSz THEN y - BufSz ELSE y
      BY <3>1, WrapIs
    <3> QED  BY <1>1, <3>1, <3>2
  <2> HIDE DEF w
  <2>3. w < m_tail + t \/ w >= m_tail + t + k
    <3>1. CASE m_tail >= m_head
      BY <1>1, <1>2, <1>5, <1>6, <1>9, <2>2, <3>1 DEF Slots
    <3>2. CASE m_tail < m_head
      BY <1>1, <1>2, <1>5, <1>6, <1>9, <2>2, <3>2 DEF Slots
    <3> QED  BY <1>1, <3>1, <3>2
  <2>4. ~(w - m_tail - t \in 0 .. k - 1)
    BY <1>1, <1>2, <2>2, <2>3 DEF Slots
  <2> QED  BY <2>2, <2>4 DEF t, w, Stores
<1>10. ASSUME NEW j \in 1 .. k
       PROVE  m_buf'[Wrap(m_head + (h + j) - 1)] = sock[j]
  <2>1. m_head + (h + j) - 1 \in 0 .. 2 * BufSz - 1
    BY <1>1, <1>2, <1>6, <1>10
  <2>2. /\ Wrap(m_head + (h + j) - 1) \in Slots
        /\ Wrap(m_head + (h + j) - 1) = m_tail + t + (j - 1)
    BY <1>1, <1>2, <1>5, <1>6, <1>10, <2>1, WrapIs
  <2>3. /\ (m_tail + t + (j - 1)) - m_tail - t = j - 1
        /\ j - 1 \in 0 .. k - 1 /\ (j - 1) + 1 = j
    BY <1>1, <1>2, <1>10
  <2> QED  BY <2>2, <2>3 DEF t, Stores
<1>11. First(Held)' = First(h) \o SubSeq(sock, 1, k)
  <2>1. First(h) \in Seq(Chars) /\ Len(First(h)) = h
        /\ \A i \in 1 .. h : First(h)[i] = m_buf[Wrap(m_head + i - 1)]
    <3>1. h \in 0 .. BufSz
      BY <1>1, <1>6
    <3> QED  BY <3>1, FirstIs
  <2>2. SubSeq(sock, 1, k) \in Seq(Chars) /\ Len(SubSeq(sock, 1, k)) = k
        /\ \A j \in 1 .. k : SubSeq(sock, 1, k)[j] = sock[j]
    BY <1>2, <1>7
  <2>3. First(Held)' = [i \in 1 .. h + k |-> m_buf'[Wrap(m_head + i - 1)]]
    BY <1>4, <1>6 DEF First, Wrap
  <2>4. First(h) \o SubSeq(sock, 1, k) \in Seq(Chars)
        /\ Len(First(h) \o SubSeq(sock, 1, k)) = h + k
        /\ \A i \in 1 .. h + k : (First(h) \o SubSeq(sock, 1, k))[i] =
              IF i <= h THEN First(h)[i] ELSE SubSeq(sock, 1, k)[i - h]
    <3> DEFINE u == First(h)
               v == SubSeq(sock, 1, k)
    <3>1. u \in Seq(Chars) /\ v \in Seq(Chars) /\ Len(u) = h /\ Len(v) = k
      BY <2>1, <2>2
    <3> HIDE DEF u, v
    <3>2. u \o v \in Seq(Chars) /\ Len(u \o v) = h + k
          /\ \A i \in 1 .. h + k : (u \o v)[i] = IF i <= h THEN u[i] ELSE v[i - h]
      BY <3>1, ConcatProperties
    <3> QED  BY <3>2 DEF u, v
  <2>5. ASSUME NEW i \in 1 .. h + k
        PROVE  m_buf'[Wrap(m_head + i - 1)] = (First(h) \o SubSeq(sock, 1, k))[i]
    <3>1. CASE i <= h
      <4>1. i \in 1 .. h
        BY <1>6, <2>5, <3>1
      <4> QED  BY <1>9, <2>1, <2>4, <2>5, <3>1, <4>1
    <3>2. CASE i > h
      <4>1. i - h \in 1 .. k /\ h + (i - h) = i /\ ~(i <= h)
        BY <1>2, <1>6, <2>5, <3>2
      <4>2. m_buf'[Wrap(m_head + i - 1)] = sock[i - h]
        BY <1>10, <4>1
      <4>3. (First(h) \o SubSeq(sock, 1, k))[i] = sock[i - h]
        BY <2>2, <2>4, <2>5, <4>1
      <4> QED  BY <4>2, <4>3
    <3>3. i <= h \/ i > h
      BY <1>6, <2>5
    <3> QED  BY <3>1, <3>2, <3>3
  <2>6. First(h) \o SubSeq(sock, 1, k)
          = [i \in 1 .. h + k |-> (First(h) \o SubSeq(sock, 1, k))[i]]
    BY <2>4
  <2> QED  BY <2>3, <2>5, <2>6
<1>12. base'.total + base'.rem = base.total + base.rem
  BY <1>1, <1>2, <1>3 DEF t
<1> QED  BY <1>3, <1>4, <1>6, <1>8, <1>11, <1>12, SockAssumption DEF h

(* What the end of base_read does: the tail moves behind what was read. *)
LEMMA ReceivedIs ==
  ASSUME SockTypeOK, base.total + base.rem = Segment,
         m_tail' = Wrap(m_tail + base.total), m_head' = m_head
  PROVE  /\ m_tail' \in Slots
         /\ BufRem' = BufRem + base.total
         /\ m_tail >= m_head /\ base.total >= BufSz - m_tail => m_tail' < m_head
         /\ m_tail < m_head => m_tail' < m_head
<1>1. /\ BufSz \in Nat /\ BufSz > 1
      /\ m_head \in 0 .. BufSz - 1 /\ m_tail \in 0 .. BufSz - 1
      /\ base.total \in Nat /\ base.rem \in Nat
      /\ BufRem = IF m_tail >= m_head THEN m_tail - m_head ELSE (BufSz - m_head) + m_tail
      /\ Segment = IF m_tail >= m_head
                   THEN BufSz - m_tail - (IF m_head = 0 THEN 1 ELSE 0)
                   ELSE m_head - m_tail - 1
  BY RingFacts DEF SockTypeOK, Frames
<1> DEFINE x == m_tail + base.total
<1>2. x \in 0 .. 2 * BufSz - 1
  BY <1>1
<1>3. m_tail' \in Slots
      /\ m_tail' = IF x >= BufSz THEN x - BufSz ELSE x
  <2>1. m_tail' = Wrap(x)
    OBVIOUS
  <2> HIDE DEF x
  <2> QED  BY <1>2, <2>1, WrapIs
<1>4. BufRem' = IF m_tail' >= m_head THEN m_tail' - m_head
                ELSE (BufSz - m_head) + m_tail'
  BY <1>1, <1>3 DEF BufRem, Slots
<1> QED  BY <1>1, <1>3, <1>4 DEF Slots
-----------------------------------------------------------------------------
(* The stream. *)

Stream == First(Held) \o sock

LEMMA SplitConcat ==
  ASSUME NEW S, NEW s \in Seq(S), NEW t \in Seq(S), NEW n \in 0 .. Len(s)
  PROVE  /\ SubSeq(s \o t, 1, n) = SubSeq(s, 1, n)
         /\ SubSeq(s \o t, n + 1, Len(s \o t)) = SubSeq(s, n + 1, Len(s)) \o t
<1> DEFINE c == s \o t
           l == Len(s)
           m == Len(t)
           r == SubSeq(s, n + 1, l)
<1>1. l \in Nat /\ m \in Nat /\ n \in 0 .. l
      /\ \A i \in 1 .. l : s[i] \in S
  BY LenProperties, ElementOfSeq
<1>2. c \in Seq(S) /\ Len(c) = l + m
      /\ \A i \in 1 .. l + m : c[i] = IF i <= l THEN s[i] ELSE t[i - l]
  BY ConcatProperties
<1>3. \A i \in 1 .. l + m : c[i] \in S
  BY <1>2, ElementOfSeq
<1> HIDE DEF c, l, m
<1>4. /\ SubSeq(c, 1, n) \in Seq(S) /\ Len(SubSeq(c, 1, n)) = n
      /\ \A i \in 1 .. n : SubSeq(c, 1, n)[i] = c[i]
  BY <1>1, <1>3, SubSeqProperties
<1>5. /\ SubSeq(s, 1, n) \in Seq(S) /\ Len(SubSeq(s, 1, n)) = n
      /\ \A i \in 1 .. n : SubSeq(s, 1, n)[i] = s[i]
  BY <1>1, SubSeqProperties
<1>6. SubSeq(c, 1, n) = SubSeq(s, 1, n)
  BY <1>1, <1>2, <1>4, <1>5, SeqEqual
<1>7. /\ SubSeq(c, n + 1, l + m) \in Seq(S) /\ Len(SubSeq(c, n + 1, l + m)) = (l + m) - n
      /\ \A i \in 1 .. (l + m) - n : SubSeq(c, n + 1, l + m)[i] = c[n + i]
  BY <1>1, <1>3, SubSeqProperties
<1>8. /\ r \in Seq(S) /\ Len(r) = l - n
      /\ \A i \in 1 .. l - n : r[i] = s[n + i]
  <2>1. n + 1 \in Int /\ l \in Int /\ \A i \in n + 1 .. l : s[i] \in S
    BY <1>1
  <2>2. /\ r \in Seq(S) /\ Len(r) = IF n + 1 <= l THEN (l - (n + 1)) + 1 ELSE 0
        /\ \A i \in 1 .. (l - (n + 1)) + 1 : r[i] = s[(n + 1) + i - 1]
    BY <2>1, SubSeqProperties
  <2> HIDE DEF r
  <2>3. (l - (n + 1)) + 1 = l - n /\ (~(n + 1 <= l) => l - n = 0)
    BY <1>1
  <2>4. \A i \in 1 .. l - n : (n + 1) + i - 1 = n + i
    BY <1>1
  <2> QED  BY <2>2, <2>3, <2>4
<1> HIDE DEF r
<1>9. /\ r \o t \in Seq(S) /\ Len(r \o t) = (l - n) + m
      /\ \A i \in 1 .. (l - n) + m : (r \o t)[i] =
            IF i <= l - n THEN r[i] ELSE t[i - (l - n)]
  <2>1. m = Len(t) /\ Len(r) = l - n /\ r \in Seq(S)
    BY <1>8 DEF m
  <2>2. /\ r \o t \in Seq(S) /\ Len(r \o t) = Len(r) + Len(t)
        /\ \A i \in 1 .. Len(r) + Len(t) : (r \o t)[i] =
              IF i <= Len(r) THEN r[i] ELSE t[i - Len(r)]
    BY <2>1, ConcatProperties
  <2> QED  BY <2>1, <2>2
<1>10. ASSUME NEW i \in 1 .. (l + m) - n
       PROVE  SubSeq(c, n + 1, l + m)[i] = (r \o t)[i]
  <2>1. n + i \in 1 .. l + m /\ i \in 1 .. (l - n) + m
    BY <1>1
  <2>2. CASE i <= l - n
    <3>1. n + i <= l /\ i \in 1 .. l - n
      BY <1>1, <2>2
    <3> QED  BY <1>2, <1>7, <1>8, <1>9, <2>1, <2>2, <3>1
  <2>3. CASE ~(i <= l - n)
    <3>1. ~(n + i <= l) /\ (n + i) - l = i - (l - n)
      BY <1>1, <2>3
    <3> QED  BY <1>2, <1>7, <1>9, <2>1, <2>3, <3>1
  <2> QED  BY <2>2, <2>3
<1>11. SubSeq(c, n + 1, l + m) = r \o t
  <2>1. Len(r \o t) = (l + m) - n
    BY <1>1, <1>9
  <2> QED  BY <1>7, <1>9, <1>10, <2>1, SeqEqual
<1> QED  BY <1>2, <1>6, <1>11 DEF c, l, m, r

(* No segment overlaps what the ring holds, and the ring never looks empty
   for being full. *)
LEMMA HeldIs ==
  ASSUME SInv
  PROVE  /\ BufRem \in 0 .. BufSz - 1 /\ Held \in 0 .. BufSz - 1
         /\ pc = "recv" => Held + base.rem <= BufSz - 1
         /\ base = NoFrame => Held = BufRem
<1>1. /\ BufSz \in Nat /\ BufSz > 1
      /\ m_head \in 0 .. BufSz - 1 /\ m_tail \in 0 .. BufSz - 1
      /\ base.total \in Nat /\ base.rem \in Nat
      /\ BufRem \in 0 .. BufSz - 1
      /\ BufRem = IF m_tail >= m_head THEN m_tail - m_head
                  ELSE (BufSz - m_head) + m_tail
      /\ Segment = IF m_tail >= m_head
                   THEN BufSz - m_tail - (IF m_head = 0 THEN 1 ELSE 0)
                   ELSE m_head - m_tail - 1
  BY RingFacts DEF SInv, SockTypeOK, Frames
<1>2. base = NoFrame => base.total = 0
  BY DEF NoFrame, Frame
<1>3. ASSUME pc = "recv"
      PROVE  BufRem + base.total + base.rem <= BufSz - 1
  <2>1. base.total + base.rem = Segment
    BY <1>3 DEF SInv, FillInv
  <2>2. CASE m_tail >= m_head /\ m_head = 0
    BY <1>1, <2>1, <2>2
  <2>3. CASE m_tail >= m_head /\ m_head # 0
    <3>1. Segment = BufSz - m_tail - 0
      BY <1>1, <2>3
    <3> QED  BY <1>1, <2>1, <2>3, <3>1
  <2>4. CASE ~(m_tail >= m_head)
    BY <1>1, <2>1, <2>4
  <2> QED  BY <2>2, <2>3, <2>4
<1>4. pc # "recv" => base.total = 0
  BY <1>2 DEF SInv, FillInv
<1> QED  BY <1>1, <1>2, <1>3, <1>4 DEF Held

LEMMA StreamIs ==
  ASSUME SInv
  PROVE  /\ First(Held) \in Seq(Chars) /\ Len(First(Held)) = Held
         /\ sock \in Seq(Chars) /\ Stream \in Seq(Chars)
         /\ Len(Stream) = Held + Len(sock)
<1>1. SockTypeOK /\ Held \in 0 .. BufSz
  BY HeldIs, SockAssumption DEF SInv
<1>2. First(Held) \in Seq(Chars) /\ Len(First(Held)) = Held
  BY <1>1, FirstIs
<1>3. sock \in Seq(Chars)
  BY <1>1 DEF SockTypeOK
<1> QED  BY <1>2, <1>3, ConcatProperties DEF Stream
-----------------------------------------------------------------------------
(* The steps: each keeps the invariant, and is a step of the stream or none. *)

Kept == SInv' /\ [Promise!CsNext]_(Promise!csVars)

LEMMA SameRing ==
  ASSUME UNCHANGED <<ringVars, base>>
  PROVE  /\ m_buf' = m_buf /\ m_head' = m_head /\ m_tail' = m_tail
         /\ BufRem' = BufRem /\ Segment' = Segment
         /\ Held' = Held /\ First(Held)' = First(Held)
  BY DEF ringVars, BufRem, Segment, Held, First, Wrap

LEMMA PeerSendsStep == ASSUME SInv, PeerSends PROVE Kept
<1>1. PICK c \in Chars : sock' = Append(sock, c)
  BY DEF PeerSends
<1>2. /\ ~closed /\ UNCHANGED <<ringVars, base>>
      /\ UNCHANGED <<m_buf, m_head, m_tail, base, fill, closed, pc, op, size, out, wrote>>
  BY DEF PeerSends, ringVars, callVars
<1>3. sock' \in Seq(Chars) /\ sock' = sock \o <<c>>
  BY <1>1, AppendProperties, AppendIsConcat DEF SInv, SockTypeOK
<1>4. SInv'
  BY <1>2, <1>3, SameRing
     DEF SInv, SockTypeOK, CallInv, FillInv, Promise!Complete, ToPop, Asked, Min2
<1>5. Stream' = Append(Stream, c)
  <2>1. First(Held) \in Seq(Chars) /\ sock \in Seq(Chars) /\ Stream \in Seq(Chars)
        /\ <<c>> \in Seq(Chars)
    BY StreamIs
  <2>2. Stream' = First(Held) \o (sock \o <<c>>)
    BY <1>2, <1>3, SameRing DEF Stream
  <2>3. Append(Stream, c) = Stream \o <<c>>
    BY <2>1, AppendIsConcat
  <2> QED  BY <2>1, <2>2, <2>3, ConcatAssociative DEF Stream
<1>6. Promise!PeerSends
  BY <1>2, <1>5 DEF Promise!PeerSends, Stream
<1> QED  BY <1>4, <1>6 DEF Kept, Promise!CsNext

LEMMA SameStream ==
  ASSUME UNCHANGED <<ringVars, base, sock>>
  PROVE  Stream' = Stream
  BY SameRing DEF Stream

LEMMA PeerClosesStep == ASSUME SInv, PeerCloses PROVE Kept
<1>1. /\ closed' = TRUE /\ UNCHANGED <<ringVars, base, sock>>
      /\ UNCHANGED <<m_buf, m_head, m_tail, base, fill, sock, pc, op, size, out, wrote>>
  BY DEF PeerCloses, ringVars, callVars
<1>2. SInv'
  BY <1>1, SameRing
     DEF SInv, SockTypeOK, CallInv, FillInv, Promise!Complete, ToPop, Asked, Min2
<1>3. Promise!PeerCloses
  BY <1>1, SameStream DEF Promise!PeerCloses, Stream
<1> QED  BY <1>2, <1>3 DEF Kept, Promise!CsNext

LEMMA CallStep == ASSUME SInv, Call PROVE Kept
<1>1. /\ pc = "idle" /\ op' \in {"read", "read_to", "write"} /\ size' \in Sizes
      /\ pc' = op' /\ out' = <<>> /\ wrote' = 0
      /\ UNCHANGED <<ringVars, base, sock>>
      /\ UNCHANGED <<m_buf, m_head, m_tail, base, fill, sock, closed>>
  BY DEF Call, ringVars, sockVars
<1>2. size' \in Nat \ {0} /\ out' \in Seq(Chars) /\ Len(out') = 0
  BY <1>1, SockAssumption
<1>3. SInv'
  <2>1. SockTypeOK'
    BY <1>1, <1>2 DEF SInv, SockTypeOK
  <2>2. CallInv'
    BY <1>1, <1>2 DEF CallInv
  <2>3. FillInv'
    BY <1>1 DEF SInv, FillInv
  <2> QED  BY <2>1, <2>2, <2>3 DEF SInv
<1>4. op = "none"
  BY <1>1 DEF SInv, CallInv
<1>5. Promise!Begin
  BY <1>1, <1>2, <1>4, SameStream DEF Promise!Begin, Stream
<1> QED  BY <1>3, <1>5 DEF Kept, Promise!CsNext

LEMMA ReturnStep == ASSUME SInv, Return PROVE Kept
<1>1. /\ pc = "return" /\ pc' = "idle" /\ op' = "none"
      /\ UNCHANGED <<ringVars, base, sock>>
      /\ UNCHANGED <<m_buf, m_head, m_tail, base, fill, sock, closed, size, out, wrote>>
  BY DEF Return, ringVars, sockVars
<1>2. SockTypeOK'
  BY <1>1 DEF SInv, SockTypeOK
<1>3. CallInv' /\ FillInv'
  BY <1>1 DEF SInv, CallInv, FillInv
<1>4. op # "none" /\ Promise!Complete
  BY <1>1 DEF SInv, CallInv
<1>5. Promise!Return
  BY <1>1, <1>4, SameStream DEF Promise!Return, Stream
<1> QED  BY <1>2, <1>3, <1>5 DEF Kept, SInv, Promise!CsNext

(* A call that fails loses what recv has put behind the tail. *)
LEMMA FailsStep ==
  ASSUME SInv, Fails, pc # "idle", closed, sock = <<>> \/ base = NoFrame
  PROVE  Kept
<1>1. /\ pc' = "idle" /\ op' = "none" /\ fill' = NoFrame /\ base' = NoFrame
      /\ UNCHANGED <<m_buf, m_head, m_tail, sock, closed, size, out, wrote>>
  BY DEF Fails, ringVars, sockVars
<1>2. NoFrame \in Frames
  BY DEF NoFrame, Frame, Frames
<1>3. SockTypeOK'
  BY <1>1, <1>2 DEF SInv, SockTypeOK
<1>4. CallInv' /\ FillInv'
  BY <1>1 DEF SInv, CallInv, FillInv
<1>5. op # "none"
  BY DEF SInv, CallInv
<1>6. /\ BufRem' = BufRem /\ Held' = BufRem /\ BufRem \in 0 .. Held
      /\ BufRem \in 0 .. BufSz /\ Held \in 0 .. BufSz /\ BufSz \in Nat
  <2>1. BufRem' = BufRem
    BY <1>1 DEF BufRem
  <2>2. BufRem \in 0 .. BufSz - 1 /\ Held \in 0 .. BufSz - 1 /\ base.total \in Nat
    BY HeldIs DEF SInv, SockTypeOK, Frames
  <2>3. Held' = BufRem' + 0
    BY <1>1 DEF Held, NoFrame, Frame
  <2> QED  BY <2>1, <2>2, <2>3, SockAssumption DEF Held
<1>7. First(Held)' = First(BufRem)
  BY <1>1, <1>6 DEF First, Wrap
<1>8. \E n \in 0 .. Len(Stream) : Stream' = SubSeq(Stream, 1, n)
  <2>0. First(Held) \in Seq(Chars) /\ Len(First(Held)) = Held /\ sock \in Seq(Chars)
        /\ Stream \in Seq(Chars) /\ Len(Stream) = Held + Len(sock)
    BY StreamIs
  <2>1. CASE sock = <<>>
    <3>1. Stream = First(Held)
      BY <2>0, <2>1, ConcatEmptySeq DEF Stream
    <3>2. First(BufRem) \in Seq(Chars) /\ Len(First(BufRem)) = BufRem
          /\ \A i \in 1 .. BufRem : First(BufRem)[i] = m_buf[Wrap(m_head + i - 1)]
      BY <1>6, FirstIs DEF SInv
    <3>3. Stream' = First(BufRem)
      BY <1>1, <1>7, <2>1, <3>2, ConcatEmptySeq DEF Stream
    <3>4. \A i \in 1 .. Held : First(Held)[i] = m_buf[Wrap(m_head + i - 1)]
      BY <1>6, FirstIs DEF SInv
    <3>5. First(BufRem) = SubSeq(First(Held), 1, BufRem)
      <4>1. \A i \in 1 .. BufRem : First(Held)[i] \in Chars
        BY <1>6, <2>0, ElementOfSeq
      <4>2. /\ SubSeq(First(Held), 1, BufRem) \in Seq(Chars)
            /\ Len(SubSeq(First(Held), 1, BufRem)) = BufRem
            /\ \A i \in 1 .. BufRem : SubSeq(First(Held), 1, BufRem)[i] = First(Held)[i]
        BY <1>6, <4>1, SubSeqProperties
      <4>3. \A i \in 1 .. BufRem : i \in 1 .. Held
        BY <1>6
      <4> QED  BY <3>2, <3>4, <4>2, <4>3, SeqEqual
    <3>6. BufRem \in 0 .. Len(Stream)
      BY <1>6, <2>0, <3>1
    <3> QED  BY <3>1, <3>3, <3>5, <3>6
  <2>2. CASE base = NoFrame
    <3>1. Stream' = Stream
      BY <1>1, <2>2, SameStream DEF ringVars
    <3>2. Stream = SubSeq(Stream, 1, Len(Stream)) /\ Len(Stream) \in 0 .. Len(Stream)
      BY <2>0, SubSeqFull, LenProperties
    <3> QED  BY <3>1, <3>2
  <2> QED  BY <2>1, <2>2
<1>9. Promise!Fail
  BY <1>1, <1>5, <1>8 DEF Promise!Fail, Stream
<1> QED  BY <1>3, <1>4, <1>9 DEF Kept, SInv, Promise!CsNext
LEMMA WriteStep == ASSUME SInv, Write PROVE Kept
<1>1. pc = "write" /\ op = "write" /\ base = NoFrame
  BY DEF Write, SInv, CallInv, FillInv
<1>2. CASE wrote = size /\ pc' = "return"
           /\ UNCHANGED <<ringVars, sockVars, callVars, fill, base>>
  <2>1. /\ UNCHANGED <<ringVars, base, sock>>
        /\ UNCHANGED <<m_buf, m_head, m_tail, base, fill, sock, closed, op, size, out, wrote>>
    BY <1>2 DEF ringVars, sockVars, callVars
  <2>2. SockTypeOK'
    BY <1>2, <2>1 DEF SInv, SockTypeOK
  <2>3. CallInv' /\ FillInv'
    BY <1>1, <1>2, <2>1 DEF CallInv, FillInv, Promise!Complete
  <2>4. UNCHANGED Promise!csVars
    BY <2>1, SameStream DEF Promise!csVars, Stream
  <2> QED  BY <2>2, <2>3, <2>4 DEF Kept, SInv
<1>3. CASE /\ wrote < size /\ \E k \in 1 .. size - wrote : wrote' = wrote + k
           /\ UNCHANGED <<ringVars, sockVars, op, size, out, pc, fill, base>>
  <2>1. /\ UNCHANGED <<ringVars, base, sock>>
        /\ UNCHANGED <<m_buf, m_head, m_tail, base, fill, sock, closed, op, size, out, pc>>
    BY <1>3 DEF ringVars, sockVars
  <2>2. wrote' \in Nat
    BY <1>3 DEF SInv, SockTypeOK
  <2>3. SInv'
    BY <1>1, <2>1, <2>2
       DEF SInv, SockTypeOK, CallInv, FillInv
  <2>4. UNCHANGED Promise!csVars
    BY <2>1, SameStream DEF Promise!csVars, Stream
  <2> QED  BY <2>3, <2>4 DEF Kept
<1>4. CASE wrote < size /\ closed /\ Fails
  BY <1>1, <1>4, FailsStep
<1> QED  BY <1>2, <1>3, <1>4 DEF Write

(* Popping hands the stream's first characters to the caller. *)
LEMMA PopStream ==
  ASSUME SInv, base = NoFrame, base' = base, sock' = sock,
         NEW n \in 0 .. BufRem, Pop(n)
  PROVE  /\ m_head' \in Slots /\ m_tail' = m_tail /\ m_buf' = m_buf
         /\ BufRem' = BufRem - n
         /\ n \in 0 .. Len(Stream)
         /\ Stream' = SubSeq(Stream, n + 1, Len(Stream))
         /\ out' = out \o SubSeq(Stream, 1, n)
         /\ out' \in Seq(Chars) /\ Len(out') = Len(out) + n
         /\ \A i \in 1 .. Len(out') : out'[i] =
              IF i <= Len(out) THEN out[i] ELSE First(BufRem)[i - Len(out)]
<1>1. /\ SockTypeOK /\ Held = BufRem /\ BufRem \in 0 .. BufSz /\ BufRem \in Nat
      /\ BufSz \in Nat /\ out \in Seq(Chars) /\ sock \in Seq(Chars)
  BY HeldIs, SockAssumption DEF SInv, SockTypeOK
<1>2. /\ m_head' \in Slots /\ m_tail' = m_tail /\ m_buf' = m_buf
      /\ BufRem' = BufRem - n
      /\ First(BufRem)' = SubSeq(First(BufRem), n + 1, BufRem)
      /\ First(n) = SubSeq(First(BufRem), 1, n)
      /\ out' = out \o First(n)
  BY <1>1, PopIs
<1>3. First(BufRem) \in Seq(Chars) /\ Len(First(BufRem)) = BufRem
  BY <1>1, FirstIs
<1>4. /\ Stream = First(BufRem) \o sock
      /\ SubSeq(Stream, 1, n) = First(n)
      /\ SubSeq(Stream, n + 1, Len(Stream)) = First(BufRem)' \o sock
      /\ Len(Stream) = BufRem + Len(sock)
  <2>1. Stream = First(BufRem) \o sock
    BY <1>1 DEF Stream
  <2> DEFINE w == First(BufRem)
  <2>2. w \in Seq(Chars) /\ Len(w) = BufRem /\ Stream = w \o sock
    BY <1>3, <2>1
  <2>3. First(n) = SubSeq(w, 1, n) /\ First(BufRem)' = SubSeq(w, n + 1, Len(w))
    BY <1>2, <1>3
  <2>4. n \in 0 .. Len(w)
    BY <2>2
  <2> HIDE DEF w
  <2>5. /\ SubSeq(w \o sock, 1, n) = SubSeq(w, 1, n)
        /\ SubSeq(w \o sock, n + 1, Len(w \o sock)) = SubSeq(w, n + 1, Len(w)) \o sock
        /\ Len(w \o sock) = Len(w) + Len(sock)
    BY <1>1, <2>2, <2>4, SplitConcat, ConcatProperties
  <2> QED  BY <2>1, <2>2, <2>3, <2>5
<1>5. Stream' = First(BufRem)' \o sock
  <2>1. Held' = BufRem' + 0
    BY DEF Held, NoFrame, Frame
  <2>2. Held' = BufRem'
    BY <1>1, <1>2, <2>1
  <2> QED  BY <2>2 DEF Stream, First
<1>6. n \in 0 .. Len(Stream)
  BY <1>1, <1>4, LenProperties
<1>7. /\ First(n) \in Seq(Chars) /\ Len(First(n)) = n
      /\ \A i \in 1 .. n : First(n)[i] = First(BufRem)[i]
  <2>1. n \in 0 .. BufSz
    BY <1>1
  <2>2. /\ First(n) \in Seq(Chars) /\ Len(First(n)) = n
        /\ \A i \in 1 .. n : First(n)[i] = m_buf[Wrap(m_head + i - 1)]
    BY <1>1, <2>1, FirstIs
  <2>3. \A i \in 1 .. BufRem : First(BufRem)[i] = m_buf[Wrap(m_head + i - 1)]
    BY <1>1, FirstIs
  <2>4. \A i \in 1 .. n : i \in 1 .. BufRem
    BY <1>1
  <2> QED  BY <2>2, <2>3, <2>4
<1>8. /\ out' \in Seq(Chars) /\ Len(out') = Len(out) + n
      /\ \A i \in 1 .. Len(out) + n : out'[i] =
            IF i <= Len(out) THEN out[i] ELSE First(n)[i - Len(out)]
  BY <1>1, <1>2, <1>7, ConcatProperties
<1>9. \A i \in 1 .. Len(out) + n : ~(i <= Len(out)) => i - Len(out) \in 1 .. n
  BY <1>1, LenProperties
<1> QED  BY <1>2, <1>4, <1>5, <1>6, <1>7, <1>8, <1>9

(* How buf_fill starts: it has nothing to do, or knows what is missing. *)
LEMMA EnterFillIs ==
  ASSUME NEW cnt \in 0 .. BufSz - 1, NEW have \in 0 .. BufSz - 1,
         EnterFill(cnt, have), BufRem' = have, base' = NoFrame,
         op' = "read" => cnt = ToPop'
  PROVE  /\ pc' \in {"fill", "filled"} /\ fill' \in Frames /\ FillInv'
<1>1. BufSz \in Nat
  BY SockAssumption
<1>2. CASE have >= cnt /\ pc' = "filled" /\ fill' = NoFrame
  <2>1. fill' \in Frames
    BY <1>2 DEF NoFrame, Frame, Frames
  <2> QED  BY <1>2, <2>1 DEF FillInv
<1>3. CASE ~(have >= cnt) /\ pc' = "fill" /\ fill' = Frame(cnt, cnt - have)
  <2>1. /\ fill'.cnt = cnt /\ fill'.rem = cnt - have /\ fill'.total = 0
        /\ fill' = [cnt |-> cnt, rem |-> cnt - have, total |-> 0]
    BY <1>3 DEF Frame
  <2>2. cnt - have \in Nat /\ cnt - have > 0 /\ cnt \in Nat /\ cnt <= BufSz - 1
        /\ have + (cnt - have) = cnt + 0
    BY <1>1, <1>3
  <2>3. fill' \in Frames
    BY <2>1, <2>2 DEF Frames
  <2> QED  BY <1>3, <2>1, <2>2, <2>3 DEF FillInv
<1> QED  BY <1>2, <1>3 DEF EnterFill
LEMMA SizesAre ==
  ASSUME SInv, op \in {"read", "read_to"}
  PROVE  /\ size \in Nat /\ Len(out) \in Nat /\ Len(out) <= size
         /\ out \in Seq(Chars) /\ BufSz \in Nat /\ BufSz > 1
         /\ BufRem \in 0 .. BufSz - 1
         /\ ToPop \in 0 .. BufSz - 1 /\ ToPop <= size - Len(out)
<1>1. /\ size \in Nat /\ Len(out) \in Nat /\ Len(out) <= size /\ out \in Seq(Chars)
      /\ BufSz \in Nat /\ BufSz > 1
  BY LenProperties, SockAssumption DEF SInv, SockTypeOK, CallInv
<1> QED  BY <1>1, HeldIs DEF ToPop, Min2

LEMMA ReadStep == ASSUME SInv, Read PROVE Kept
<1>1. /\ pc = "read" /\ op = "read" /\ base = NoFrame
      /\ UNCHANGED <<ringVars, base, sock>>
      /\ UNCHANGED <<m_buf, m_head, m_tail, base, sock, closed, op, size, out, wrote>>
  BY DEF Read, SInv, CallInv, FillInv, ringVars, sockVars, callVars
<1>2. UNCHANGED Promise!csVars
  BY <1>1, SameStream DEF Promise!csVars, Stream
<1>3. CASE Len(out) = size /\ pc' = "return" /\ UNCHANGED fill
  <2>1. SockTypeOK'
    BY <1>1, <1>3 DEF SInv, SockTypeOK
  <2>2. CallInv' /\ FillInv'
    BY <1>1, <1>3 DEF SInv, CallInv, FillInv, Promise!Complete
  <2> QED  BY <1>2, <2>1, <2>2 DEF Kept, SInv
<1>4. CASE EnterFill(ToPop, BufRem)
  <2>1. pc' \in {"fill", "filled"} /\ fill' \in Frames /\ FillInv'
    <3>1. ToPop \in 0 .. BufSz - 1 /\ BufRem \in 0 .. BufSz - 1
      BY <1>1, SizesAre
    <3>2. ToPop' = ToPop /\ BufRem' = BufRem /\ base' = NoFrame
      BY <1>1, SameRing DEF ToPop, Min2
    <3> QED  BY <1>4, <3>1, <3>2, EnterFillIs
  <2>2. SockTypeOK'
    BY <1>1, <2>1 DEF SInv, SockTypeOK
  <2>3. CallInv'
    BY <1>1, <2>1 DEF SInv, CallInv
  <2> QED  BY <1>2, <2>1, <2>2, <2>3 DEF Kept, SInv
<1> QED  BY <1>3, <1>4 DEF Read

LEMMA ReadFilledStep == ASSUME SInv, ReadFilled PROVE Kept
<1>1. /\ pc = "filled" /\ op = "read" /\ base = NoFrame /\ base' = base /\ sock' = sock
      /\ Pop(ToPop) /\ pc' = "read" /\ BufRem >= ToPop
      /\ UNCHANGED <<base, sock, closed, op, size, wrote, fill>>
  BY DEF ReadFilled, SInv, FillInv, sockVars
<1>2. /\ size \in Nat /\ Len(out) \in Nat /\ ToPop <= size - Len(out)
      /\ ToPop \in 0 .. BufRem /\ BufRem \in Nat
  BY <1>1, SizesAre
<1> DEFINE n == ToPop
<1>3. /\ m_head' \in Slots /\ m_tail' = m_tail /\ m_buf' = m_buf
      /\ n \in 0 .. Len(Stream)
      /\ Stream' = SubSeq(Stream, n + 1, Len(Stream))
      /\ out' = out \o SubSeq(Stream, 1, n)
      /\ out' \in Seq(Chars) /\ Len(out') = Len(out) + n
  BY <1>1, <1>2, PopStream
<1> HIDE DEF n
<1>4. Len(out') <= size
  BY <1>2, <1>3 DEF n
<1>5. SInv'
  <2>1. SockTypeOK'
    BY <1>1, <1>3 DEF SInv, SockTypeOK
  <2>2. CallInv' /\ FillInv'
    BY <1>1, <1>4 DEF CallInv, FillInv
  <2> QED  BY <2>1, <2>2 DEF SInv
<1>6. Promise!HandOver
  BY <1>1, <1>3, <1>4 DEF Promise!HandOver, Stream
<1> QED  BY <1>5, <1>6 DEF Kept, Promise!CsNext

LEMMA ReadToFilledStep == ASSUME SInv, ReadToFilled PROVE Kept
<1>1. /\ pc = "filled" /\ op = "read_to" /\ pc' = "read_to" /\ base = NoFrame
      /\ UNCHANGED <<ringVars, base, sock>>
      /\ UNCHANGED <<m_buf, m_head, m_tail, base, fill, sock, closed, op, size, out, wrote>>
  BY DEF ReadToFilled, SInv, FillInv, ringVars, sockVars, callVars
<1>2. SockTypeOK'
  BY <1>1 DEF SInv, SockTypeOK
<1>3. CallInv' /\ FillInv'
  BY <1>1 DEF SInv, CallInv, FillInv
<1>4. UNCHANGED Promise!csVars
  BY <1>1, SameStream DEF Promise!csVars, Stream
<1> QED  BY <1>2, <1>3, <1>4 DEF Kept, SInv

LEMMA ReadToStep == ASSUME SInv, ReadTo PROVE Kept
<1>1. /\ pc = "read_to" /\ op = "read_to" /\ base = NoFrame /\ base' = base /\ sock' = sock
      /\ UNCHANGED <<base, sock, closed, op, size, wrote>>
      /\ \A i \in 1 .. Len(out) : out[i] # Delim
  BY DEF ReadTo, SInv, CallInv, FillInv, sockVars
<1>2. /\ size \in Nat /\ Len(out) \in Nat /\ Len(out) <= size
      /\ BufRem \in 0 .. BufSz - 1 /\ BufRem \in Nat /\ BufSz \in Nat /\ BufSz > 1
  BY <1>1, SizesAre
<1>3. CASE Len(out) >= size /\ pc' = "return" /\ UNCHANGED <<ringVars, out, fill>>
  <2>1. /\ UNCHANGED <<ringVars, base, sock>>
        /\ UNCHANGED <<m_buf, m_head, m_tail, fill, out>>
    BY <1>1, <1>3 DEF ringVars
  <2>2. SockTypeOK'
    BY <1>1, <1>3, <2>1 DEF SInv, SockTypeOK
  <2>3. Len(out) = size
    BY <1>2, <1>3
  <2>4. CallInv' /\ FillInv'
    BY <1>1, <1>3, <2>1, <2>3 DEF SInv, CallInv, FillInv, Promise!Complete
  <2>5. UNCHANGED Promise!csVars
    BY <1>1, <2>1, SameStream DEF Promise!csVars, Stream
  <2> QED  BY <2>2, <2>4, <2>5 DEF Kept, SInv
(* What both ways of popping have in common. *)
<1>4. ASSUME NEW n \in 0 .. BufRem, Pop(n), n <= size - Len(out),
             \A i \in 1 .. n - 1 : First(BufRem)[i] # Delim
      PROVE  /\ m_head' \in Slots /\ m_tail' = m_tail /\ m_buf' = m_buf
             /\ BufRem' = BufRem - n
             /\ out' \in Seq(Chars) /\ Len(out') = Len(out) + n /\ Len(out') <= size
             /\ \A i \in 1 .. Len(out') : out'[i] =
                  IF i <= Len(out) THEN out[i] ELSE First(BufRem)[i - Len(out)]
             /\ Promise!HandOver
  <2>1. /\ m_head' \in Slots /\ m_tail' = m_tail /\ m_buf' = m_buf
        /\ BufRem' = BufRem - n
        /\ n \in 0 .. Len(Stream)
        /\ Stream' = SubSeq(Stream, n + 1, Len(Stream))
        /\ out' = out \o SubSeq(Stream, 1, n)
        /\ out' \in Seq(Chars) /\ Len(out') = Len(out) + n
        /\ \A i \in 1 .. Len(out') : out'[i] =
             IF i <= Len(out) THEN out[i] ELSE First(BufRem)[i - Len(out)]
    BY <1>1, <1>4, PopStream
  <2>2. Len(out') <= size
    BY <1>2, <1>4, <2>1
  <2>3. ASSUME NEW i \in 1 .. Len(out') - 1
        PROVE  out'[i] # Delim
    <3>1. i \in 1 .. Len(out') /\ (~(i <= Len(out)) => i - Len(out) \in 1 .. n - 1)
      BY <1>2, <1>4, <2>1
    <3>2. i <= Len(out) => i \in 1 .. Len(out)
      BY <1>2
    <3> QED  BY <1>1, <1>4, <2>1, <3>1, <3>2
  <2>4. Promise!HandOver
    BY <1>1, <2>1, <2>2, <2>3 DEF Promise!HandOver, Stream
  <2> QED  BY <2>1, <2>2, <2>4
<1>5. ASSUME Len(out) < size, NEW c \in CountTo, Pop(Min2(c, size - Len(out))),
             pc' = "return", UNCHANGED fill
      PROVE  Kept
  <2> DEFINE n == Min2(c, size - Len(out))
  <2>1. /\ c \in 1 .. BufRem /\ First(BufRem)[c] = Delim
        /\ \A i \in 1 .. c - 1 : First(BufRem)[i] # Delim
    BY <1>5 DEF CountTo, IsDelim
  <2>2. /\ n \in 1 .. BufRem /\ n <= c /\ n <= size - Len(out)
        /\ n = c \/ n = size - Len(out)
    BY <1>2, <1>5, <2>1 DEF Min2
  <2>3. Pop(n)
    BY <1>5
  <2> HIDE DEF n
  <2>4. \A i \in 1 .. n - 1 : First(BufRem)[i] # Delim
    <3>1. \A i \in 1 .. n - 1 : i \in 1 .. c - 1
      BY <1>2, <2>1, <2>2
    <3> QED  BY <2>1, <3>1
  <2>5. n \in 0 .. BufRem
    BY <1>2, <2>2
  <2>6. /\ m_head' \in Slots /\ m_tail' = m_tail /\ m_buf' = m_buf
        /\ out' \in Seq(Chars) /\ Len(out') = Len(out) + n /\ Len(out') <= size
        /\ \A i \in 1 .. Len(out') : out'[i] =
             IF i <= Len(out) THEN out[i] ELSE First(BufRem)[i - Len(out)]
        /\ Promise!HandOver
    BY <1>4, <2>2, <2>3, <2>4, <2>5
  <2>7. SockTypeOK'
    BY <1>1, <1>5, <2>6 DEF SInv, SockTypeOK
  <2>8. Len(out') = size \/ (out' # <<>> /\ out'[Len(out')] = Delim)
    <3>1. CASE n = size - Len(out)
      BY <1>2, <2>6, <3>1
    <3>2. CASE n = c
      <4>1. /\ Len(out') \in 1 .. Len(out') /\ ~(Len(out') <= Len(out))
            /\ Len(out') - Len(out) = c /\ Len(out') # 0
        BY <1>2, <2>2, <2>6, <3>2
      <4>2. out' # <<>>
        BY <4>1
      <4> QED  BY <2>1, <2>6, <4>1, <4>2
    <3> QED  BY <2>2, <3>1, <3>2
  <2>9. CallInv' /\ FillInv'
    BY <1>1, <1>5, <2>6, <2>8 DEF CallInv, FillInv, Promise!Complete
  <2> QED  BY <2>6, <2>7, <2>9 DEF Kept, SInv, Promise!CsNext
<1>6. ASSUME Len(out) < size, \A i \in 1 .. BufRem : ~IsDelim(i),
             NEW n, n = Min2(BufRem, size - Len(out)),
             Pop(n), EnterFill(1, BufRem - n)
      PROVE  Kept
  <2>1. n \in 0 .. BufRem /\ n <= size - Len(out) /\ BufRem - n \in 0 .. BufSz - 1
    BY <1>2, <1>6 DEF Min2
  <2>2. \A i \in 1 .. BufRem : First(BufRem)[i] # Delim
    BY <1>6 DEF IsDelim
  <2>3. \A i \in 1 .. n - 1 : First(BufRem)[i] # Delim
    <3>1. \A i \in 1 .. n - 1 : i \in 1 .. BufRem
      BY <1>2, <2>1
    <3> QED  BY <2>2, <3>1
  <2>4. /\ m_head' \in Slots /\ m_tail' = m_tail /\ m_buf' = m_buf
        /\ BufRem' = BufRem - n
        /\ out' \in Seq(Chars) /\ Len(out') = Len(out) + n /\ Len(out') <= size
        /\ \A i \in 1 .. Len(out') : out'[i] =
             IF i <= Len(out) THEN out[i] ELSE First(BufRem)[i - Len(out)]
        /\ Promise!HandOver
    BY <1>4, <1>6, <2>1, <2>3
  <2>5. pc' \in {"fill", "filled"} /\ fill' \in Frames /\ FillInv'
    <3>1. 1 \in 0 .. BufSz - 1
      BY <1>2
    <3>2. op' # "read" /\ base' = NoFrame
      BY <1>1
    <3> QED  BY <1>6, <2>1, <2>4, <3>1, <3>2, EnterFillIs
  <2>6. SockTypeOK'
    BY <1>1, <2>4, <2>5 DEF SInv, SockTypeOK
  <2>7. ASSUME NEW i \in 1 .. Len(out')
        PROVE  out'[i] # Delim
    <3>1. ~(i <= Len(out)) => i - Len(out) \in 1 .. BufRem
      BY <1>2, <2>1, <2>4
    <3>2. i <= Len(out) => i \in 1 .. Len(out)
      BY <1>2
    <3> QED  BY <1>1, <2>2, <2>4, <3>1, <3>2
  <2>8. CallInv'
    BY <1>1, <2>4, <2>5, <2>7 DEF CallInv
  <2> QED  BY <2>4, <2>5, <2>6, <2>8 DEF Kept, SInv, Promise!CsNext
<1> QED  BY <1>3, <1>5, <1>6 DEF ReadTo
(* A turn of buf_fill never asks for more than there is room for. *)
LEMMA AskedFits ==
  ASSUME SockTypeOK, FillInv, pc \in {"fill", "recv"}, fill.total < fill.rem
  PROVE  Asked \in Nat /\ Segment \in Nat /\ Asked <= Segment
<1>1. /\ BufSz \in Nat /\ BufSz > 1
      /\ m_head \in 0 .. BufSz - 1 /\ m_tail \in 0 .. BufSz - 1
      /\ fill.rem \in Nat /\ fill.total \in Nat /\ fill.cnt \in Nat
      /\ BufRem = IF m_tail >= m_head THEN m_tail - m_head
                  ELSE (BufSz - m_head) + m_tail
      /\ Segment = IF m_tail >= m_head
                   THEN BufSz - m_tail - (IF m_head = 0 THEN 1 ELSE 0)
                   ELSE m_head - m_tail - 1
  BY RingFacts DEF SockTypeOK, Frames
<1>2. /\ fill.rem > 0 /\ fill.cnt <= BufSz - 1
      /\ BufRem + fill.rem = fill.cnt + fill.total
      /\ fill.total = 0 \/ m_tail < m_head
  BY <1>1 DEF FillInv
<1>3. CASE m_tail >= m_head /\ m_head = 0
  <2>1. Asked = Min2(BufSz - m_tail, fill.rem) /\ Segment = BufSz - m_tail - 1
    BY <1>1, <1>3 DEF Asked
  <2>2. fill.rem <= BufSz - 1 - m_tail
    BY <1>1, <1>2, <1>3
  <2> QED  BY <1>1, <2>1, <2>2 DEF Min2
<1>4. CASE m_tail >= m_head /\ m_head # 0
  <2>1. Asked = Min2(BufSz - m_tail, fill.rem) /\ Segment = BufSz - m_tail - 0
    BY <1>1, <1>4 DEF Asked
  <2> QED  BY <1>1, <2>1 DEF Min2
<1>5. CASE ~(m_tail >= m_head)
  <2>1. Asked = Min2(m_head - m_tail - 1, fill.rem) /\ Segment = m_head - m_tail - 1
    BY <1>1, <1>5 DEF Asked
  <2> QED  BY <1>1, <1>5, <2>1 DEF Min2
<1> QED  BY <1>3, <1>4, <1>5

LEMMA FillStep == ASSUME SInv, Fill PROVE Kept
<1>1. /\ pc = "fill" /\ op \in {"read", "read_to"} /\ base = NoFrame
      /\ UNCHANGED ringVars
      /\ UNCHANGED <<m_buf, m_head, m_tail, sock, closed, op, size, out, wrote>>
  BY DEF Fill, SInv, CallInv, FillInv, ringVars, sockVars, callVars
<1>2. /\ BufRem' = BufRem /\ Segment' = Segment /\ ToPop' = ToPop
      /\ BufRem \in Nat /\ fill.total \in Nat /\ fill.rem \in Nat /\ fill.cnt \in Nat
  <2>1. BufRem \in 0 .. BufSz - 1 /\ BufSz \in Nat
    BY HeldIs, SockAssumption
  <2>2. BufRem' = BufRem /\ Segment' = Segment /\ ToPop' = ToPop
    BY <1>1 DEF BufRem, Segment, ToPop, Min2
  <2> QED  BY <2>1, <2>2 DEF SInv, SockTypeOK, Frames
<1>3. CASE fill.total >= fill.rem /\ pc' = "filled" /\ fill' = NoFrame /\ UNCHANGED base
  <2>1. op = "read" => BufRem >= ToPop
    <3>1. BufRem + fill.rem = fill.cnt + fill.total /\ (op = "read" => fill.cnt = ToPop)
      BY <1>1 DEF SInv, FillInv
    <3>2. BufRem >= fill.cnt
      BY <1>2, <1>3, <3>1
    <3> QED  BY <3>1, <3>2
  <2>2. SockTypeOK'
    BY <1>1, <1>3 DEF SInv, SockTypeOK, NoFrame, Frame, Frames
  <2>3. CallInv' /\ FillInv'
    BY <1>1, <1>2, <1>3, <2>1 DEF SInv, CallInv, FillInv
  <2>4. UNCHANGED Promise!csVars
    BY <1>1, <1>3, SameStream DEF Promise!csVars, Stream
  <2> QED  BY <2>2, <2>3, <2>4 DEF Kept, SInv
<1>4. CASE /\ ~(fill.total >= fill.rem)
           /\ pc' = "recv" /\ base' = Frame(Asked, Segment) /\ UNCHANGED fill
  <2>1. fill.total < fill.rem
    BY <1>2, <1>4
  <2>2. Asked \in Nat /\ Segment \in Nat
    BY <1>1, <2>1, AskedFits DEF SInv
  <2>3. /\ base'.cnt = Asked /\ base'.rem = Segment /\ base'.total = 0
        /\ base' = [cnt |-> Asked, rem |-> Segment, total |-> 0]
    BY <1>4 DEF Frame
  <2>4. base' \in Frames
    BY <2>2, <2>3 DEF Frames
  <2>5. SockTypeOK'
    BY <1>1, <1>4, <2>4 DEF SInv, SockTypeOK
  <2>6. CallInv'
    BY <1>1, <1>4 DEF SInv, CallInv
  <2>7. Asked' = Asked
    BY <1>1, <1>4 DEF Asked, Min2
  <2>8. base'.total + base'.rem = Segment'
    BY <1>2, <2>2, <2>3
  <2>9. FillInv'
    <3>1. /\ fill.rem > 0 /\ fill.cnt <= BufSz - 1
          /\ BufRem + fill.rem = fill.cnt + fill.total
          /\ fill.total = 0 \/ m_tail < m_head \/ fill.total >= fill.rem
          /\ op = "read" => fill.cnt = ToPop
      BY <1>1 DEF SInv, FillInv
    <3> QED  BY <1>1, <1>2, <1>4, <2>1, <2>3, <2>7, <2>8, <3>1 DEF FillInv
  <2>10. UNCHANGED Promise!csVars
    <3>1. Held' = BufRem' + 0 /\ Held = BufRem + 0
      BY <1>1, <2>3 DEF Held, NoFrame, Frame
    <3>2. Held' = Held
      BY <1>2, <3>1
    <3>3. Stream' = Stream
      BY <1>1, <3>2 DEF Stream, First, Wrap
    <3> QED  BY <1>1, <3>3 DEF Promise!csVars, Stream
  <2> QED  BY <2>5, <2>6, <2>9, <2>10 DEF Kept, SInv
<1> QED  BY <1>3, <1>4 DEF Fill

LEMMA RecvStep == ASSUME SInv, Recv PROVE Kept
<1>1. PICK k \in 1 .. Min2(base.rem, Len(sock)) :
        /\ Stores(k)
        /\ sock' = SubSeq(sock, k + 1, Len(sock))
        /\ UNCHANGED <<m_head, m_tail, closed, op, size, out, wrote, pc, fill>>
  BY DEF Recv, Stores, callVars
<1>2. /\ pc = "recv" /\ base.total + base.rem = Segment
      /\ sock \in Seq(Chars) /\ Len(sock) \in Nat /\ base.rem \in Nat
  BY LenProperties DEF Recv, SInv, SockTypeOK, FillInv, Frames
<1>3. k \in 1 .. Len(sock) /\ k <= base.rem /\ k \in 0 .. Len(sock)
  BY <1>1, <1>2 DEF Min2
<1>4. /\ m_buf' \in Ring /\ base' \in Frames
      /\ base'.cnt = base.cnt /\ base'.total + base'.rem = Segment'
      /\ First(Held)' = First(Held) \o SubSeq(sock, 1, k)
  BY <1>1, <1>2, <1>3, RecvIs DEF SInv
<1>5. /\ SubSeq(sock, 1, k) \in Seq(Chars) /\ sock' \in Seq(Chars)
      /\ SubSeq(sock, 1, k) \o sock' = sock
  <2>1. /\ \A i \in 1 .. k : sock[i] \in Chars
        /\ \A i \in k + 1 .. Len(sock) : sock[i] \in Chars
    BY <1>2, <1>3, ElementOfSeq
  <2>2. SubSeq(sock, 1, k) \in Seq(Chars) /\ SubSeq(sock, k + 1, Len(sock)) \in Seq(Chars)
    BY <1>2, <1>3, <2>1, SubSeqProperties
  <2>3. /\ 1 \in 1 .. Len(sock) + 1 /\ k \in 1 - 1 .. Len(sock)
        /\ Len(sock) \in k .. Len(sock)
    BY <1>2, <1>3
  <2>4. SubSeq(sock, 1, k) \o SubSeq(sock, k + 1, Len(sock)) = SubSeq(sock, 1, Len(sock))
    BY <1>2, <2>3, ConcatAdjacentSubSeq
  <2> QED  BY <1>1, <1>2, <2>2, <2>4, SubSeqFull
<1>6. SockTypeOK'
  BY <1>1, <1>4, <1>5 DEF SInv, SockTypeOK
<1>7. CallInv'
  BY <1>1 DEF SInv, CallInv, Promise!Complete
<1>8. FillInv'
  <2>1. BufRem' = BufRem /\ Asked' = Asked /\ ToPop' = ToPop
    BY <1>1 DEF BufRem, Asked, ToPop, Min2
  <2> QED  BY <1>1, <1>2, <1>4, <2>1 DEF SInv, FillInv
<1>9. UNCHANGED Promise!csVars
  <2>1. First(Held) \in Seq(Chars)
    BY StreamIs
  <2>2. Stream' = (First(Held) \o SubSeq(sock, 1, k)) \o sock'
    BY <1>4 DEF Stream
  <2>3. Stream' = Stream
    <3> DEFINE w == First(Held)
               u == SubSeq(sock, 1, k)
               v == SubSeq(sock, k + 1, Len(sock))
    <3>1. w \in Seq(Chars) /\ u \in Seq(Chars) /\ v \in Seq(Chars)
      BY <1>1, <1>5, <2>1
    <3>2. Stream' = (w \o u) \o v /\ Stream = w \o (u \o v)
      BY <1>1, <1>5, <2>2 DEF Stream
    <3> HIDE DEF w, u, v
    <3> QED  BY <3>1, <3>2, ConcatAssociative
  <2> QED  BY <1>1, <2>3 DEF Promise!csVars, Stream
<1> QED  BY <1>6, <1>7, <1>8, <1>9 DEF Kept, SInv

(* recv is given room: its 0 says that the peer has closed. *)
LEMMA RoomIsThere ==
  ASSUME SInv, pc = "recv", base.total < base.cnt
  PROVE  base.rem > 0
<1>1. /\ base.total \in Nat /\ base.rem \in Nat /\ base.cnt = Asked
      /\ base.total + base.rem = Segment
  BY DEF SInv, SockTypeOK, Frames, FillInv
<1>2. Asked \in Nat /\ Segment \in Nat /\ Asked <= Segment
  BY AskedFits DEF SInv, FillInv
<1> QED  BY <1>1, <1>2

LEMMA RecvNothingStep == ASSUME SInv, RecvNothing PROVE Kept
<1>1. base.rem # 0
  BY RoomIsThere DEF RecvNothing, SInv, SockTypeOK, Frames
<1>2. Fails /\ pc # "idle" /\ closed /\ sock = <<>>
  BY <1>1 DEF RecvNothing
<1> QED  BY <1>2, FailsStep

LEMMA ReceivedStep == ASSUME SInv, Received PROVE Kept
<1>1. /\ pc = "recv" /\ base.total >= base.cnt /\ m_tail' = Wrap(m_tail + base.total)
      /\ fill' = [fill EXCEPT !.total = fill.total + base.total]
      /\ pc' = "fill" /\ base' = NoFrame
      /\ UNCHANGED <<m_buf, m_head, sock, closed, op, size, out, wrote>>
  BY DEF Received, sockVars, callVars
<1>2. /\ op \in {"read", "read_to"}
      /\ fill.rem > 0 /\ fill.cnt <= BufSz - 1
      /\ BufRem + fill.rem = fill.cnt + fill.total
      /\ fill.total < fill.rem
      /\ op = "read" => fill.cnt = ToPop
      /\ base.cnt = Asked /\ base.total + base.rem = Segment
  BY <1>1 DEF SInv, CallInv, FillInv
<1>3. /\ BufSz \in Nat /\ m_head \in 0 .. BufSz - 1 /\ m_tail \in 0 .. BufSz - 1
      /\ BufRem \in 0 .. BufSz - 1
      /\ base.total \in Nat /\ base.rem \in Nat
      /\ fill \in [cnt : Nat, rem : Nat, total : Nat]
      /\ fill.cnt \in Nat /\ fill.rem \in Nat /\ fill.total \in Nat
  BY RingFacts DEF SInv, SockTypeOK, Frames
<1>4. /\ m_tail' \in Slots /\ BufRem' = BufRem + base.total
      /\ m_tail >= m_head /\ base.total >= BufSz - m_tail => m_tail' < m_head
      /\ m_tail < m_head => m_tail' < m_head
  BY <1>1, <1>2, ReceivedIs DEF SInv
<1>5. /\ fill' \in Frames /\ fill'.cnt = fill.cnt /\ fill'.rem = fill.rem
      /\ fill'.total = fill.total + base.total
  BY <1>1, <1>3 DEF Frames
<1>6. SockTypeOK'
  BY <1>1, <1>4, <1>5 DEF SInv, SockTypeOK, NoFrame, Frame, Frames
<1>7. CallInv'
  BY <1>1, <1>2 DEF SInv, CallInv
<1>8. m_tail' < m_head \/ fill'.total >= fill.rem
  <2>1. CASE m_tail >= m_head
    <3>1. base.cnt = BufSz - m_tail \/ base.cnt = fill.rem
      BY <1>2, <2>1 DEF Asked, Min2
    <3> QED  BY <1>1, <1>3, <1>4, <1>5, <2>1, <3>1
  <2>2. CASE m_tail < m_head
    BY <1>4, <2>2
  <2> QED  BY <1>3, <2>1, <2>2
<1>9. FillInv'
  <2>1. BufRem' + fill'.rem = fill'.cnt + fill'.total
    BY <1>2, <1>3, <1>4, <1>5
  <2>2. ToPop' = ToPop
    BY <1>1 DEF ToPop, Min2
  <2> QED  BY <1>1, <1>2, <1>5, <1>8, <2>1, <2>2 DEF FillInv
<1>10. UNCHANGED Promise!csVars
  <2>1. Held' = BufRem' + 0 /\ Held = BufRem + base.total
    BY <1>1 DEF Held, NoFrame, Frame
  <2>2. Held' = Held
    BY <1>3, <1>4, <2>1
  <2>3. Stream' = Stream
    BY <1>1, <2>2 DEF Stream, First, Wrap
  <2> QED  BY <1>1, <2>3 DEF Promise!csVars, Stream
<1> QED  BY <1>6, <1>7, <1>9, <1>10 DEF Kept, SInv

-----------------------------------------------------------------------------
(* The theorems. *)

LEMMA SockInitial == SockInit => SInv /\ Promise!CsInit
<1> SUFFICES ASSUME SockInit PROVE SInv /\ Promise!CsInit
  OBVIOUS
<1>1. /\ m_buf = [i \in Slots |-> Delim] /\ m_head = 0 /\ m_tail = 0
      /\ sock = <<>> /\ closed = FALSE /\ pc = "idle" /\ op = "none" /\ size = 0
      /\ out = <<>> /\ wrote = 0 /\ fill = NoFrame /\ base = NoFrame
  BY DEF SockInit
<1>2. BufSz \in Nat /\ BufSz > 1 /\ Delim \in Chars /\ 0 \in Slots
  BY SockAssumption DEF Slots
<1>3. NoFrame \in Frames
  BY DEF NoFrame, Frame, Frames
<1>4. SockTypeOK
  BY <1>1, <1>2, <1>3 DEF SockTypeOK, Ring
<1>5. CallInv /\ FillInv
  BY <1>1 DEF CallInv, FillInv
<1>6. First(Held) \o sock = <<>>
  <2>1. Held = 0 + 0
    BY <1>1 DEF Held, BufRem, NoFrame, Frame
  <2>2. Held = 0
    BY <2>1
  <2>3. First(Held) \in Seq(Chars) /\ Len(First(Held)) = 0
    BY <1>2, <1>4, <2>2, FirstIs
  <2>4. First(Held) = <<>>
    BY <2>3, EmptySeq
  <2> QED  BY <1>1, <2>4
<1>7. Promise!CsInit
  BY <1>1, <1>6 DEF Promise!CsInit
<1> QED  BY <1>4, <1>5, <1>7 DEF SInv

LEMMA SockStep == SInv /\ [SockNext]_vars => Kept
<1> SUFFICES ASSUME SInv, [SockNext]_vars PROVE Kept
  OBVIOUS
<1>1. ASSUME UNCHANGED vars PROVE Kept
  <2>1. /\ UNCHANGED <<ringVars, base, sock>>
        /\ UNCHANGED <<m_buf, m_head, m_tail, base, fill, sock, closed, pc, op, size, out, wrote>>
    BY <1>1 DEF vars, ringVars, sockVars, callVars
  <2>2. SInv'
    BY <2>1, SameRing
       DEF SInv, SockTypeOK, CallInv, FillInv, Promise!Complete, ToPop, Asked, Min2
  <2>3. UNCHANGED Promise!csVars
    BY <2>1, SameStream DEF Promise!csVars, Stream
  <2> QED  BY <2>2, <2>3 DEF Kept
<1> QED
  BY <1>1, PeerSendsStep, PeerClosesStep, CallStep, ReturnStep, ReadStep,
     ReadFilledStep, ReadToStep, ReadToFilledStep, WriteStep, FillStep,
     RecvStep, RecvNothingStep, ReceivedStep
  DEF SockNext, Works

LEMMA SockInductive == SockSpec => []SInv
<1>1. SockInit => SInv
  BY SockInitial
<1>2. SInv /\ [SockNext]_vars => SInv'
  BY SockStep DEF Kept
<1> QED  BY <1>1, <1>2, PTL DEF SockSpec

(* The indices stay in the buffer and everything has its type, for every size
   of the buffer and of the calls (SockIO.cpp:152-214). *)
THEOREM SockTypeCorrect == SockSpec => []SockTypeOK
<1>1. SInv => SockTypeOK
  BY DEF SInv
<1> QED  BY <1>1, SockInductive, PTL

(* recv is never given a segment that holds unread characters, the last free
   slot, or no room (SockIO.cpp:163-176). *)
THEOREM SegmentsAreFree == SockSpec => []SegmentIsFree
<1>1. SInv => SegmentIsFree
  BY HeldIs, RoomIsThere DEF SegmentIsFree
<1> QED  BY <1>1, SockInductive, PTL

(* The connection implements the stream of characters that SockIO.hpp
   promises, whatever the sizes and however recv cuts what arrives. *)
THEOREM StreamRefinement == SockSpec => ImplementsStream
<1>1. SockInit => Promise!CsInit
  BY SockInitial
<1>2. SInv /\ [SockNext]_vars => [Promise!CsNext]_(Promise!csVars)
  BY SockStep DEF Kept
<1> QED  BY <1>1, <1>2, SockInductive, PTL
         DEF SockSpec, ImplementsStream, Promise!CsSpec
=============================================================================
