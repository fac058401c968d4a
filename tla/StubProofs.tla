----------------------------- MODULE StubProofs -----------------------------
(***************************************************************************)
(* Proofs about GDBStub, for every set of addresses and every interval at  *)
(* which cont polls.  The argument is on what the stub has yet to read,    *)
(* wherever it stands (in the ring or in the socket), together with how    *)
(* far the client and the stub are with the client's last command.         *)
(***************************************************************************)
EXTENDS GDBStub, SequenceTheorems, TLAPS

Pending == ring \o toStub

Packetless(s) == \A i \in 1 .. Len(s) : s[i].kind # "packet"

(* At most one packet, which is p; only a program that runs is interrupted. *)
AtMost(s, p) ==
  \A i \in 1 .. Len(s) :
    s[i].kind = "packet" =>
      /\ s[i] = p
      /\ i = Len(s) \/ p.cmd = "c"
      /\ \A j \in 1 .. Len(s) : s[j].kind = "packet" => j = i

AcksFirst(s) == s # <<>> => s[1].kind # "packet"

Handled == Packetless(Pending)

(* Who is there. *)
Connection ==
  /\ conn = "open" <=> pc \in {"next", "checksum", "run", "ack", "last_ack"}
  /\ pc = "dead" => conn = "none"
  /\ conn = "none" => Pending = <<>>
  /\ conn = "waiting" => ring = <<>>
  /\ cl # "off" => ~closed
  /\ cl = "off" /\ conn # "none" => closed

(* How far the client's last command is, and what the client has yet to read. *)
Progress ==
  /\ AtMost(Pending, clSent)
  /\ cl = "idle" => Handled /\ toClient = <<>> /\ pc # "run"
  /\ cl = "sent" =>
       /\ clAck
       /\ \/ ~Handled /\ toClient = <<>>
          \/ Handled /\ toClient \in {<<"+">>, <<"+", Answer(clSent)>>}
          \/ conn = "none" /\ toClient \in {<<>>, <<"-">>}
  /\ cl = "wait" =>
       /\ toClient \in {<<>>, <<Answer(clSent)>>}
       /\ ~Handled => toClient = <<>> /\ ~clAck
  /\ pc = "run" =>
       /\ Handled
       /\ cl # "off" =>
            /\ clSent.cmd = "c"
            /\ toClient = IF cl = "sent" THEN <<"+">> ELSE <<>>
  /\ cl # "off" /\ conn = "waiting" => clAck /\ cl # "wait" /\ toClient = <<>>

(* Both sides acknowledge or neither does, except while the last acknowledgement
   is on its way; and the stub waits for one only where it will find one. *)
Modes ==
  /\ cl # "off" /\ conn = "open" => m_ack = clAck \/ (m_ack /\ pc = "last_ack")
  /\ pc \in {"ack", "last_ack"} =>
       /\ m_ack
       /\ AcksFirst(Pending)
       /\ cl = "idle" \/ (cl = "wait" /\ ~clAck) => Pending # <<>>
  /\ pc = "last_ack" /\ cl # "off" /\ clAck =>
       /\ Pending = <<>>
       /\ cl \in {"sent", "wait"} /\ clSent.cmd = "QStartNoAckMode"
       /\ toClient = IF cl = "sent" THEN <<"+", "OK">> ELSE <<"OK">>
  /\ cl \in {"sent", "wait"} /\ clAck /\ conn = "open" /\ Handled
       /\ clSent.cmd = "QStartNoAckMode" => pc = "last_ack"

(* The answer to a Z packet is on its way only after the breakpoint is set. *)
PointsHeld ==
  /\ BreaksHeld
  /\ cl \in {"sent", "wait"} /\ clSent.cmd = "Z" /\ clSent.type = "0"
       /\ toClient \in {<<"+", Answer(clSent)>>, <<Answer(clSent)>>}
     => clSent.addr \in m_breakpts
StubInv == Connection /\ Progress /\ Modes /\ PointsHeld

-----------------------------------------------------------------------------
(* Symbols, and what the stub has yet to read as a sequence of them.       *)

LEMMA Kinds ==
  /\ \A p \in Packets : p.kind = "packet" /\ p.addr \in Addrs
  /\ Other("ack").kind = "ack" /\ Other("int").kind = "int"
  /\ Other("ack") \in Symbols /\ Other("int") \in Symbols
  /\ \A x \in Symbols : x.kind = "packet" => x \in Packets
<1>1. \A p \in Commands : p.kind = "packet" /\ p.addr \in Addrs
  BY StubAssumption DEF Commands, Packet
<1>2. \A p \in Packets : p.kind = "packet" /\ p.addr \in Addrs
  BY <1>1 DEF Packets, Commands, Packet
<1> QED  BY <1>2 DEF Symbols, Other

LEMMA PacketsOfSymbols ==
  ASSUME NEW x \in Symbols, x.kind = "packet"
  PROVE  x \in Packets
  BY Kinds

LEMMA EmptyStream ==
  ASSUME NEW p
  PROVE  Packetless(<<>>) /\ AtMost(<<>>, p) /\ AcksFirst(<<>>)
<1>1. Len(<<>>) = 0 /\ 1 .. 0 = {}
  OBVIOUS
<1> QED  BY <1>1 DEF Packetless, AtMost, AcksFirst

LEMMA TailOfStream ==
  ASSUME NEW s \in Seq(Symbols), s # <<>>, NEW p, AtMost(s, p)
  PROVE  /\ AtMost(Tail(s), p)
         /\ Packetless(s) => Packetless(Tail(s))
         /\ s[1].kind # "packet" /\ ~Packetless(s) => ~Packetless(Tail(s))
         /\ s[1].kind = "packet" =>
              /\ s[1] = p /\ Packetless(Tail(s)) /\ ~Packetless(s)
              /\ Tail(s) = <<>> \/ p.cmd = "c"
<1> DEFINE t == Tail(s)
<1>1. /\ Len(s) \in Nat \ {0} /\ t \in Seq(Symbols) /\ Len(t) = Len(s) - 1
      /\ \A i \in 1 .. Len(t) : t[i] = s[i + 1]
  BY HeadTailProperties, EmptySeq
<1> HIDE DEF t
<1>2. \A i \in 1 .. Len(t) : i + 1 \in 1 .. Len(s) /\ (i + 1 = Len(s) => i = Len(t))
  BY <1>1
<1>3. AtMost(t, p)
  <2> SUFFICES ASSUME NEW i \in 1 .. Len(t), t[i].kind = "packet"
               PROVE  /\ t[i] = p
                      /\ i = Len(t) \/ p.cmd = "c"
                      /\ \A j \in 1 .. Len(t) : t[j].kind = "packet" => j = i
    BY DEF AtMost
  <2>1. i + 1 \in 1 .. Len(s) /\ s[i + 1].kind = "packet" /\ t[i] = s[i + 1]
    BY <1>1, <1>2
  <2>2. ASSUME NEW j \in 1 .. Len(t), t[j].kind = "packet"
        PROVE  j = i
    <3>1. j + 1 \in 1 .. Len(s) /\ s[j + 1].kind = "packet"
      BY <1>1, <1>2, <2>2
    <3>2. j + 1 = i + 1
      BY <2>1, <3>1 DEF AtMost
    <3> QED  BY <1>1, <3>2
  <2> QED  BY <1>2, <2>1, <2>2 DEF AtMost
<1>4. Packetless(s) => Packetless(t)
  BY <1>1, <1>2 DEF Packetless
<1>5. ASSUME s[1].kind # "packet", Packetless(t)
      PROVE  Packetless(s)
  <2> SUFFICES ASSUME NEW i \in 1 .. Len(s)
               PROVE  s[i].kind # "packet"
    BY DEF Packetless
  <2>1. CASE i = 1
    BY <1>5, <2>1
  <2>2. CASE i # 1
    <3>1. i - 1 \in 1 .. Len(t) /\ (i - 1) + 1 = i
      BY <1>1, <2>2
    <3> QED  BY <1>1, <1>5, <3>1 DEF Packetless
  <2> QED  BY <2>1, <2>2
<1>6. ASSUME s[1].kind = "packet"
      PROVE  /\ s[1] = p /\ Packetless(t) /\ ~Packetless(s)
             /\ t = <<>> \/ p.cmd = "c"
  <2>1. 1 \in 1 .. Len(s)
    BY <1>1
  <2>2. s[1] = p /\ (1 = Len(s) \/ p.cmd = "c")
        /\ \A j \in 1 .. Len(s) : s[j].kind = "packet" => j = 1
    BY <1>6, <2>1 DEF AtMost
  <2>3. Packetless(t)
    BY <1>1, <1>2, <2>2 DEF Packetless
  <2>4. 1 = Len(s) => t = <<>>
    BY <1>1, EmptySeq
  <2> QED  BY <1>6, <2>1, <2>2, <2>3, <2>4 DEF Packetless
<1> QED  BY <1>3, <1>4, <1>5, <1>6 DEF t

LEMMA AppendOther ==
  ASSUME NEW s \in Seq(Symbols), NEW x \in Symbols, x.kind # "packet",
         NEW p, AtMost(s, p), Packetless(s) \/ p.cmd = "c"
  PROVE  /\ AtMost(Append(s, x), p)
         /\ Packetless(Append(s, x)) <=> Packetless(s)
         /\ AcksFirst(s) => AcksFirst(Append(s, x))
         /\ Append(s, x) # <<>>
<1> DEFINE t == Append(s, x)
<1>1. /\ Len(s) \in Nat /\ Len(t) = Len(s) + 1 /\ t # <<>>
      /\ \A i \in 1 .. Len(s) : t[i] = s[i]
      /\ t[Len(s) + 1] = x
  BY AppendProperties, LenProperties
<1> HIDE DEF t
<1>2. \A i \in 1 .. Len(t) : i \in 1 .. Len(s) \/ i = Len(s) + 1
  BY <1>1
<1>3. Packetless(t) <=> Packetless(s)
  BY <1>1, <1>2 DEF Packetless
<1>4. AtMost(t, p)
  <2> SUFFICES ASSUME NEW i \in 1 .. Len(t), t[i].kind = "packet"
               PROVE  /\ t[i] = p
                      /\ i = Len(t) \/ p.cmd = "c"
                      /\ \A j \in 1 .. Len(t) : t[j].kind = "packet" => j = i
    BY DEF AtMost
  <2>1. i \in 1 .. Len(s) /\ s[i].kind = "packet" /\ t[i] = s[i]
    BY <1>1, <1>2
  <2>2. ~Packetless(s)
    BY <2>1 DEF Packetless
  <2>3. \A j \in 1 .. Len(t) : t[j].kind = "packet" => j \in 1 .. Len(s) /\ s[j].kind = "packet"
    BY <1>1, <1>2
  <2> QED  BY <2>1, <2>2, <2>3 DEF AtMost
<1>5. AcksFirst(s) => AcksFirst(t)
  <2>1. CASE s = <<>>
    BY <1>1, <2>1, EmptySeq DEF AcksFirst
  <2>2. CASE s # <<>>
    BY <1>1, <2>2, EmptySeq DEF AcksFirst
  <2> QED  BY <2>1, <2>2
<1> QED  BY <1>1, <1>3, <1>4, <1>5 DEF t

LEMMA AppendPacket ==
  ASSUME NEW s \in Seq(Symbols), Packetless(s), NEW p \in Packets
  PROVE  /\ AtMost(Append(s, p), p)
         /\ ~Packetless(Append(s, p))
         /\ s # <<>> => AcksFirst(Append(s, p))
         /\ Append(s, p) # <<>>
<1> DEFINE t == Append(s, p)
<1>1. /\ Len(s) \in Nat /\ Len(t) = Len(s) + 1 /\ t # <<>>
      /\ \A i \in 1 .. Len(s) : t[i] = s[i]
      /\ t[Len(s) + 1] = p
  BY AppendProperties, LenProperties DEF Symbols
<1> HIDE DEF t
<1>2. \A i \in 1 .. Len(t) : t[i].kind = "packet" <=> i = Len(s) + 1
  BY <1>1, Kinds DEF Packetless
<1>3. AtMost(t, p)
  BY <1>1, <1>2 DEF AtMost
<1>4. ~Packetless(t)
  BY <1>1, <1>2 DEF Packetless
<1>5. s # <<>> => AcksFirst(t)
  BY <1>1, EmptySeq DEF AcksFirst, Packetless
<1> QED  BY <1>1, <1>3, <1>4, <1>5 DEF t

(* What the actions do to ring and toStub, on what is pending.             *)
Wires == ring \in Seq(Symbols) /\ toStub \in Seq(Symbols)

LEMMA PendingType ==
  ASSUME Wires
  PROVE  /\ Pending \in Seq(Symbols)
         /\ Pending = <<>> <=> ring = <<>> /\ toStub = <<>>
         /\ ring # <<>> => Pending[1] = Head(ring) /\ Head(ring) \in Symbols
<1>1. Pending \in Seq(Symbols) /\ (Pending = <<>> <=> ring = <<>> /\ toStub = <<>>)
  BY ConcatProperties, ConcatEqualIffEmpty DEF Wires, Pending
<1>2. ASSUME ring # <<>>
      PROVE  Pending[1] = Head(ring) /\ Head(ring) \in Symbols
  <2>1. Len(ring) \in Nat \ {0} /\ Len(toStub) \in Nat
    BY <1>2, EmptySeq, LenProperties DEF Wires
  <2>2. 1 \in 1 .. Len(ring) + Len(toStub) /\ 1 <= Len(ring)
    BY <2>1
  <2>3. Pending[1] = ring[1]
    BY <2>2, ConcatProperties DEF Wires, Pending
  <2> QED  BY <1>2, <2>3, HeadTailProperties DEF Wires
<1> QED  BY <1>1, <1>2

LEMMA TakesFirst ==
  ASSUME Wires, ring # <<>>, ring' = Tail(ring), UNCHANGED toStub
  PROVE  Pending # <<>> /\ Pending' = Tail(Pending)
<1>1. Pending \in Seq(Symbols) /\ Pending # <<>>
  BY PendingType
<1>2. /\ Tail(ring) \in Seq(Symbols) /\ Len(Tail(ring)) = Len(ring) - 1
      /\ \A i \in 1 .. Len(Tail(ring)) : Tail(ring)[i] = ring[i + 1]
      /\ Len(ring) \in Nat \ {0} /\ Len(toStub) \in Nat
  BY HeadTailProperties, EmptySeq, LenProperties DEF Wires
<1>3. /\ Tail(Pending) \in Seq(Symbols) /\ Len(Tail(Pending)) = Len(Pending) - 1
      /\ \A i \in 1 .. Len(Tail(Pending)) : Tail(Pending)[i] = Pending[i + 1]
  BY <1>1, HeadTailProperties
<1>4. /\ Len(Pending) = Len(ring) + Len(toStub)
      /\ \A i \in 1 .. Len(ring) + Len(toStub) :
           Pending[i] = IF i <= Len(ring) THEN ring[i] ELSE toStub[i - Len(ring)]
  BY ConcatProperties DEF Wires, Pending
<1> DEFINE q == Tail(ring) \o toStub
<1>5. /\ q \in Seq(Symbols) /\ Len(q) = Len(Tail(ring)) + Len(toStub)
      /\ \A i \in 1 .. Len(Tail(ring)) + Len(toStub) :
           q[i] = IF i <= Len(Tail(ring)) THEN Tail(ring)[i] ELSE toStub[i - Len(Tail(ring))]
  BY <1>2, ConcatProperties DEF Wires
<1> HIDE DEF q
<1>6. ASSUME NEW i \in 1 .. Len(q)
      PROVE  q[i] = Tail(Pending)[i]
  <2>1. i + 1 \in 1 .. Len(ring) + Len(toStub) /\ i \in 1 .. Len(Tail(Pending))
    BY <1>2, <1>3, <1>4, <1>5, <1>6
  <2>2. CASE i <= Len(ring) - 1
    <3>1. i \in 1 .. Len(Tail(ring)) /\ i + 1 <= Len(ring) /\ i <= Len(Tail(ring))
      BY <1>2, <1>6, <2>2
    <3> QED  BY <1>2, <1>3, <1>4, <1>5, <1>6, <2>1, <3>1
  <2>3. CASE i > Len(ring) - 1
    <3>1. ~(i <= Len(Tail(ring))) /\ ~(i + 1 <= Len(ring))
          /\ i - Len(Tail(ring)) = (i + 1) - Len(ring)
      BY <1>2, <2>3
    <3>2. q[i] = toStub[i - Len(Tail(ring))]
      BY <1>5, <1>6, <3>1
    <3>3. Pending[i + 1] = toStub[(i + 1) - Len(ring)]
      BY <1>4, <2>1, <3>1
    <3> QED  BY <1>3, <2>1, <3>1, <3>2, <3>3
  <2>4. i <= Len(ring) - 1 \/ i > Len(ring) - 1
    BY <1>2
  <2> QED  BY <2>2, <2>3, <2>4
<1>7. q = Tail(Pending)
  BY <1>2, <1>3, <1>4, <1>5, <1>6, SeqEqual
<1>8. Pending' = q
  BY DEF Pending, q
<1> QED  BY <1>1, <1>7, <1>8

LEMMA SendsOne ==
  ASSUME Wires, NEW x \in Symbols, toStub' = Append(toStub, x), UNCHANGED ring
  PROVE  Pending' = Append(Pending, x)
<1>1. toStub' = toStub \o <<x>> /\ Append(Pending, x) = Pending \o <<x>>
  BY AppendIsConcat, PendingType DEF Wires
<1>2. <<x>> \in Seq(Symbols)
  OBVIOUS
<1> QED  BY <1>1, <1>2, ConcatAssociative DEF Wires, Pending

LEMMA Regrouped ==
  ASSUME NEW s \in Seq(Symbols), NEW t \in Seq(Symbols), NEW u \in Seq(Symbols)
  PROVE  (s \o t) \o u = s \o (t \o u)
  BY ConcatAssociative

LEMMA ReadsAhead ==
  ASSUME Wires, NEW k \in 1 .. Len(toStub),
         ring' = ring \o SubSeq(toStub, 1, k), toStub' = SubSeq(toStub, k + 1, Len(toStub))
  PROVE  UNCHANGED Pending /\ ring' \in Seq(Symbols) /\ toStub' \in Seq(Symbols)
<1>1. Len(toStub) \in Nat /\ \A i \in 1 .. Len(toStub) : toStub[i] \in Symbols
  BY LenProperties, ElementOfSeq DEF Wires
<1>2. SubSeq(toStub, 1, k) \in Seq(Symbols)
  <2>1. k \in Int /\ \A i \in 1 .. k : toStub[i] \in Symbols
    BY <1>1
  <2> QED  BY <2>1, SubSeqProperties
<1>3. toStub' \in Seq(Symbols)
  BY <1>1, SubSeqProperties
<1>4. SubSeq(toStub, 1, k) \o toStub' = SubSeq(toStub, 1, Len(toStub))
  <2>1. 1 \in 1 .. Len(toStub) + 1 /\ k \in 1 - 1 .. Len(toStub)
        /\ Len(toStub) \in k .. Len(toStub)
    BY <1>1
  <2> QED  BY <2>1, ConcatAdjacentSubSeq DEF Wires
<1>5. SubSeq(toStub, 1, Len(toStub)) = toStub
  BY SubSeqFull DEF Wires
<1>6. ring' \in Seq(Symbols)
  BY <1>2, ConcatProperties DEF Wires
<1>7. ring' \o toStub' = ring \o (SubSeq(toStub, 1, k) \o toStub')
  BY <1>2, <1>3, Regrouped DEF Wires
<1> QED  BY <1>3, <1>4, <1>5, <1>6, <1>7 DEF Pending

-----------------------------------------------------------------------------
(* Types. *)

Replies == {"+", "-", "S05", "data", "empty", "OK"}

LEMMA AnswerType ==
  ASSUME NEW p
  PROVE  Answer(p) \in {"S05", "data", "empty", "OK"}
  BY DEF Answer

LEMMA RepliesAppended ==
  ASSUME toClient \in Seq(Replies), NEW answers \in Seq(Replies), Sent(answers)
  PROVE  toClient' \in Seq(Replies)
  BY ConcatProperties DEF Sent

LEMMA TwoReplies ==
  ASSUME NEW a
  PROVE  <<"+">> \o <<a>> = <<"+", a>> /\ <<>> \o <<a>> = <<a>>
<1> DEFINE S == {"+", a}
           t == <<"+">> \o <<a>>
           u == <<"+", a>>
<1>1. <<"+">> \in Seq(S) /\ <<a>> \in Seq(S) /\ u \in Seq(S)
  OBVIOUS
<1>2. Len(<<"+">>) = 1 /\ Len(<<a>>) = 1 /\ Len(u) = 2
  OBVIOUS
<1>3. \A i \in 1 .. 1 + 1 : t[i] = IF i <= 1 THEN <<"+">>[i] ELSE <<a>>[i - 1]
  BY <1>1, <1>2, ConcatProperties
<1>4. t \in Seq(S) /\ Len(t) = 2
  BY <1>1, <1>2, ConcatProperties
<1>5. t[1] = u[1] /\ t[2] = u[2]
  BY <1>3
<1>6. <<>> \o <<a>> = <<a>>
  BY <1>1, ConcatEmptySeq
<1> HIDE DEF S, t, u
<1>7. \A i \in 1 .. Len(t) : t[i] = u[i]
  BY <1>4, <1>5
<1>8. t = u
  BY <1>1, <1>2, <1>4, <1>7, SeqEqual
<1> QED  BY <1>6, <1>8 DEF t, u

LEMMA PlusType == Plus \in Seq(Replies)
<1>1. <<"+">> \in Seq(Replies) /\ <<>> \in Seq(Replies)
  BY DEF Replies
<1> QED  BY <1>1 DEF Plus

LEMMA PlusAnswer ==
  ASSUME NEW a
  PROVE  /\ Plus \o <<a>> = IF m_ack THEN <<"+", a>> ELSE <<a>>
         /\ a \in Replies => Plus \o <<a>> \in Seq(Replies)
<1>1. Plus \o <<a>> = IF m_ack THEN <<"+", a>> ELSE <<a>>
  BY TwoReplies DEF Plus
<1>2. a \in Replies => <<"+", a>> \in Seq(Replies) /\ <<a>> \in Seq(Replies)
  BY DEF Replies
<1> QED  BY <1>1, <1>2

LEMMA CountedType ==
  ASSUME cnt \in 0 .. PollEvery - 1
  PROVE  Counted \in 0 .. PollEvery - 1
  BY StubAssumption DEF Counted

LEMMA CommandIs ==
  ASSUME NEW q \in Commands
  PROVE  q = Packet(q.cmd, q.type, q.addr, TRUE)
  BY DEF Commands, Packet

LEMMA GoodChanged ==
  ASSUME NEW p, NEW cmd, NEW type, NEW addr, \E old : p = Packet(cmd, type, addr, old)
  PROVE  \A new : [p EXCEPT !.good = new] = Packet(cmd, type, addr, new)
  BY DEF Packet

LEMMA PacketAgain ==
  ASSUME NEW p \in Packets
  PROVE  [p EXCEPT !.good = TRUE] \in Packets
<1>1. PICK q \in Commands : p = q \/ p = [q EXCEPT !.good = FALSE]
  BY DEF Packets
<1>2. q = Packet(q.cmd, q.type, q.addr, TRUE)
  BY CommandIs
<1>3. \A new : [q EXCEPT !.good = new] = Packet(q.cmd, q.type, q.addr, new)
  <2>1. \E old : q = Packet(q.cmd, q.type, q.addr, old)
    BY <1>2, Zenon
  <2> QED  BY <2>1, GoodChanged, SMT
<1>4. [q EXCEPT !.good = FALSE] = Packet(q.cmd, q.type, q.addr, FALSE)
  BY <1>3, Zenon
<1>5. \E old : p = Packet(q.cmd, q.type, q.addr, old)
  BY <1>1, <1>2, <1>4, Zenon
<1>6. \A new : [p EXCEPT !.good = new] = Packet(q.cmd, q.type, q.addr, new)
  BY <1>5, GoodChanged, SMT
<1>7. [p EXCEPT !.good = TRUE] = q
  BY <1>2, <1>6, Zenon
<1> QED  BY <1>7 DEF Packets

StubPart ==
  /\ pc \in {"accept", "next", "checksum", "run", "ack", "last_ack", "dead"} /\ m_ack \in BOOLEAN
  /\ cnt \in 0 .. PollEvery - 1
  /\ {m_breakpts, m_read_watchpts, m_write_watchpts} \subseteq SUBSET Addrs
ClientPart ==
  /\ cl \in {"off", "idle", "sent", "wait"} /\ clAck \in BOOLEAN
  /\ clSent \in Packets /\ clInt \in BOOLEAN /\ h_breaks \subseteq Addrs
WirePart ==
  /\ Wires /\ toClient \in Seq(Replies)
  /\ conn \in {"none", "waiting", "open"} /\ closed \in BOOLEAN

LEMMA TypeParts == StubTypeOK <=> StubPart /\ ClientPart /\ WirePart
  BY DEF StubTypeOK, StubPart, ClientPart, WirePart, Wires, Replies

LEMMA ClientTypeStep ==
  ASSUME StubTypeOK,
         Connect \/ SendCommand \/ TakePlus \/ SendAgain \/ TakeAnswer \/ Interrupt
           \/ Leave \/ NoticeEnd
  PROVE  StubTypeOK'
<1>1. StubPart /\ ClientPart /\ WirePart
  BY TypeParts
<1>2. UNCHANGED <<pc, m_ack, cnt, points>>
  BY DEF Connect, SendCommand, TakePlus, SendAgain, TakeAnswer, Interrupt, Leave, NoticeEnd,
         Gone
<1>3. StubPart'
  BY <1>1, <1>2 DEF StubPart, points
<1>4. ClientPart'
  <2>1. CASE Connect \/ TakePlus \/ Interrupt \/ Leave \/ NoticeEnd
    BY <1>1, <2>1 DEF Connect, TakePlus, Interrupt, Leave, NoticeEnd, Gone, ClientPart
  <2>2. CASE SendCommand
    BY <1>1, <2>2 DEF SendCommand, Send, ClientPart
  <2>3. CASE SendAgain
    BY <1>1, <2>3, PacketAgain DEF SendAgain, Send, ClientPart
  <2>4. CASE TakeAnswer
    BY <1>1, <2>4, Kinds DEF TakeAnswer, ClientPart
  <2> QED  BY <2>1, <2>2, <2>3, <2>4
<1>5. WirePart'
  <2>1. ring' = ring
    BY DEF Connect, SendCommand, TakePlus, SendAgain, TakeAnswer, Interrupt, Leave, NoticeEnd,
           Gone
  <2>2. toStub' \in Seq(Symbols)
    <3>1. \A x \in Symbols : Append(toStub, x) \in Seq(Symbols)
      BY <1>1, AppendProperties DEF WirePart, Wires
    <3>2. \A p \in Packets : p \in Symbols /\ [p EXCEPT !.good = TRUE] \in Symbols
      BY PacketAgain DEF Symbols
    <3>3. CASE SendCommand \/ SendAgain
      BY <1>1, <3>1, <3>2, <3>3 DEF SendCommand, SendAgain, Send, ClientPart, WirePart, Wires
    <3>4. CASE TakeAnswer \/ Interrupt
      BY <1>1, <3>1, <3>4, Kinds DEF TakeAnswer, Interrupt, WirePart, Wires
    <3>5. CASE Connect \/ TakePlus \/ Leave \/ NoticeEnd
      BY <1>1, <3>5 DEF Connect, TakePlus, Leave, NoticeEnd, Gone, WirePart, Wires
    <3> QED  BY <3>3, <3>4, <3>5
  <2>3. toClient' \in Seq(Replies)
    <3>1. toClient' = toClient \/ toClient' = <<>> \/ (toClient # <<>> /\ toClient' = Tail(toClient))
      BY DEF Connect, SendCommand, TakePlus, SendAgain, TakeAnswer, Interrupt, Leave, NoticeEnd,
             Gone
    <3> QED  BY <1>1, <3>1, HeadTailProperties, EmptySeq DEF WirePart
  <2>4. conn' \in {"none", "waiting", "open"} /\ closed' \in BOOLEAN
    BY <1>1 DEF WirePart, Connect, SendCommand, TakePlus, SendAgain, TakeAnswer, Interrupt,
                Leave, NoticeEnd, Gone
  <2> QED  BY <1>1, <2>1, <2>2, <2>3, <2>4 DEF WirePart, Wires
<1> QED  BY <1>3, <1>4, <1>5 DEF StubTypeOK, StubPart, ClientPart, WirePart, Wires, Replies

StubStep == Stub \/ ChecksumWaits \/ PanicEscapes \/ PipeBreaks

LEMMA SetPointsType ==
  ASSUME NEW p \in Packets, SetPoints(p),
         {m_breakpts, m_read_watchpts, m_write_watchpts} \subseteq SUBSET Addrs
  PROVE  {m_breakpts', m_read_watchpts', m_write_watchpts'} \subseteq SUBSET Addrs
  BY Kinds DEF SetPoints

(* Serving a packet, which the Serve actions have in common. *)
LEMMA Serves ==
  ASSUME WirePart,
         ServePoint \/ ServeQuery \/ ServeStep \/ ServeNoAck \/ ServeSilently \/ ServeContinue
  PROVE  /\ pc = "next" /\ ring # <<>> /\ ring' = Tail(ring)
         /\ Head(ring) \in Packets /\ Head(ring).good
         /\ UNCHANGED <<cnt, toStub, conn, closed, clientVars, m_ack>>
         /\ ServePoint \/ (UNCHANGED points /\ Head(ring).cmd # "Z")
         /\ \/ /\ Sent(Plus \o <<Answer(Head(ring))>>)
               /\ IF Head(ring).cmd = "QStartNoAckMode" /\ m_ack
                  THEN pc' = "last_ack" ELSE pc' = AfterWrite
               /\ Head(ring).cmd \notin {"c", "v", "D"}
            \/ /\ Head(ring).cmd = "v" /\ Sent(Plus) /\ pc' = "next"
            \/ /\ Head(ring).cmd = "c" /\ Sent(Plus) /\ pc' = "run"
<1>1. \A cmds : Takes(cmds) =>
         /\ pc = "next" /\ ring # <<>> /\ ring' = Tail(ring)
         /\ Head(ring).kind = "packet" /\ Head(ring).good /\ Head(ring).cmd \in cmds
         /\ UNCHANGED <<cnt, toStub, conn, closed, clientVars>>
  BY DEF Takes
<1>2. ASSUME ring # <<>>, Head(ring).kind = "packet"
      PROVE  Head(ring) \in Packets
  BY <1>2, HeadTailProperties, PacketsOfSymbols DEF WirePart, Wires
<1>3. CASE ServePoint
  BY <1>1, <1>2, <1>3 DEF ServePoint
<1>4. CASE ServeQuery
  BY <1>1, <1>2, <1>4 DEF ServeQuery, Answer
<1>5. CASE ServeStep
  BY <1>1, <1>2, <1>5 DEF ServeStep, Answer
<1>6. CASE ServeNoAck
  BY <1>1, <1>2, <1>6 DEF ServeNoAck, Answer, AfterWrite
<1>7. CASE ServeSilently
  BY <1>1, <1>2, <1>7 DEF ServeSilently
<1>8. CASE ServeContinue
  BY <1>1, <1>2, <1>8 DEF ServeContinue
<1> QED  BY <1>3, <1>4, <1>5, <1>6, <1>7, <1>8

ServeAny ==
  ServePoint \/ ServeQuery \/ ServeStep \/ ServeNoAck \/ ServeSilently \/ ServeContinue

LEMMA StubTypeStep ==
  ASSUME StubTypeOK, StubStep
  PROVE  StubTypeOK'
<1>1. StubPart /\ ClientPart /\ WirePart
  BY TypeParts
<1>2. UNCHANGED clientVars
  BY <1>1, Serves DEF StubStep, Stub, Accept, ChecksumWaits, Recv, EndOfFile, Skip, Refuse,
         Detach, TakeAck, StopOnInterrupt, Run, PanicEscapes, PipeBreaks, Dies
<1>3. ClientPart'
  BY <1>1, <1>2 DEF ClientPart, clientVars
<1>4. StubPart'
  <2>1. CASE ServeAny
    <3>1. UNCHANGED <<m_ack, cnt>> /\ pc' \in {"next", "run", "ack", "last_ack"}
      BY <1>1, <2>1, Serves DEF ServeAny, AfterWrite
    <3>2. CASE ServePoint
      <4>1. Head(ring) \in Packets /\ SetPoints(Head(ring))
        BY <1>1, <3>2, Serves DEF ServePoint
      <4> QED  BY <1>1, <3>1, <4>1, SetPointsType DEF StubPart
    <3>3. CASE UNCHANGED points
      BY <1>1, <3>1, <3>3 DEF StubPart, points
    <3> QED  BY <1>1, <2>1, <3>2, <3>3, Serves DEF ServeAny
  <2>2. CASE Run \/ StopOnInterrupt
    <3>1. cnt' \in 0 .. PollEvery - 1
      BY <1>1, <2>2, CountedType, StubAssumption DEF Run, StopOnInterrupt, Stops, StubPart
    <3>2. pc' \in {"run", "ack", "next"} /\ UNCHANGED <<m_ack, points>>
      BY <1>1, <2>2 DEF Run, StopOnInterrupt, Stops, AfterWrite, StubPart
    <3> QED  BY <1>1, <3>1, <3>2 DEF StubPart, points
  <2>3. CASE Accept \/ ChecksumWaits \/ Recv \/ EndOfFile \/ Skip \/ Refuse \/ Detach
               \/ TakeAck \/ PanicEscapes \/ PipeBreaks
    <3>1. /\ pc' \in {"accept", "next", "checksum", "run", "ack", "last_ack", "dead"}
          /\ m_ack' \in BOOLEAN
          /\ cnt' = cnt \/ cnt' = 0
          /\ UNCHANGED points
      BY <1>1, <2>3 DEF Accept, ChecksumWaits, Recv, EndOfFile, Skip, Refuse, Detach, TakeAck,
                        PanicEscapes, PipeBreaks, Dies, Close, StubPart
    <3> QED  BY <1>1, <3>1, StubAssumption DEF StubPart, points
  <2> QED  BY <2>1, <2>2, <2>3 DEF StubStep, Stub, ServeAny
<1>5. WirePart'
  <2>1. Wires'
    <3>1. CASE Recv
      BY <1>1, <3>1, ReadsAhead DEF Recv, WirePart, Wires
    <3>2. CASE ServeAny \/ Skip \/ TakeAck
      <4>1. ring # <<>> /\ ring' = Tail(ring) /\ UNCHANGED toStub
        BY <1>1, <3>2, Serves DEF ServeAny, Skip, TakeAck
      <4> QED  BY <1>1, <4>1, HeadTailProperties DEF WirePart, Wires
    <3>3. CASE Accept \/ ChecksumWaits \/ EndOfFile \/ Refuse \/ Detach \/ PanicEscapes
                 \/ PipeBreaks \/ Run \/ StopOnInterrupt
      <4>1. (ring' = ring \/ ring' = <<>>) /\ (toStub' = toStub \/ toStub' = <<>>)
        BY <3>3 DEF Accept, ChecksumWaits, wireVars, EndOfFile, Refuse, Detach, PanicEscapes,
                    PipeBreaks, Run, StopOnInterrupt, Dies, Close
      <4> QED  BY <1>1, <4>1, EmptySeq DEF WirePart, Wires
    <3> QED  BY <3>1, <3>2, <3>3 DEF StubStep, Stub, ServeAny
  <2>2. toClient' \in Seq(Replies)
    <3> USE DEF WirePart
    <3>1. CASE ServeAny
      <4>1. \/ Sent(Plus \o <<Answer(Head(ring))>>) \/ Sent(Plus)
        BY <1>1, <3>1, Serves DEF ServeAny
      <4>2. Answer(Head(ring)) \in Replies
        BY AnswerType DEF Replies
      <4>3. Plus \o <<Answer(Head(ring))>> \in Seq(Replies)
        BY <4>2, PlusAnswer
      <4> QED  BY <1>1, <4>1, <4>3, PlusType, RepliesAppended
    <3>2. CASE Refuse \/ Detach
      <4>1. <<"-">> \in Seq(Replies) /\ <<>> \in Seq(Replies)
        BY DEF Replies
      <4>2. Sent(<<"-">>) \/ Sent(<<>>) \/ Sent(Plus)
        BY <3>2 DEF Refuse, Detach
      <4> QED  BY <1>1, <4>1, <4>2, PlusType, RepliesAppended
    <3>3. CASE Run \/ StopOnInterrupt
      <4>1. <<"S05">> \in Seq(Replies)
        BY DEF Replies
      <4>2. toClient' = toClient \/ Sent(<<"S05">>)
        BY <3>3 DEF Run, StopOnInterrupt, Stops
      <4> QED  BY <1>1, <4>1, <4>2, RepliesAppended
    <3>4. CASE Accept \/ ChecksumWaits \/ Recv \/ EndOfFile \/ Skip \/ TakeAck
                 \/ PanicEscapes \/ PipeBreaks
      BY <1>1, <3>4 DEF Accept, ChecksumWaits, wireVars, Recv, EndOfFile, Skip, TakeAck,
                        PanicEscapes, PipeBreaks, Dies
    <3> QED  BY <3>1, <3>2, <3>3, <3>4 DEF StubStep, Stub, ServeAny
  <2>3. conn' \in {"none", "waiting", "open"} /\ closed' \in BOOLEAN
    <3>1. CASE ServeAny
      BY <1>1, <3>1, Serves DEF ServeAny, WirePart
    <3>2. CASE ~ServeAny
      BY <1>1, <3>2 DEF ServeAny, WirePart, StubStep, Stub, Accept, ChecksumWaits, wireVars, Recv,
                        EndOfFile, Skip, Refuse, Detach, TakeAck, StopOnInterrupt, Run, PanicEscapes, PipeBreaks, Dies, Close
    <3> QED  BY <3>1, <3>2
  <2> QED  BY <2>1, <2>2, <2>3 DEF WirePart
<1> QED  BY <1>3, <1>4, <1>5 DEF StubTypeOK, StubPart, ClientPart, WirePart, Wires, Replies

LEMMA StubSteps ==
  ASSUME [StubNext]_vars
  PROVE  \/ Connect \/ SendCommand \/ TakePlus \/ SendAgain \/ TakeAnswer \/ Interrupt
           \/ Leave \/ NoticeEnd
         \/ StubStep
         \/ UNCHANGED vars
  BY DEF StubNext, Client, StubStep

LEMMA TypeStep ==
  ASSUME StubTypeOK, [StubNext]_vars
  PROVE  StubTypeOK'
<1>1. CASE UNCHANGED vars
  BY <1>1 DEF vars, wireVars, points, clientVars, StubTypeOK
<1> QED  BY <1>1, StubSteps, ClientTypeStep, StubTypeStep

(* Every variable keeps its type, for every set of addresses. *)
THEOREM StubTypeCorrect == StubSpec => []StubTypeOK
<1>1. StubInit => StubTypeOK
  <2> SUFFICES ASSUME StubInit PROVE StubTypeOK
    OBVIOUS
  <2>1. Packet("q", "0", 0, TRUE) \in Packets
    BY DEF Packets, Commands, Plain
  <2>2. StubPart
    BY StubAssumption DEF StubInit, StubPart
  <2>3. ClientPart
    BY <2>1 DEF StubInit, ClientPart
  <2>4. WirePart
    BY EmptySeq DEF StubInit, WirePart, Wires
  <2> QED  BY <2>2, <2>3, <2>4, TypeParts
<1> QED  BY <1>1, TypeStep, PTL DEF StubSpec

-----------------------------------------------------------------------------
(* The steps of the client. *)

LEMMA ReplyQueues ==
  ASSUME NEW a
  PROVE  /\ Tail(<<"+", a>>) = <<a>> /\ Tail(<<"+">>) = <<>> /\ Tail(<<a>>) = <<>>
         /\ Head(<<"+", a>>) = "+" /\ Head(<<"-">>) = "-"
         /\ <<"+", a>> # <<>> /\ <<a>> # <<>> /\ <<"+", a>> # <<"+">>
         /\ <<"+">> # <<>> /\ <<"-">> # <<>>
<1>1. /\ Len(<<"+", a>>) = 2 /\ Len(<<a>>) = 1 /\ Len(<<"+">>) = 1 /\ Len(<<"-">>) = 1
      /\ Len(<<>>) = 0
  OBVIOUS
<1>2. Tail(<<"+", a>>) = <<a>> /\ Tail(<<"+">>) = <<>> /\ Tail(<<a>>) = <<>>
  OBVIOUS
<1>3. Head(<<"+", a>>) = "+" /\ Head(<<"-">>) = "-"
  OBVIOUS
<1> QED  BY <1>1, <1>2, <1>3

Situation == StubPart /\ ClientPart /\ WirePart /\ Connection /\ Progress /\ Modes

LEMMA ConnectStep ==
  ASSUME Situation, Connect
  PROVE  Connection' /\ Progress' /\ Modes'
<1>1. /\ cl = "off" /\ conn = "none" /\ pc # "dead"
      /\ conn' = "waiting" /\ closed' = FALSE /\ toClient' = <<>>
      /\ cl' = "idle" /\ clAck' = TRUE
      /\ UNCHANGED <<pc, m_ack, ring, toStub, clSent>>
  BY DEF Connect
<1>2. pc = "accept"
  BY <1>1 DEF Situation, Connection, StubPart
<1>3. Pending = <<>> /\ ring = <<>> /\ Pending' = <<>>
  BY <1>1, PendingType DEF Situation, Connection, WirePart, Pending
<1>4. Handled' /\ AtMost(Pending', clSent')
  BY <1>3, EmptyStream DEF Handled
<1>5. Connection'
  BY <1>1, <1>2, <1>3 DEF Connection
<1>6. Progress'
  BY <1>1, <1>2, <1>4 DEF Progress
<1>7. Modes'
  BY <1>1, <1>2 DEF Modes
<1> QED  BY <1>5, <1>6, <1>7

LEMMA SendCommandStep ==
  ASSUME Situation, SendCommand
  PROVE  Connection' /\ Progress' /\ Modes'
<1>1. PICK p \in Packets : toStub' = Append(toStub, p) /\ clSent' = p
  BY DEF SendCommand, Send
<1>2. /\ cl = "idle" /\ conn # "none" /\ cl' = IF clAck THEN "sent" ELSE "wait"
      /\ UNCHANGED <<pc, m_ack, ring, toClient, conn, closed, clAck>>
  BY DEF SendCommand, Send
<1>3. /\ Pending \in Seq(Symbols) /\ Pending' = Append(Pending, p)
      /\ Packetless(Pending)
  <2>1. p \in Symbols
    BY DEF Symbols
  <2> QED  BY <1>1, <1>2, <2>1, PendingType, SendsOne
           DEF Situation, WirePart, Progress, Handled
<1>4. /\ AtMost(Pending', clSent') /\ ~Handled' /\ Pending' # <<>>
      /\ Pending # <<>> => AcksFirst(Pending')
  BY <1>1, <1>3, AppendPacket DEF Handled
<1>5. Connection'
  BY <1>2 DEF Situation, Connection
<1>6. Progress'
  BY <1>2, <1>4 DEF Situation, Progress
<1>7. Modes'
  BY <1>2, <1>4 DEF Situation, Modes
<1> QED  BY <1>5, <1>6, <1>7

(* The steps that do not touch the stream towards the stub.                *)
LEMMA SameStream ==
  ASSUME UNCHANGED <<ring, toStub>>
  PROVE  Pending' = Pending /\ Handled' = Handled
  BY DEF Pending, Handled, Packetless

LEMMA TakePlusStep ==
  ASSUME Situation, TakePlus
  PROVE  Connection' /\ Progress' /\ Modes'
<1>1. /\ cl = "sent" /\ toClient # <<>> /\ Head(toClient) = "+"
      /\ toClient' = Tail(toClient) /\ cl' = "wait"
      /\ UNCHANGED <<pc, m_ack, ring, toStub, conn, closed, clAck, clSent>>
  BY DEF TakePlus
<1>2. Pending' = Pending /\ Handled' = Handled
  BY <1>1, SameStream
<1> DEFINE a == Answer(clSent)
<1>3. clAck /\ Handled /\ toClient \in {<<"+">>, <<"+", a>>}
  BY <1>1, ReplyQueues DEF Situation, Progress
<1>4. /\ toClient = <<"+">> => toClient' = <<>>
      /\ toClient = <<"+", a>> => toClient' = <<a>>
  BY <1>1, ReplyQueues
<1>5. Answer(clSent)' = a
  BY <1>1 DEF Answer
<1> HIDE DEF a
<1>6. Connection'
  BY <1>1, <1>2 DEF Situation, Connection
<1>7. Progress'
  BY <1>1, <1>2, <1>3, <1>4, <1>5 DEF Situation, Progress, AtMost
<1>8. Modes'
  <2>1. ASSUME pc = "last_ack"
        PROVE  Pending = <<>> /\ clSent.cmd = "QStartNoAckMode" /\ toClient' = <<"OK">>
    BY <1>1, <1>3, <2>1, ReplyQueues DEF Situation, Modes
  <2> QED  BY <1>1, <1>2, <1>3, <2>1 DEF Situation, Modes, AcksFirst
<1> QED  BY <1>6, <1>7, <1>8

LEMMA SendAgainStep ==
  ASSUME Situation, SendAgain
  PROVE  Connection' /\ Progress' /\ Modes' /\ toClient' = <<>>
<1>1. cl = "sent" /\ toClient # <<>> /\ Head(toClient) = "-" /\ toClient' = Tail(toClient)
  BY DEF SendAgain
<1>2. conn = "none" /\ toClient = <<"-">>
  BY <1>1, ReplyQueues DEF Situation, Progress
<1>3. UNCHANGED <<pc, m_ack, ring, toStub, conn, closed, cl, clAck, clSent>> /\ toClient' = <<>>
  BY <1>1, <1>2, ReplyQueues DEF SendAgain
<1>4. Pending' = Pending /\ Handled' = Handled
  BY <1>3, SameStream
<1>5. Connection'
  BY <1>3, <1>4 DEF Situation, Connection
<1>6. Progress'
  BY <1>1, <1>2, <1>3, <1>4 DEF Situation, Progress, AtMost, Connection
<1>7. Modes'
  BY <1>1, <1>2, <1>3, <1>4 DEF Situation, Modes, Connection
<1> QED  BY <1>3, <1>5, <1>6, <1>7

LEMMA TakeAnswerStep ==
  ASSUME Situation, TakeAnswer
  PROVE  Connection' /\ Progress' /\ Modes' /\ toClient = <<Answer(clSent)>>
<1>1. /\ cl = "wait" /\ toClient # <<>> /\ toClient' = Tail(toClient) /\ cl' = "idle"
      /\ toStub' = IF clAck /\ conn # "none" THEN Append(toStub, Other("ack")) ELSE toStub
      /\ clAck' = (clAck /\ clSent.cmd # "QStartNoAckMode")
      /\ UNCHANGED <<pc, m_ack, ring, conn, closed, clSent>>
  BY DEF TakeAnswer
<1>2. /\ toClient = <<Answer(clSent)>> /\ Handled /\ pc # "run" /\ conn # "waiting"
      /\ Packetless(Pending) /\ AtMost(Pending, clSent)
  BY <1>1 DEF Situation, Progress, Handled
<1>3. toClient' = <<>>
  BY <1>1, <1>2, ReplyQueues
<1>4. /\ Handled' /\ AtMost(Pending', clSent')
      /\ AcksFirst(Pending) => AcksFirst(Pending')
      /\ clAck /\ conn # "none" => Pending' # <<>>
      /\ ~(clAck /\ conn # "none") => Pending' = Pending
  <2>1. CASE clAck /\ conn # "none"
    <3>1. Pending' = Append(Pending, Other("ack")) /\ Pending \in Seq(Symbols)
      BY <1>1, <2>1, Kinds, SendsOne, PendingType DEF Situation, WirePart
    <3>2. Other("ack") \in Symbols /\ Other("ack").kind # "packet"
      BY Kinds
    <3> QED  BY <1>1, <1>2, <2>1, <3>1, <3>2, AppendOther DEF Handled
  <2>2. CASE ~(clAck /\ conn # "none")
    BY <1>1, <1>2, <2>2, SameStream
  <2> QED  BY <2>1, <2>2
<1>5. Connection'
  BY <1>1, <1>4 DEF Situation, Connection
<1>6. Progress'
  BY <1>1, <1>2, <1>3, <1>4 DEF Situation, Progress
<1>7. Modes'
  <2>1. pc \in {"ack", "last_ack"} => conn = "open"
    BY DEF Situation, Connection
  <2>2. ASSUME conn = "open"
        PROVE  m_ack = clAck' \/ (m_ack /\ pc = "last_ack")
    <3>1. CASE clAck /\ clSent.cmd = "QStartNoAckMode"
      BY <1>1, <1>2, <2>2, <3>1 DEF Situation, Modes
    <3>2. CASE ~(clAck /\ clSent.cmd = "QStartNoAckMode")
      <4>1. clAck' = clAck
        BY <1>1, <3>2 DEF Situation, ClientPart
      <4> QED  BY <1>1, <2>2, <4>1 DEF Situation, Modes
    <3> QED  BY <3>1, <3>2
  <2>3. ASSUME pc \in {"ack", "last_ack"}
        PROVE  m_ack /\ AcksFirst(Pending') /\ Pending' # <<>>
    BY <1>1, <1>4, <2>1, <2>3 DEF Situation, Modes
  <2>4. ~(pc = "last_ack" /\ clAck')
    BY <1>1 DEF Situation, Modes
  <2> QED  BY <1>1, <2>2, <2>3, <2>4 DEF Modes
<1> QED  BY <1>2, <1>5, <1>6, <1>7

LEMMA InterruptStep ==
  ASSUME Situation, Interrupt
  PROVE  Connection' /\ Progress' /\ Modes'
<1>1. /\ cl = "wait" /\ clSent.cmd = "c" /\ conn # "none"
      /\ toStub' = Append(toStub, Other("int"))
      /\ UNCHANGED <<pc, m_ack, ring, toClient, conn, closed, cl, clAck, clSent>>
  BY DEF Interrupt
<1>2. Pending' = Append(Pending, Other("int")) /\ Pending \in Seq(Symbols)
  BY <1>1, Kinds, SendsOne, PendingType DEF Situation, WirePart
<1>3. AtMost(Pending, clSent)
  BY DEF Situation, Progress
<1>4. /\ AtMost(Pending', clSent') /\ (Handled' <=> Handled)
      /\ AcksFirst(Pending) => AcksFirst(Pending')
      /\ Pending' # <<>>
  <2>1. Other("int") \in Symbols /\ Other("int").kind # "packet"
    BY Kinds
  <2> QED  BY <1>1, <1>2, <1>3, <2>1, AppendOther DEF Handled
<1>5. Connection'
  BY <1>1 DEF Situation, Connection
<1>6. Progress'
  BY <1>1, <1>4 DEF Situation, Progress
<1>7. Modes'
  BY <1>1, <1>4 DEF Situation, Modes
<1> QED  BY <1>5, <1>6, <1>7

LEMMA GoneStep ==
  ASSUME Situation, Gone
  PROVE  Connection' /\ Progress' /\ Modes'
<1>1. /\ cl' = "off" /\ closed' = TRUE
      /\ UNCHANGED <<pc, m_ack, ring, toStub, conn, clAck, clSent>>
  BY DEF Gone
<1>2. Pending' = Pending /\ Handled' = Handled
  BY <1>1, SameStream
<1>3. Connection'
  BY <1>1, <1>2 DEF Situation, Connection
<1>4. Progress'
  BY <1>1, <1>2 DEF Situation, Progress, AtMost
<1>5. Modes'
  BY <1>1, <1>2 DEF Situation, Modes, AcksFirst
<1> QED  BY <1>3, <1>4, <1>5

-----------------------------------------------------------------------------
(* The steps of the stub. *)

LEMMA NothingSent ==
  ASSUME WirePart
  PROVE  toClient \o <<>> = toClient /\ (toClient = <<>> => \A s \in Seq(Replies) : toClient \o s = s)
  BY ConcatEmptySeq DEF WirePart

LEMMA AcceptStep ==
  ASSUME Situation, Accept
  PROVE  Connection' /\ Progress' /\ Modes'
<1>1. /\ pc = "accept" /\ conn = "waiting"
      /\ conn' = "open" /\ pc' = "next" /\ m_ack' = TRUE /\ ring' = <<>>
      /\ UNCHANGED <<toStub, toClient, closed, cl, clAck, clSent>>
  BY DEF Accept, clientVars
<1>2. UNCHANGED ring
  BY <1>1 DEF Situation, Connection
<1>3. Pending' = Pending /\ Handled' = Handled
  BY <1>1, <1>2, SameStream
<1>4. Connection'
  BY <1>1 DEF Situation, Connection
<1>5. Progress'
  BY <1>1, <1>3, ReplyQueues DEF Situation, Progress, AtMost
<1>6. cl # "off" => clAck /\ cl # "wait" /\ (cl = "sent" => ~Handled)
  BY <1>1, ReplyQueues DEF Situation, Progress
<1>7. Modes'
  BY <1>1, <1>3, <1>6 DEF Situation, Modes
<1> QED  BY <1>4, <1>5, <1>7

LEMMA RecvStep ==
  ASSUME Situation, Recv \/ ChecksumWaits
  PROVE  Connection' /\ Progress' /\ Modes'
<1>1. /\ pc \in {"next", "checksum", "ack", "last_ack"}
      /\ \/ pc' = pc
         \/ pc = "next" /\ pc' = "checksum"
         \/ pc = "checksum" /\ pc' = "next"
      /\ UNCHANGED <<m_ack, toClient, conn, closed, cl, clAck, clSent>>
  BY DEF Recv, ChecksumWaits, Reads, wireVars, clientVars
<1>2. Pending' = Pending
  <2>1. CASE Recv
    BY <2>1, ReadsAhead DEF Recv, Situation, WirePart
  <2>2. CASE ChecksumWaits
    BY <2>2, SameStream DEF ChecksumWaits, wireVars
  <2> QED  BY <2>1, <2>2
<1>3. Handled' = Handled
  BY <1>2 DEF Handled, Packetless
<1>4. Connection'
  BY <1>1, <1>2 DEF Situation, Connection
<1>5. Progress'
  BY <1>1, <1>2, <1>3 DEF Situation, Progress, AtMost
<1>6. Modes'
  BY <1>1, <1>2, <1>3 DEF Situation, Modes, AcksFirst
<1> QED  BY <1>4, <1>5, <1>6

(* Dropping what is not a packet, at next or where write expects a '+'. *)
LEMMA DropStep ==
  ASSUME Situation, Skip \/ TakeAck
  PROVE  Connection' /\ Progress' /\ Modes'
<1>1. /\ ring # <<>> /\ ring' = Tail(ring) /\ pc' = "next"
      /\ \/ pc = "next" /\ Head(ring).kind # "packet" /\ m_ack' = m_ack
         \/ pc \in {"ack", "last_ack"} /\ m_ack' = (pc = "ack")
      /\ UNCHANGED <<toStub, toClient, conn, closed, cl, clAck, clSent>>
  BY DEF Skip, TakeAck, clientVars
<1>2. /\ Pending \in Seq(Symbols) /\ Pending # <<>> /\ Pending' = Tail(Pending)
      /\ Pending[1] = Head(ring)
  BY <1>1, TakesFirst, PendingType DEF Situation, WirePart
<1>3. Pending[1].kind # "packet"
  BY <1>1, <1>2 DEF Situation, Modes, AcksFirst
<1>4. AtMost(Pending', clSent') /\ (Handled' <=> Handled)
  BY <1>1, <1>2, <1>3, TailOfStream DEF Situation, Progress, Handled
<1>5. conn = "open"
  BY <1>1 DEF Situation, Connection
<1>6. Connection'
  BY <1>1, <1>5 DEF Situation, Connection
<1>7. Progress'
  BY <1>1, <1>4, <1>5 DEF Situation, Progress
<1>8. Modes'
  <2>1. CASE pc = "next"
    BY <1>1, <1>4, <1>5, <2>1 DEF Situation, Modes
  <2>2. CASE pc \in {"ack", "last_ack"}
    <3>1. m_ack /\ ~(pc = "last_ack" /\ cl # "off" /\ clAck)
      BY <1>2, <2>2 DEF Situation, Modes
    <3>2. cl # "off" => m_ack' = clAck
      BY <1>1, <1>5, <2>2, <3>1 DEF Situation, Modes, ClientPart, StubPart
    <3>3. ~(cl \in {"sent", "wait"} /\ clAck /\ Handled /\ clSent.cmd = "QStartNoAckMode")
      BY <1>5, <3>1 DEF Situation, Modes
    <3> QED  BY <1>1, <1>4, <1>5, <3>2, <3>3 DEF Modes
  <2> QED  BY <1>1, <2>1, <2>2
<1> QED  BY <1>6, <1>7, <1>8

LEMMA EndOfFileStep ==
  ASSUME Situation, EndOfFile
  PROVE  Connection' /\ Progress' /\ Modes'
<1>1. /\ pc \in {"next", "checksum", "ack", "last_ack"} /\ closed
      /\ \/ pc \in {"next", "checksum"} /\ conn' = "none" /\ pc' = "accept"
         \/ pc \notin {"next", "checksum"} /\ pc' = "next" /\ UNCHANGED conn
      /\ ring' = <<>> /\ toStub' = <<>>
      /\ UNCHANGED <<toClient, closed, cl, clAck, clSent>>
  BY DEF EndOfFile, Reads, Close, clientVars
<1>2. cl = "off" /\ conn = "open"
  BY <1>1 DEF Situation, Connection
<1>3. Pending' = <<>>
  BY <1>1, PendingType DEF Pending, Situation, WirePart
<1>4. Handled' /\ AtMost(Pending', clSent')
  BY <1>3, EmptyStream DEF Handled
<1>5. Connection'
  BY <1>1, <1>2, <1>3 DEF Connection
<1>6. Progress'
  BY <1>1, <1>2, <1>4 DEF Progress
<1>7. Modes'
  BY <1>1, <1>2 DEF Modes
<1> QED  BY <1>5, <1>6, <1>7

(* The end of a session, or of the process, in the middle of a packet. *)
LEMMA SessionEndStep ==
  ASSUME Situation, Refuse \/ Detach \/ PanicEscapes \/ PipeBreaks
  PROVE  /\ Connection' /\ Progress' /\ Modes'
         /\ cl # "off" => toClient' \in {<<>>, <<"-">>, <<"+">>}
<1>1. /\ pc' \in {"accept", "dead"} /\ conn' = "none" /\ ring' = <<>> /\ toStub' = <<>>
      /\ UNCHANGED <<m_ack, closed, cl, clAck, clSent>>
  BY DEF Refuse, Detach, PanicEscapes, PipeBreaks, Dies, Close, clientVars
<1>2. \/ closed
      \/ pc = "next" /\ ring # <<>> /\ Head(ring).kind = "packet"
  BY DEF Refuse, Detach, PanicEscapes, PipeBreaks
<1>3. /\ Refuse => Sent(IF m_ack THEN <<"-">> ELSE <<>>)
      /\ Detach => Sent(Plus)
      /\ ~Refuse /\ ~Detach => UNCHANGED toClient
  BY DEF Refuse, Detach, PanicEscapes, PipeBreaks, Dies
<1>4. Pending' = <<>>
  BY <1>1, PendingType DEF Pending, Situation, WirePart
<1>5. Handled' /\ AtMost(Pending', clSent')
  BY <1>4, EmptyStream DEF Handled
<1>6. Connection'
  BY <1>1, <1>4 DEF Situation, Connection
<1>7. ASSUME cl # "off"
      PROVE  /\ cl = "sent" => clAck /\ toClient' \in {<<>>, <<"-">>, <<"+">>}
             /\ cl = "wait" => toClient' = <<>>
             /\ cl # "idle"
  <2>1. ~closed /\ pc = "next" /\ ring # <<>> /\ Head(ring).kind = "packet" /\ conn = "open"
    BY <1>2, <1>7 DEF Situation, Connection
  <2>2. ~Handled
    <3>1. Pending \in Seq(Symbols) /\ Pending # <<>> /\ Pending[1].kind = "packet"
      BY <2>1, PendingType DEF Situation, WirePart
    <3> QED  BY <3>1, EmptySeq DEF Handled, Packetless
  <2>3. cl # "idle" /\ toClient = <<>> /\ (cl = "sent" => clAck) /\ (cl = "wait" => ~clAck)
        /\ m_ack = clAck
    BY <1>7, <2>1, <2>2 DEF Situation, Progress, Modes, ClientPart
  <2>4. /\ Refuse => toClient' = IF m_ack THEN <<"-">> ELSE <<>>
        /\ Detach => toClient' = IF m_ack THEN <<"+">> ELSE <<>>
        /\ ~Refuse /\ ~Detach => toClient' = <<>>
    <3>1. <<"-">> \in Seq(Replies) /\ <<"+">> \in Seq(Replies) /\ <<>> \in Seq(Replies)
      BY DEF Replies
    <3>2. \A s \in Seq(Replies) : toClient \o s = s
      BY <2>3, NothingSent DEF Situation
    <3> QED  BY <1>3, <2>1, <2>3, <3>1, <3>2 DEF Sent, Plus
  <2> QED  BY <2>3, <2>4
<1>8. Progress'
  BY <1>1, <1>5, <1>7 DEF Situation, Progress, ClientPart
<1>9. Modes'
  BY <1>1 DEF Modes
<1> QED  BY <1>6, <1>7, <1>8, <1>9 DEF Situation, ClientPart

(* A packet is the client's last command; what is sent for it is the first
   the client hears of it. *)
LEMMA ServeAnyStep ==
  ASSUME Situation, ServeAny
  PROVE  /\ Connection' /\ Progress' /\ Modes'
         /\ Head(ring) = clSent
         /\ ServePoint \/ (UNCHANGED points /\ clSent.cmd # "Z")
<1> DEFINE a == Answer(clSent)
<1>1. /\ pc = "next" /\ ring # <<>> /\ ring' = Tail(ring)
      /\ Head(ring) \in Packets
      /\ UNCHANGED <<toStub, conn, closed, cl, clAck, clSent, m_ack>>
      /\ ServePoint \/ (UNCHANGED points /\ Head(ring).cmd # "Z")
      /\ \/ /\ Sent(Plus \o <<Answer(Head(ring))>>)
            /\ IF Head(ring).cmd = "QStartNoAckMode" /\ m_ack
               THEN pc' = "last_ack" ELSE pc' = AfterWrite
            /\ Head(ring).cmd \notin {"c", "v", "D"}
         \/ /\ Head(ring).cmd = "v" /\ Sent(Plus) /\ pc' = "next"
         \/ /\ Head(ring).cmd = "c" /\ Sent(Plus) /\ pc' = "run"
  BY Serves DEF ServeAny, Situation, clientVars
<1>2. /\ Pending \in Seq(Symbols) /\ Pending # <<>> /\ Pending' = Tail(Pending)
      /\ Pending[1] = Head(ring) /\ Pending[1].kind = "packet"
  BY <1>1, TakesFirst, PendingType, Kinds DEF Situation, WirePart
<1>3. /\ Head(ring) = clSent /\ ~Handled /\ Handled'
      /\ AtMost(Pending', clSent') /\ AcksFirst(Pending')
      /\ clSent.cmd # "c" => Pending' = <<>>
  <2>1. AtMost(Pending, clSent)
    BY DEF Situation, Progress
  <2>2. /\ Head(ring) = clSent /\ ~Packetless(Pending) /\ Packetless(Pending')
        /\ AtMost(Pending', clSent) /\ (Pending' = <<>> \/ clSent.cmd = "c")
    BY <1>2, <2>1, TailOfStream
  <2>3. Pending' \in Seq(Symbols)
    BY <1>2, HeadTailProperties
  <2>4. AcksFirst(Pending')
    BY <2>2, <2>3, EmptySeq DEF AcksFirst, Packetless
  <2> QED  BY <1>1, <2>2, <2>4 DEF Handled
<1>4. conn = "open"
  BY <1>1 DEF Situation, Connection
<1>5. cl # "off" =>
        /\ ~closed /\ cl \in {"sent", "wait"} /\ toClient = <<>> /\ m_ack = clAck
        /\ clAck <=> cl = "sent"
  BY <1>1, <1>3, <1>4, ReplyQueues
  DEF Situation, Connection, Progress, Modes, ClientPart
<1>6. cl # "off" =>
        \/ /\ toClient' = IF cl = "sent" THEN <<"+", a>> ELSE <<a>>
           /\ pc' = IF cl = "wait" THEN "next"
                    ELSE IF clSent.cmd = "QStartNoAckMode" THEN "last_ack" ELSE "ack"
           /\ clSent.cmd # "c"
        \/ /\ toClient' = IF cl = "sent" THEN <<"+">> ELSE <<>>
           /\ \/ pc' = "next" /\ clSent.cmd = "v"
              \/ pc' = "run" /\ clSent.cmd = "c"
  <2> SUFFICES ASSUME cl # "off"
               PROVE  \/ /\ toClient' = IF cl = "sent" THEN <<"+", a>> ELSE <<a>>
                         /\ pc' = IF cl = "wait" THEN "next"
                                  ELSE IF clSent.cmd = "QStartNoAckMode" THEN "last_ack" ELSE "ack"
                         /\ clSent.cmd # "c"
                      \/ /\ toClient' = IF cl = "sent" THEN <<"+">> ELSE <<>>
                         /\ \/ pc' = "next" /\ clSent.cmd = "v"
                            \/ pc' = "run" /\ clSent.cmd = "c"
    OBVIOUS
  <2>1. ~closed /\ toClient = <<>> /\ m_ack = clAck /\ cl \in {"sent", "wait"}
        /\ (m_ack <=> cl = "sent")
    BY <1>5
  <2>2. a \in Replies
    BY AnswerType DEF Replies
  <2>3. Plus \in Seq(Replies) /\ Plus \o <<a>> \in Seq(Replies)
    BY <2>2, PlusType, PlusAnswer
  <2>4. \A s \in Seq(Replies) : toClient \o s = s
    BY <2>1, NothingSent DEF Situation
  <2>5. /\ Sent(Plus) => toClient' = IF cl = "sent" THEN <<"+">> ELSE <<>>
        /\ Sent(Plus \o <<a>>) => toClient' = IF cl = "sent" THEN <<"+", a>> ELSE <<a>>
    BY <2>1, <2>3, <2>4, PlusAnswer DEF Sent, Plus
  <2> HIDE DEF a
  <2> QED  BY <1>1, <1>3, <2>1, <2>5 DEF AfterWrite, a
<1>7. Answer(clSent)' = a /\ (clSent.cmd = "QStartNoAckMode" => a = "OK")
  BY <1>1 DEF Answer
<1> HIDE DEF a
<1>8. pc' \in {"next", "run", "ack", "last_ack"} /\ (pc' \in {"ack", "last_ack"} => m_ack)
      /\ (pc' = "run" => clSent.cmd = "c")
  BY <1>1, <1>3 DEF AfterWrite
<1>9. Connection'
  BY <1>1, <1>4, <1>8 DEF Situation, Connection
<1>10. Progress'
  <2>1. clAck' = clAck /\ clSent' = clSent /\ cl' = cl /\ conn' = conn
    BY <1>1
  <2> QED  BY <1>3, <1>4, <1>5, <1>6, <1>7, <1>8, <2>1 DEF Progress
<1>11. Modes'
  BY <1>1, <1>3, <1>4, <1>5, <1>6, <1>7, <1>8 DEF Modes, Situation, ClientPart
<1> QED  BY <1>1, <1>3, <1>9, <1>10, <1>11

(* The program runs, and stops or not. *)
LEMMA RunStep ==
  ASSUME Situation, Run \/ StopOnInterrupt
  PROVE  /\ Connection' /\ Progress' /\ Modes'
         /\ cl # "off" => clSent.cmd = "c"
<1> DEFINE a == Answer(clSent)
<1>1. /\ pc = "run"
      /\ UNCHANGED <<m_ack, ring, toStub, conn, closed, cl, clAck, clSent>>
      /\ \/ Sent(<<"S05">>) /\ pc' = AfterWrite
         \/ UNCHANGED <<pc, toClient>>
  BY DEF Run, StopOnInterrupt, Stops, clientVars
<1>2. Pending' = Pending /\ Handled' = Handled
  BY <1>1, SameStream
<1>3. conn = "open" /\ Handled /\ AtMost(Pending, clSent)
  BY <1>1 DEF Situation, Connection, Progress
<1>4. cl # "off" => /\ clSent.cmd = "c" /\ a = "S05" /\ m_ack = clAck /\ ~closed
                    /\ cl \in {"sent", "wait"} /\ (cl = "sent" => clAck)
                    /\ toClient = IF cl = "sent" THEN <<"+">> ELSE <<>>
  BY <1>1, <1>3 DEF Situation, Connection, Progress, Modes, ClientPart, Answer
<1>5. Answer(clSent)' = a
  BY <1>1 DEF Answer
<1>6. CASE UNCHANGED <<pc, toClient>>
  <2>1. Connection'
    BY <1>1, <1>2, <1>6 DEF Situation, Connection
  <2>2. Progress'
    BY <1>1, <1>2, <1>5, <1>6 DEF Situation, Progress, AtMost
  <2>3. Modes'
    BY <1>1, <1>2, <1>6 DEF Situation, Modes, AcksFirst
  <2> QED  BY <1>4, <2>1, <2>2, <2>3
<1>7. CASE Sent(<<"S05">>) /\ pc' = AfterWrite
  <2>1. cl # "off" => toClient' = IF cl = "sent" THEN <<"+", a>> ELSE <<a>>
    <3>1. <<"+">> \o <<"S05">> = <<"+", "S05">> /\ <<>> \o <<"S05">> = <<"S05">>
      BY TwoReplies
    <3> QED  BY <1>4, <1>7, <3>1 DEF Sent
  <2> HIDE DEF a
  <2>2. pc' = IF m_ack THEN "ack" ELSE "next"
    BY <1>7 DEF AfterWrite
  <2>3. AcksFirst(Pending)
    BY <1>3, PendingType, EmptySeq DEF Handled, Packetless, AcksFirst, Situation, WirePart
  <2>4. Connection'
    BY <1>1, <1>3, <2>2 DEF Situation, Connection
  <2>5. Progress'
    BY <1>1, <1>2, <1>3, <1>4, <1>5, <2>1, <2>2 DEF Progress, AtMost
  <2>6. Modes'
    BY <1>1, <1>2, <1>3, <1>4, <2>2, <2>3 DEF Modes, AcksFirst
  <2> QED  BY <1>4, <2>4, <2>5, <2>6
<1> QED  BY <1>1, <1>6, <1>7

-----------------------------------------------------------------------------
(* The invariant, and what it is for. *)

LEMMA SituationStep ==
  ASSUME Situation, [StubNext]_vars
  PROVE  Connection' /\ Progress' /\ Modes'
<1>1. CASE UNCHANGED vars
  <2>1. UNCHANGED <<pc, m_ack, ring, toStub, toClient, conn, closed, cl, clAck, clSent>>
    BY <1>1 DEF vars, wireVars, clientVars
  <2>2. Pending' = Pending /\ Handled' = Handled
    BY <2>1, SameStream
  <2>3. Connection'
    BY <2>1, <2>2 DEF Situation, Connection
  <2>4. Progress'
    BY <2>1, <2>2 DEF Situation, Progress, AtMost, Answer
  <2>5. Modes'
    BY <2>1, <2>2 DEF Situation, Modes, AcksFirst
  <2> QED  BY <2>3, <2>4, <2>5
<1>2. CASE Leave \/ NoticeEnd
  BY <1>2, GoneStep DEF Leave, NoticeEnd
<1>3. CASE StubStep
  <2>1. \/ Accept \/ ChecksumWaits \/ Recv \/ EndOfFile \/ Skip \/ TakeAck \/ ServeAny
        \/ Run \/ StopOnInterrupt \/ Refuse \/ Detach \/ PanicEscapes \/ PipeBreaks
    BY <1>3 DEF StubStep, Stub, ServeAny
  <2> QED
    BY <2>1, AcceptStep, RecvStep, EndOfFileStep, DropStep, ServeAnyStep, RunStep, SessionEndStep
<1> QED
  BY <1>1, <1>2, <1>3, StubSteps, ConnectStep, SendCommandStep, TakePlusStep, SendAgainStep,
     TakeAnswerStep, InterruptStep

LEMMA PointsStep ==
  ASSUME Situation, PointsHeld, [StubNext]_vars
  PROVE  PointsHeld'
<1> DEFINE a == Answer(clSent)
           Answered == toClient \in {<<"+", a>>, <<a>>}
           SetsPoint == clSent.cmd = "Z" /\ clSent.type = "0"
<1>1. /\ h_breaks \ {0} \subseteq m_breakpts
      /\ cl \in {"sent", "wait"} /\ SetsPoint /\ Answered => clSent.addr \in m_breakpts
  BY DEF PointsHeld, BreaksHeld
<1>2. a \in {"S05", "data", "empty", "OK"}
  BY AnswerType
<1>3. \A r \in {<<>>, <<"+">>, <<"-">>} : r \notin {<<"+", a>>, <<a>>}
  <2>1. Len(<<"+", a>>) = 2 /\ Len(<<a>>) = 1 /\ <<a>>[1] = a /\ <<"+">>[1] = "+"
        /\ <<"-">>[1] = "-" /\ Len(<<"+">>) = 1 /\ Len(<<"-">>) = 1 /\ Len(<<>>) = 0
    OBVIOUS
  <2> HIDE DEF a
  <2> QED  BY <1>2, <2>1
<1>4. ASSUME UNCHANGED <<m_breakpts, clSent>>, h_breaks' \subseteq h_breaks,
             \/ cl' \notin {"sent", "wait"}
             \/ toClient' \in {<<>>, <<"+">>, <<"-">>}
             \/ clSent.cmd # "Z"
             \/ cl \in {"sent", "wait"} /\ Answered
      PROVE  PointsHeld'
  <2>1. Answer(clSent)' = a
    BY <1>4 DEF Answer
  <2>2. cl' \in {"sent", "wait"} /\ SetsPoint /\ toClient' \in {<<"+", a>>, <<a>>}
          => clSent.addr \in m_breakpts
    BY <1>1, <1>3, <1>4
  <2> HIDE DEF a
  <2> QED  BY <1>1, <1>4, <2>1, <2>2 DEF PointsHeld, BreaksHeld
<1>5. CASE UNCHANGED vars
  <2>1. UNCHANGED <<m_breakpts, clSent, h_breaks, cl, toClient>>
    BY <1>5 DEF vars, points, wireVars, clientVars
  <2> QED  BY <1>1, <1>4, <2>1 DEF PointsHeld, BreaksHeld, Answer
<1>6. CASE Connect \/ Leave \/ NoticeEnd
  BY <1>4, <1>6 DEF Connect, Leave, NoticeEnd, Gone, points
<1>7. CASE SendCommand
  <2>1. toClient' = <<>> /\ UNCHANGED m_breakpts /\ h_breaks' \subseteq h_breaks
    BY <1>7 DEF SendCommand, Situation, Progress, points
  <2>2. toClient' \notin {<<"+", Answer(clSent)'>>, <<Answer(clSent)'>>}
    BY <2>1, ReplyQueues
  <2> QED  BY <1>1, <2>1, <2>2 DEF PointsHeld, BreaksHeld
<1>8. CASE TakePlus
  <2>1. /\ cl = "sent" /\ toClient # <<>> /\ Head(toClient) = "+" /\ toClient' = Tail(toClient)
        /\ UNCHANGED <<m_breakpts, clSent, h_breaks>>
    BY <1>8 DEF TakePlus, points
  <2>2. toClient \in {<<"+">>, <<"+", a>>}
    BY <2>1, ReplyQueues DEF Situation, Progress
  <2>3. toClient = <<"+">> => toClient' = <<>>
    BY <2>1, ReplyQueues
  <2> QED  BY <1>4, <2>1, <2>2, <2>3
<1>9. CASE SendAgain
  <2>1. toClient' = <<>> /\ UNCHANGED <<m_breakpts, h_breaks>>
    BY <1>9, SendAgainStep DEF SendAgain, points
  <2>2. toClient' \notin {<<"+", Answer(clSent)'>>, <<Answer(clSent)'>>}
    BY <2>1, ReplyQueues
  <2> QED  BY <1>1, <2>1, <2>2 DEF PointsHeld, BreaksHeld
<1>10. CASE TakeAnswer
  <2>1. /\ cl = "wait" /\ cl' = "idle" /\ Answered
        /\ UNCHANGED <<m_breakpts, clSent>>
        /\ h_breaks' = IF SetsPoint THEN h_breaks \cup {clSent.addr} ELSE h_breaks
    BY <1>10, TakeAnswerStep DEF TakeAnswer, points
  <2> QED  BY <1>1, <2>1 DEF PointsHeld, BreaksHeld
<1>11. CASE Interrupt
  BY <1>4, <1>11 DEF Interrupt, points
<1>12. CASE ServeAny
  <2>1. Head(ring) = clSent /\ (ServePoint \/ (UNCHANGED points /\ clSent.cmd # "Z"))
    BY <1>12, ServeAnyStep
  <2>2. UNCHANGED clientVars
    BY <1>12, Serves DEF ServeAny, Situation
  <2>3. CASE ServePoint
    <3>1. m_breakpts' = IF clSent.type # "0" THEN m_breakpts
                        ELSE IF clSent.cmd = "Z" THEN m_breakpts \cup {clSent.addr}
                        ELSE m_breakpts \ {0}
      BY <2>1, <2>3 DEF ServePoint, SetPoints
    <3> QED  BY <1>1, <2>2, <3>1 DEF PointsHeld, BreaksHeld, clientVars
  <2>4. CASE UNCHANGED points /\ clSent.cmd # "Z"
    BY <1>4, <2>2, <2>4 DEF points, clientVars
  <2> QED  BY <2>1, <2>3, <2>4
<1>13. CASE Run \/ StopOnInterrupt
  <2>1. (cl # "off" => clSent.cmd = "c") /\ UNCHANGED <<m_breakpts, clSent, h_breaks, cl>>
    BY <1>13, RunStep DEF Run, StopOnInterrupt, points, clientVars
  <2> QED  BY <1>4, <2>1
<1>14. CASE Refuse \/ Detach \/ PanicEscapes \/ PipeBreaks
  <2>1. /\ UNCHANGED <<m_breakpts, clSent, h_breaks, cl>>
        /\ cl # "off" => toClient' \in {<<>>, <<"-">>, <<"+">>}
    BY <1>14, SessionEndStep DEF Refuse, Detach, PanicEscapes, PipeBreaks, Dies, points, clientVars
  <2> QED  BY <1>4, <2>1
<1>15. CASE Accept \/ ChecksumWaits \/ Recv \/ EndOfFile \/ Skip \/ TakeAck
  <2>1. UNCHANGED <<m_breakpts, clSent, h_breaks, cl, toClient>>
    BY <1>15 DEF Accept, ChecksumWaits, Recv, EndOfFile, Skip, TakeAck, points, wireVars,
                 clientVars
  <2> QED  BY <1>1, <2>1 DEF PointsHeld, BreaksHeld, Answer
<1> QED
  BY <1>5, <1>6, <1>7, <1>8, <1>9, <1>10, <1>11, <1>12, <1>13, <1>14, <1>15, StubSteps
  DEF StubStep, Stub, ServeAny

LEMMA StubInvariant == StubSpec => [](StubTypeOK /\ StubInv)
<1>1. StubInit => StubInv
  <2> SUFFICES ASSUME StubInit PROVE StubInv
    OBVIOUS
  <2>1. Pending = <<>>
    <3>1. <<>> \o <<>> = <<>>
      BY EmptySeq, ConcatEmptySeq
    <3> QED  BY <3>1 DEF StubInit, Pending
  <2>2. Handled /\ AtMost(Pending, clSent)
    BY <2>1, EmptyStream DEF Handled
  <2> QED
    BY <2>1, <2>2 DEF StubInit, StubInv, Connection, Progress, Modes, PointsHeld, BreaksHeld
<1>2. StubTypeOK /\ StubInv /\ [StubNext]_vars => StubInv'
  BY TypeParts, SituationStep, PointsStep DEF StubInv, Situation
<1> QED  BY <1>1, <1>2, StubTypeCorrect, PTL DEF StubSpec

(* For every set of addresses, and however often cont polls: each answer the
   client takes is the one to its last command. *)
THEOREM OneAnswerEach == StubSpec => []AnswersFit
<1>1. StubTypeOK /\ StubInv => AnswersFit
  <2> SUFFICES ASSUME StubInv PROVE AnswersFit
    OBVIOUS
  <2>1. cl = "sent" /\ toClient # <<>> => Head(toClient) \in {"+", "-"}
    <3>1. Head(<<"+">>) = "+"
      OBVIOUS
    <3> QED  BY <3>1, ReplyQueues DEF StubInv, Progress
  <2> QED  BY <2>1 DEF StubInv, Progress, AnswersFit
<1> QED  BY <1>1, StubInvariant, PTL

(* Where write expects an acknowledgement there is never a command, in any
   order of interrupts, acknowledgements and the switch to doing without. *)
THEOREM NoCommandLost == StubSpec => []AcksAreAcks
<1>1. StubTypeOK /\ StubInv => AcksAreAcks
  BY TypeParts, PendingType DEF StubInv, Modes, AcksFirst, AcksAreAcks, WirePart
<1> QED  BY <1>1, StubInvariant, PTL

(* A breakpoint set in any session and not removed since is in the debug core's
   set (but one at address 0), for every set of addresses with 0 in it. *)
THEOREM BreakpointsHeld == StubSpec => []BreaksHeld
<1>1. StubInv => BreaksHeld
  BY DEF StubInv, PointsHeld
<1> QED  BY <1>1, StubInvariant, PTL
=============================================================================
