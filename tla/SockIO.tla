-------------------------------- MODULE SockIO --------------------------------
(***************************************************************************)
(* The connection of the GDB stub (src/src/gdb/SockIO.cpp): a ring of      *)
(* BufSz characters between a blocking socket and the calls read and       *)
(* read_to.  The stub's thread is at one point of one call (pc); between   *)
(* two of its steps the peer may send or close.  recv may return any part  *)
(* of what has arrived.  A recv or send that SIGINT interrupts is repeated *)
(* and changes nothing.                                                    *)
(***************************************************************************)
EXTENDS Integers, Sequences

CONSTANTS BufSz,        \* BUFSZ, 4096 in the code
          Chars, Delim, \* the characters, and the one read_to looks for
          Sizes,        \* buf.size() of the calls
          MaxSock       \* bound: characters that wait in the socket

ASSUME SockAssumption ==
  /\ BufSz \in Nat /\ BufSz > 1
  /\ Delim \in Chars
  /\ Sizes \subseteq Nat \ {0}
  /\ MaxSock \in Nat

VARIABLES m_buf, m_head, m_tail,
          sock, closed,         \* the socket: what has arrived; the peer's end
          pc, op, size, out,    \* the call; out is what it has put into buf
          wrote,                \* write: characters that are out
          fill,                 \* buf_fill: cnt, rem, total_read
          base                  \* base_read: cnt, rem, total_read

ringVars == <<m_buf, m_head, m_tail>>
sockVars == <<sock, closed>>
callVars == <<op, size, out, wrote>>
vars == <<ringVars, sockVars, callVars, pc, fill, base>>

Slots == 0 .. BufSz - 1
Ring == [Slots -> Chars]
Frame(cnt, rem) == [cnt |-> cnt, rem |-> rem, total |-> 0]
NoFrame == Frame(0, 0)
Frames == [cnt : Nat, rem : Nat, total : Nat]

Min2(x, y) == IF x < y THEN x ELSE y

SockTypeOK ==
  /\ m_buf \in Ring /\ m_head \in Slots /\ m_tail \in Slots
  /\ sock \in Seq(Chars) /\ closed \in BOOLEAN
  /\ pc \in {"idle", "read", "read_to", "fill", "recv", "filled", "write", "return"}
  /\ op \in {"none", "read", "read_to", "write"}
  /\ size \in Nat /\ out \in Seq(Chars) /\ wrote \in Nat
  /\ fill \in Frames /\ base \in Frames

SockInit ==
  /\ m_buf = [i \in Slots |-> Delim] /\ m_head = 0 /\ m_tail = 0
  /\ sock = <<>> /\ closed = FALSE
  /\ pc = "idle" /\ op = "none" /\ size = 0 /\ out = <<>> /\ wrote = 0
  /\ fill = NoFrame /\ base = NoFrame

Wrap(i) == IF i >= BufSz THEN i - BufSz ELSE i

BufRem == IF m_tail >= m_head THEN m_tail - m_head ELSE BufSz - m_head + m_tail

(* The first n characters of the ring. *)
First(n) == [i \in 1 .. n |-> m_buf[Wrap(m_head + i - 1)]]

(* buf_count_to: how many there are up to Delim; empty if there is none. *)
IsDelim(i) == First(BufRem)[i] = Delim
CountTo == {n \in 1 .. BufRem : IsDelim(n) /\ \A i \in 1 .. n - 1 : ~IsDelim(i)}

-----------------------------------------------------------------------------
(* The peer. *)

PeerSends ==
  /\ ~closed /\ Len(sock) < MaxSock
  /\ \E c \in Chars : sock' = Append(sock, c)
  /\ UNCHANGED <<ringVars, closed, callVars, pc, fill, base>>

PeerCloses ==
  /\ ~closed /\ closed' = TRUE
  /\ UNCHANGED <<ringVars, sock, callVars, pc, fill, base>>

-----------------------------------------------------------------------------
(* The calls. *)

Call ==
  /\ pc = "idle"
  /\ op' \in {"read", "read_to", "write"} /\ size' \in Sizes
  /\ pc' = op' /\ out' = <<>> /\ wrote' = 0
  /\ UNCHANGED <<ringVars, sockVars, fill, base>>

Return ==
  /\ pc = "return"
  /\ pc' = "idle" /\ op' = "none"
  /\ UNCHANGED <<ringVars, sockVars, size, out, wrote, fill, base>>

(* buf_pop, into the caller's buffer. *)
Pop_Mut(n) ==                            \* Mutant: the head starts over at 0
  /\ out' = out \o First(n)
  /\ m_head' = IF m_head + n >= BufSz THEN 0 ELSE m_head + n
  /\ UNCHANGED <<m_buf, m_tail>>
Pop(n) ==
  /\ out' = out \o First(n)
  /\ m_head' = Wrap(m_head + n)
  /\ UNCHANGED <<m_buf, m_tail>>

(* The head of buf_fill, called when the ring holds have characters. *)
EnterFill(cnt, have) ==
  IF have >= cnt THEN pc' = "filled" /\ fill' = NoFrame
                 ELSE pc' = "fill" /\ fill' = Frame(cnt, cnt - have)

ToPop == Min2(BufSz - 1, size - Len(out))

Read ==
  /\ pc = "read"
  /\ IF Len(out) = size THEN pc' = "return" /\ UNCHANGED fill
                        ELSE EnterFill(ToPop, BufRem)
  /\ UNCHANGED <<ringVars, sockVars, callVars, base>>

ReadFilled ==
  /\ pc = "filled" /\ op = "read"
  /\ Pop(ToPop) /\ pc' = "read"
  /\ UNCHANGED <<sockVars, op, size, wrote, fill, base>>

(* One turn of the loop of read_to.  Its call of read asks for what the ring
   holds, so that it never waits; without the character in the ring it waits
   for one more, also if the buffer is full by now. *)
ReadTo_Mut ==                            \* Mutant: waits for two more
  /\ pc = "read_to"
  /\ \/ /\ Len(out) >= size
        /\ pc' = "return" /\ UNCHANGED <<ringVars, out, fill>>
     \/ /\ Len(out) < size
        /\ \E n \in CountTo : Pop(Min2(n, size - Len(out)))
        /\ pc' = "return" /\ UNCHANGED fill
     \/ /\ Len(out) < size
        /\ \A i \in 1 .. BufRem : ~IsDelim(i)
        /\ LET n == Min2(BufRem, size - Len(out))
           IN Pop(n) /\ EnterFill(2, BufRem - n)
  /\ UNCHANGED <<sockVars, op, size, wrote, base>>
ReadTo ==
  /\ pc = "read_to"
  /\ \/ /\ Len(out) >= size
        /\ pc' = "return" /\ UNCHANGED <<ringVars, out, fill>>
     \/ /\ Len(out) < size
        /\ \E n \in CountTo : Pop(Min2(n, size - Len(out)))
        /\ pc' = "return" /\ UNCHANGED fill
     \/ /\ Len(out) < size
        /\ \A i \in 1 .. BufRem : ~IsDelim(i)
        /\ LET n == Min2(BufRem, size - Len(out))
           IN Pop(n) /\ EnterFill(1, BufRem - n)
  /\ UNCHANGED <<sockVars, op, size, wrote, base>>

ReadToFilled ==
  /\ pc = "filled" /\ op = "read_to"
  /\ pc' = "read_to"
  /\ UNCHANGED <<ringVars, sockVars, callVars, fill, base>>

(* A call that fails leaves what it has read in buf. *)
Fails ==
  /\ pc' = "idle" /\ op' = "none"
  /\ fill' = NoFrame /\ base' = NoFrame
  /\ UNCHANGED <<ringVars, sockVars, size, out, wrote>>

(* write: the kernel takes any part of the rest, or fails. *)
Write ==
  /\ pc = "write"
  /\ \/ /\ wrote = size
        /\ pc' = "return"
        /\ UNCHANGED <<ringVars, sockVars, callVars, fill, base>>
     \/ /\ wrote < size
        /\ \E k \in 1 .. size - wrote : wrote' = wrote + k
        /\ UNCHANGED <<ringVars, sockVars, op, size, out, pc, fill, base>>
     \/ wrote < size /\ closed /\ Fails

-----------------------------------------------------------------------------
(* buf_fill and base_read. *)

(* The segment behind the tail.  One slot stays free, for a full ring would
   look empty; it is the last one if the head is at 0. *)
Segment_Mut ==                           \* Mutant: fills the last slot, too
  IF m_tail >= m_head THEN BufSz - m_tail ELSE m_head - m_tail - 1
Segment ==
  IF m_tail >= m_head THEN BufSz - m_tail - (IF m_head = 0 THEN 1 ELSE 0)
                      ELSE m_head - m_tail - 1

(* What this turn asks for: rem is what was missing when buf_fill began. *)
Asked ==
  Min2(IF m_tail >= m_head THEN BufSz - m_tail ELSE m_head - m_tail - 1, fill.rem)

Fill ==
  /\ pc = "fill"
  /\ IF fill.total >= fill.rem
     THEN pc' = "filled" /\ fill' = NoFrame /\ UNCHANGED base
     ELSE pc' = "recv" /\ base' = Frame(Asked, Segment) /\ UNCHANGED fill
  /\ UNCHANGED <<ringVars, sockVars, callVars>>

Recv ==
  /\ pc = "recv" /\ base.total < base.cnt
  /\ \E k \in 1 .. Min2(base.rem, Len(sock)) :
       /\ m_buf' = [i \in Slots |->
            IF i - m_tail - base.total \in 0 .. k - 1
            THEN sock[i - m_tail - base.total + 1] ELSE m_buf[i]]
       /\ sock' = SubSeq(sock, k + 1, Len(sock))
       /\ base' = [base EXCEPT !.rem = @ - k, !.total = @ + k]
  /\ UNCHANGED <<m_head, m_tail, closed, callVars, pc, fill>>

(* recv returns 0: the peer has closed, or there was no room in the segment. *)
RecvNothing ==
  /\ pc = "recv" /\ base.total < base.cnt
  /\ (closed /\ sock = <<>>) \/ base.rem = 0
  /\ Fails

Received_Mut ==                          \* Mutant: the tail stays behind the ring
  /\ pc = "recv" /\ base.total >= base.cnt
  /\ m_tail' = m_tail + base.total
  /\ fill' = [fill EXCEPT !.total = @ + base.total]
  /\ pc' = "fill" /\ base' = NoFrame
  /\ UNCHANGED <<m_buf, m_head, sockVars, callVars>>
Received ==
  /\ pc = "recv" /\ base.total >= base.cnt
  /\ m_tail' = Wrap(m_tail + base.total)
  /\ fill' = [fill EXCEPT !.total = @ + base.total]
  /\ pc' = "fill" /\ base' = NoFrame
  /\ UNCHANGED <<m_buf, m_head, sockVars, callVars>>

Works == Return \/ Read \/ ReadFilled \/ ReadTo \/ ReadToFilled \/ Write
           \/ Fill \/ Recv \/ RecvNothing \/ Received

SockNext == PeerSends \/ PeerCloses \/ Call \/ Works

SockSpec == SockInit /\ [][SockNext]_vars

(* The stub's thread runs; the peer and the caller owe nothing. *)
FairSockSpec == SockSpec /\ WF_vars(Works)

-----------------------------------------------------------------------------
(* Properties. *)

(* The characters recv has put behind the tail belong to the ring already. *)
Held == BufRem + base.total

Promise == INSTANCE CharStream WITH stream <- First(Held) \o sock

(* Seen by the callers, the ring, its two segments and the partial reads are
   a stream of characters: nothing is lost, doubled or reordered when the
   ring wraps, a call gets what it asked for, and no connection is taken for
   closed because recv was given a segment without room. *)
ImplementsStream == Promise!CsSpec

(* recv is never given room that holds unread characters, nor the last free
   slot, nor no room at all. *)
SegmentIsFree ==
  pc = "recv" =>
    /\ Held + base.rem <= BufSz - 1
    /\ base.total < base.cnt => base.rem > 0

(* read_to returns if the character it looks for has arrived within the
   room of the caller's buffer, although the peer may send no more: it does
   not wait for characters behind a packet. *)
Present == First(Held) \o sock
DelimiterArrived == \E i \in 1 .. Len(Present) :
                       Present[i] = Delim /\ Len(out) + i <= size
DelimiterIsFound == (op = "read_to" /\ DelimiterArrived) ~> op = "none"

(* The claim of the comments of buf_fill ("reads such that buffer has at least
   cnt chars") and base_read ("we can exit once we have at least cnt"), as the
   caller sees it: read returns once all it asks for has arrived. *)
AllArrived == Len(out) + Len(Present) >= size
ReadIsServed == (op = "read" /\ AllArrived) ~> op = "none"
=============================================================================
