------------------------------- MODULE GDBStub -------------------------------
(***************************************************************************)
(* The GDB stub: the remote protocol (gdb/GDBServer.cpp, PSXServer.cpp)    *)
(* over the connection of SockIO.tla, and the run of the program under     *)
(* breakpoints and watchpoints (BasicDebug.cpp).  A symbol of the stream   *)
(* is a whole packet, an acknowledgement or the interrupt character.  What *)
(* recv has read ahead waits in ring and not in the socket.  Of the pieces *)
(* in which the code reads a packet only the checksum is a point of its    *)
(* own: it may wait for what stands behind the packet (ChecksumWaits).     *)
(* The client acts as gdb does; it is external.                            *)
(***************************************************************************)
EXTENDS Integers, Sequences

CONSTANTS Addrs,          \* addresses of the program
          PollEvery       \* 2^22: steps of cont between two looks for an interrupt

ASSUME StubAssumption ==
  /\ Addrs \subseteq Nat /\ 0 \in Addrs
  /\ PollEvery \in Nat \ {0}

VARIABLES pc, m_ack, cnt,                         \* the stub
          ring, toStub, toClient, conn, closed,   \* the connection
          m_breakpts, m_read_watchpts, m_write_watchpts,
          cl, clAck, clSent, clInt,               \* the client; its last packet
          h_breaks                                \* breakpoints set, none of them removed

points == <<m_breakpts, m_read_watchpts, m_write_watchpts>>
wireVars == <<ring, toStub, toClient, conn, closed>>
clientVars == <<cl, clAck, clSent, clInt, h_breaks>>
vars == <<pc, m_ack, cnt, wireVars, points, clientVars>>

None == -1
Types == {"0", "1", "2", "3", "4"}
Packet(cmd, type, addr, good) ==
  [kind |-> "packet", cmd |-> cmd, type |-> type, addr |-> addr, good |-> good]
Other(kind) ==
  [kind |-> kind, cmd |-> "none", type |-> "0", addr |-> 0, good |-> TRUE]

(* q stands for all that are only answered, v for those that get no answer:
   unknown ones of v and Q. *)
Plain == {"c", "s", "m", "q", "v", "QStartNoAckMode", "D"}
Commands == {Packet(c, "0", 0, TRUE) : c \in Plain}
              \cup {Packet(c, t, a, TRUE) : c \in {"Z", "z"}, t \in Types, a \in Addrs}
Packets == Commands \cup {[p EXCEPT !.good = FALSE] : p \in Commands}
Symbols == Packets \cup {Other("ack"), Other("int")}

Answer(p) ==
  CASE p.cmd \in {"c", "s"} -> "S05"
    [] p.cmd \in {"m", "q"} -> "data"
    [] p.cmd \in {"Z", "z"} /\ p.type = "1" -> "empty"
    [] OTHER -> "OK"

StubTypeOK ==
  /\ pc \in {"accept", "next", "checksum", "run", "ack", "last_ack", "dead"} /\ m_ack \in BOOLEAN
  /\ cnt \in 0 .. PollEvery - 1
  /\ ring \in Seq(Symbols) /\ toStub \in Seq(Symbols)
  /\ toClient \in Seq({"+", "-", "S05", "data", "empty", "OK"})
  /\ conn \in {"none", "waiting", "open"} /\ closed \in BOOLEAN
  /\ {m_breakpts, m_read_watchpts, m_write_watchpts} \subseteq SUBSET Addrs
  /\ cl \in {"off", "idle", "sent", "wait"} /\ clAck \in BOOLEAN
  /\ clSent \in Packets /\ clInt \in BOOLEAN /\ h_breaks \subseteq Addrs

StubInit ==
  /\ pc = "accept" /\ m_ack = TRUE /\ cnt = 0
  /\ ring = <<>> /\ toStub = <<>> /\ toClient = <<>> /\ conn = "none" /\ closed = FALSE
  /\ m_breakpts = {} /\ m_read_watchpts = {} /\ m_write_watchpts = {}
  /\ cl = "off" /\ clAck = TRUE /\ clSent = Packet("q", "0", 0, TRUE)
  /\ clInt = FALSE /\ h_breaks = {}

-----------------------------------------------------------------------------
(* The client: one command at a time, acknowledgements until both sides have
   agreed to do without, at most one interrupt while the program runs. *)

(* A client that connects during a session waits in the backlog of listen.  To
   the stub it is one that connects when the session is over, and so it is here:
   that it may wait for ever, behind a run nobody stops, is not represented. *)
Connect ==
  /\ cl = "off" /\ conn = "none" /\ pc # "dead"
  /\ conn' = "waiting" /\ closed' = FALSE /\ toClient' = <<>>
  /\ cl' = "idle" /\ clAck' = TRUE
  /\ UNCHANGED <<pc, m_ack, cnt, ring, toStub, points, clSent, clInt, h_breaks>>

Send(p) ==
  /\ toStub' = Append(toStub, p) /\ clSent' = p
  /\ cl' = IF clAck THEN "sent" ELSE "wait"

SendCommand ==
  /\ cl = "idle" /\ conn # "none"
  /\ \E p \in Packets :
       /\ Send(p)
       /\ h_breaks' = IF p.cmd = "z" /\ p.type = "0" THEN h_breaks \ {p.addr} ELSE h_breaks
  /\ UNCHANGED <<pc, m_ack, cnt, ring, toClient, conn, closed, points, clAck, clInt>>

TakePlus ==
  /\ cl = "sent" /\ toClient # <<>> /\ Head(toClient) = "+"
  /\ toClient' = Tail(toClient) /\ cl' = "wait"
  /\ UNCHANGED <<pc, m_ack, cnt, ring, toStub, conn, closed, points,
                 clAck, clSent, clInt, h_breaks>>

SendAgain ==
  /\ cl = "sent" /\ toClient # <<>> /\ Head(toClient) = "-"
  /\ toClient' = Tail(toClient)
  /\ IF conn = "none" THEN UNCHANGED <<toStub, clSent, cl>>
                      ELSE Send([clSent EXCEPT !.good = TRUE])
  /\ UNCHANGED <<pc, m_ack, cnt, ring, conn, closed, points, clAck, clInt, h_breaks>>

TakeAnswer ==
  /\ cl = "wait" /\ toClient # <<>>
  /\ toClient' = Tail(toClient) /\ cl' = "idle" /\ clInt' = FALSE
  /\ toStub' = IF clAck /\ conn # "none" THEN Append(toStub, Other("ack")) ELSE toStub
  /\ clAck' = (clAck /\ clSent.cmd # "QStartNoAckMode")
  /\ h_breaks' = IF clSent.cmd = "Z" /\ clSent.type = "0"
                 THEN h_breaks \cup {clSent.addr} ELSE h_breaks
  /\ UNCHANGED <<pc, m_ack, cnt, ring, conn, closed, points, clSent>>

Interrupt ==
  /\ cl = "wait" /\ clSent.cmd = "c" /\ ~clInt /\ conn # "none"
  /\ toStub' = Append(toStub, Other("int")) /\ clInt' = TRUE
  /\ UNCHANGED <<pc, m_ack, cnt, ring, toClient, conn, closed, points,
                 cl, clAck, clSent, h_breaks>>

Gone ==
  /\ cl' = "off" /\ closed' = TRUE /\ toClient' = <<>>
  /\ clInt' = FALSE
  /\ UNCHANGED <<pc, m_ack, cnt, ring, toStub, conn, points, clAck, clSent, h_breaks>>

(* The client leaves, or finds that the stub has. *)
Leave ==
  /\ cl # "off" /\ conn # "none"
  /\ Gone
NoticeEnd ==
  /\ cl # "off" /\ conn = "none" /\ toClient = <<>>
  /\ Gone
-----------------------------------------------------------------------------
(* The stub. *)

Accept_Mut ==                            \* Mutant: one handler for all connections
  /\ pc = "accept" /\ conn = "waiting"
  /\ conn' = "open" /\ pc' = "next" /\ ring' = <<>>
  /\ UNCHANGED <<m_ack, cnt, toStub, toClient, closed, points, clientVars>>
Accept ==
  /\ pc = "accept" /\ conn = "waiting"
  /\ conn' = "open" /\ pc' = "next" /\ m_ack' = TRUE /\ ring' = <<>>
  /\ UNCHANGED <<cnt, toStub, toClient, closed, points, clientVars>>

Close ==
  /\ conn' = "none" /\ pc' = "accept" /\ ring' = <<>> /\ toStub' = <<>>
  /\ cnt' = 0

(* A Panic that nothing catches, or SIGPIPE. *)
Dies ==
  /\ pc' = "dead" /\ conn' = "none" /\ ring' = <<>> /\ toStub' = <<>> /\ cnt' = 0
  /\ UNCHANGED <<m_ack, toClient, closed, points, clientVars>>

(* The checksum of a packet that is the last recv has brought.  If its first
   digit goes into the last slot of the buffer, buf_fill asks for two characters
   more, though one is missing. *)
ChecksumWaits ==
  /\ pc = "next" /\ Len(ring) = 1 /\ Head(ring).kind = "packet"
  /\ pc' = "checksum"
  /\ UNCHANGED <<m_ack, cnt, wireVars, points, clientVars>>

(* recv waits, and reads ahead. *)
Reads == pc = "checksum" \/ (pc \in {"next", "ack", "last_ack"} /\ ring = <<>>)
Recv ==
  /\ Reads
  /\ \E k \in 1 .. Len(toStub) :
       /\ ring' = ring \o SubSeq(toStub, 1, k)
       /\ toStub' = SubSeq(toStub, k + 1, Len(toStub))
  /\ pc' = IF pc = "checksum" THEN "next" ELSE pc
  /\ UNCHANGED <<m_ack, cnt, toClient, conn, closed, points, clientVars>>

EndOfFile ==
  /\ Reads /\ toStub = <<>> /\ closed
  /\ IF pc \in {"next", "checksum"}
     THEN Close
     ELSE pc' = "next" /\ UNCHANGED <<conn, ring, toStub, cnt>>
  /\ m_ack' = (pc # "last_ack" /\ m_ack)
  /\ UNCHANGED <<toClient, closed, points, clientVars>>

(* next: what is not a packet is dropped. *)
Skip ==
  /\ pc = "next" /\ ring # <<>> /\ Head(ring).kind # "packet"
  /\ ring' = Tail(ring)
  /\ UNCHANGED <<pc, m_ack, cnt, toStub, toClient, conn, closed, points, clientVars>>

Sent(answers) ==
  toClient' = IF closed THEN toClient ELSE toClient \o answers

(* A wrong checksum: the stub asks for the packet again, and leaves. *)
Refuse ==
  /\ pc = "next" /\ ring # <<>> /\ Head(ring).kind = "packet" /\ ~Head(ring).good
  /\ Sent(IF m_ack THEN <<"-">> ELSE <<>>)
  /\ Close
  /\ UNCHANGED <<m_ack, closed, points, clientVars>>

(* RSPHandler::write; the answer's own acknowledgement is read at "ack". *)
Plus_Mut == <<"+">>                      \* Mutant: next acknowledges always
Plus == IF m_ack THEN <<"+">> ELSE <<>>
AfterWrite_Mut == "ack"                  \* Mutant: write reads a '+' always
AfterWrite == IF m_ack THEN "ack" ELSE "next"

Takes(cmds) ==
  /\ pc = "next" /\ ring # <<>> /\ Head(ring).kind = "packet" /\ Head(ring).good
  /\ Head(ring).cmd \in cmds
  /\ ring' = Tail(ring)
  /\ UNCHANGED <<cnt, toStub, conn, closed, clientVars>>

SetPoints_Mut(p) ==                      \* Mutant: one set for all points
  LET Changed(S, types) ==
        IF p.type \notin types THEN S
        ELSE IF p.cmd = "Z" THEN S \cup {p.addr} ELSE S \ {0, p.addr}
  IN /\ m_breakpts' = Changed(m_breakpts, {"0", "2", "3", "4"})
     /\ UNCHANGED <<m_write_watchpts, m_read_watchpts>>

(* The text of a z packet is cut one character too early, so that its first
   token is empty and the address is read as 0. *)
SetPoints(p) ==
  LET Changed(S, types) ==
        IF p.type \notin types THEN S
        ELSE IF p.cmd = "Z" THEN S \cup {p.addr} ELSE S \ {0}
  IN /\ m_breakpts' = Changed(m_breakpts, {"0"})
     /\ m_write_watchpts' = Changed(m_write_watchpts, {"2", "4"})
     /\ m_read_watchpts' = Changed(m_read_watchpts, {"3", "4"})

ServePoint ==
  /\ Takes({"Z", "z"})
  /\ SetPoints(Head(ring))
  /\ Sent(Plus \o <<Answer(Head(ring))>>)
  /\ pc' = AfterWrite
  /\ UNCHANGED m_ack

ServeQuery ==
  /\ Takes({"m", "q"})
  /\ Sent(Plus \o <<"data">>) /\ pc' = AfterWrite
  /\ UNCHANGED <<m_ack, points>>

ServeStep ==
  /\ Takes({"s"})
  /\ Sent(Plus \o <<"S05">>) /\ pc' = AfterWrite
  /\ UNCHANGED <<m_ack, points>>

(* set_ack(false) comes after the acknowledgement of OK. *)
ServeNoAck ==
  /\ Takes({"QStartNoAckMode"})
  /\ Sent(Plus \o <<"OK">>) /\ pc' = IF m_ack THEN "last_ack" ELSE "next"
  /\ UNCHANGED <<m_ack, points>>

ServeSilently ==
  /\ Takes({"v"})
  /\ Sent(Plus) /\ pc' = "next"
  /\ UNCHANGED <<m_ack, points>>

ServeContinue ==
  /\ Takes({"c"})
  /\ Sent(Plus) /\ pc' = "run"
  /\ UNCHANGED <<m_ack, points>>

Detach ==
  /\ pc = "next" /\ ring # <<>> /\ Head(ring).kind = "packet" /\ Head(ring).good
  /\ Head(ring).cmd = "D"
  /\ Sent(Plus) /\ Close
  /\ UNCHANGED <<m_ack, closed, points, clientVars>>

(* step and read8 throw a Panic through handle_rsp and run. *)
PanicEscapes ==
  /\ pc = "next" /\ ring # <<>> /\ Head(ring).kind = "packet" /\ Head(ring).good
  /\ Head(ring).cmd \in {"s", "m"}
  /\ Dies

(* send to a client that has left may end the process: nobody ignores SIGPIPE. *)
PipeBreaks ==
  /\ closed
  /\ pc = "run" \/ (pc = "next" /\ ring # <<>> /\ Head(ring).kind = "packet")
  /\ Dies

TakeAck ==
  /\ pc \in {"ack", "last_ack"} /\ ring # <<>>
  /\ ring' = Tail(ring) /\ pc' = "next" /\ m_ack' = (pc = "ack")
  /\ UNCHANGED <<cnt, toStub, toClient, conn, closed, points, clientVars>>

-----------------------------------------------------------------------------
(* cont. *)

(* pending_int looks into the socket, not into the ring. *)
PendingInt == toStub # <<>> /\ Head(toStub).kind = "int"

Stops == Sent(<<"S05">>) /\ pc' = AfterWrite /\ cnt' = 0

StopOnInterrupt ==
  /\ pc = "run" /\ cnt = 0 /\ PendingInt
  /\ Stops
  /\ UNCHANGED <<m_ack, ring, toStub, conn, closed, points, clientVars>>

(* One step of the program, to a; it has read r and written w. *)
HitsPoint(a, r, w) == a \in m_breakpts \/ r \in m_read_watchpts \/ w \in m_write_watchpts

Counted_Mut == cnt + 1                   \* Mutant: no wrap
Unpolled_Mut == (cnt % (PollEvery - 1)) + 1   \* Mutant: never 0 again
Counted == (cnt + 1) % PollEvery

Run ==
  /\ pc = "run" /\ ~(cnt = 0 /\ PendingInt)
  /\ \E a \in Addrs, r, w \in Addrs \cup {None}, panic \in BOOLEAN :
       IF panic \/ HitsPoint(a, r, w)
       THEN Stops
       ELSE cnt' = Counted /\ UNCHANGED <<pc, toClient>>
  /\ UNCHANGED <<m_ack, ring, toStub, conn, closed, points, clientVars>>

Client == TakePlus \/ SendAgain \/ TakeAnswer \/ NoticeEnd
Stub == Accept \/ Recv \/ EndOfFile \/ Skip \/ Refuse \/ ServePoint \/ ServeQuery
          \/ ServeStep \/ ServeNoAck \/ ServeSilently \/ ServeContinue \/ Detach
          \/ TakeAck \/ StopOnInterrupt \/ Run

StubNext == Client \/ Stub \/ Connect \/ SendCommand \/ Interrupt \/ Leave
              \/ ChecksumWaits \/ PanicEscapes \/ PipeBreaks

StubSpec == StubInit /\ [][StubNext]_vars

(* The stub's thread runs, and the client takes what it is sent. *)
FairStubSpec == StubSpec /\ WF_vars(Client) /\ WF_vars(Stub)

-----------------------------------------------------------------------------
(* Properties. *)

(* The client takes each answer for the one to its last command: nothing
   reaches it between commands, before a command's acknowledgement, or besides
   the one answer that fits, whatever was refused or interrupted, in both modes
   of acknowledgement and after any earlier session. *)
AnswersFit ==
  /\ cl = "idle" => toClient = <<>>
  /\ cl = "sent" /\ toClient # <<>> => Head(toClient) \in {"+", "-"}
  /\ cl = "wait" => toClient \in {<<>>, <<Answer(clSent)>>}

(* The character that write reads as an acknowledgement is never the start of
   a command, which would be lost. *)
AcksAreAcks ==
  pc \in {"ack", "last_ack"} /\ ring # <<>> => Head(ring).kind # "packet"

(* A breakpoint set in any session and not removed since is in the debug core's
   set, through watchpoints at the same address, refused packets, runs and the
   sessions after.  Address 0 is left out: each z packet removes it. *)
BreaksHeld == h_breaks \ {0} \subseteq m_breakpts

(* While acknowledgements are on, an interrupt the client sends during a run
   leads to an answer or to the end of the session: cont looks for it again and
   again, and finds it in the socket. *)
InterruptStops == (clInt /\ clAck) ~> ~clInt

(* A client that is served, or that is next to be, gets the answer to a command
   other than c (and those v and Q packets that have none), or sees the session
   end, unless the stub is left in the read of a checksum that waits for more than
   was sent.  Nothing else keeps an answer back: no packet refused, no mode of
   acknowledgement left over, no character read ahead. *)
Unanswered == cl \in {"sent", "wait"} /\ clSent.cmd \notin {"c", "v"}
StuckInChecksum == pc = "checksum" /\ toStub = <<>>
AnswerArrives == Unanswered ~> (~Unanswered \/ StuckInChecksum)
=============================================================================
