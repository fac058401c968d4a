----------------------------- MODULE CharStream -----------------------------
(***************************************************************************)
(* What the stub's connection promises its caller (gdb/SockIO.hpp): the    *)
(* characters the peer sends are handed over in order, none lost and none  *)
(* twice; read fills its buffer completely, read_to fills it up to and     *)
(* including the character it looks for, and a call fails only when the    *)
(* peer has closed the connection.                                         *)
(***************************************************************************)
EXTENDS Naturals, Sequences

CONSTANTS Chars, Delim

VARIABLES stream,       \* sent by the peer, not handed over yet
          closed,       \* the peer sends no more
          op, size,     \* the call that is being served, and buf.size()
          out           \* what it has put into buf

csVars == <<stream, closed, op, size, out>>

CsInit ==
  /\ stream = <<>> /\ closed = FALSE
  /\ op = "none" /\ size = 0 /\ out = <<>>

PeerSends ==
  /\ ~closed
  /\ \E c \in Chars : stream' = Append(stream, c)
  /\ UNCHANGED <<closed, op, size, out>>

PeerCloses == closed' = TRUE /\ UNCHANGED <<stream, op, size, out>>

Begin ==
  /\ op = "none"
  /\ op' \in {"read", "read_to", "write"} /\ size' \in Nat \ {0}
  /\ out' = <<>>
  /\ UNCHANGED <<stream, closed>>

(* No call takes more than it has room for, and read_to nothing beyond the
   character it looks for. *)
HandOver ==
  /\ op \in {"read", "read_to"}
  /\ \E n \in 0 .. Len(stream) :
       /\ out' = out \o SubSeq(stream, 1, n)
       /\ stream' = SubSeq(stream, n + 1, Len(stream))
  /\ Len(out') <= size
  /\ op = "read_to" => \A i \in 1 .. Len(out') - 1 : out'[i] # Delim
  /\ UNCHANGED <<closed, op, size>>

Complete ==
  CASE op = "read"    -> Len(out) = size
    [] op = "read_to" -> Len(out) = size \/ (out # <<>> /\ out[Len(out)] = Delim)
    [] OTHER          -> TRUE

Return ==
  /\ op # "none" /\ Complete
  /\ op' = "none"
  /\ UNCHANGED <<stream, closed, size, out>>

(* The end of the stream is lost with a call that fails. *)
Fail ==
  /\ op # "none" /\ closed
  /\ op' = "none"
  /\ \E n \in 0 .. Len(stream) : stream' = SubSeq(stream, 1, n)
  /\ UNCHANGED <<closed, size, out>>

CsNext == PeerSends \/ PeerCloses \/ Begin \/ HandOver \/ Return \/ Fail

CsSpec == CsInit /\ [][CsNext]_csVars
=============================================================================
