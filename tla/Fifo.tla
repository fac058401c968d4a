-------------------------------- MODULE Fifo --------------------------------
(***************************************************************************)
(* The ring buffer of src/src/util/Fifo.hpp, as operators on its state: a  *)
(* record of the slots m_data, the front m_f and the back m_b.  One slot   *)
(* more than the capacity tells full from empty.                           *)
(***************************************************************************)
EXTENDS Integers, Sequences

CONSTANT FifoCap        \* template parameter C

ASSUME FifoAssumption == FifoCap \in Nat \ {0}

Slots == 0 .. FifoCap

Fifos(T) == [data : [Slots -> T], f : Slots, b : Slots]

(* m_data is not initialised: slots start with what was there. *)
NewFifo(junk) == [data |-> [i \in Slots |-> junk], f |-> 0, b |-> 0]

FifoSize(q) == IF q.b >= q.f THEN q.b - q.f ELSE q.f + (FifoCap - q.b)

FifoFull(q) == FifoSize(q) = FifoCap

FifoEmpty(q) == FifoSize(q) = 0

FifoPush(q, x) ==
  [q EXCEPT !.data[q.b] = x, !.b = (q.b + 1) % (FifoCap + 1)]

FifoFront(q) == q.data[q.f]

FifoPop_Mut(q) == [q EXCEPT !.f = q.f + 1]       \* Mutant: runs off the ring
FifoPop(q) == [q EXCEPT !.f = (q.f + 1) % (FifoCap + 1)]

FifoPeek(q, i) == q.data[(q.f + i) % (FifoCap + 1)]

(* What the buffer holds, front first: the distance from m_f to m_b around
   the ring, whatever size() says. *)
FifoLen(q) == (q.b - q.f) % (FifoCap + 1)
FifoContent(q) == [i \in 1 .. FifoLen(q) |-> FifoPeek(q, i - 1)]
=============================================================================
