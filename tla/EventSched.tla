----------------------------- MODULE EventSched -----------------------------
(***************************************************************************)
(* The event scheduler (src/src/core/EventScheduler.cpp).  An event keeps  *)
(* the number of ticks that are left until its time instead of the time    *)
(* itself, so that m_clk is always 0.  The priority queue orders events by *)
(* time alone: events of the same time run in any order.                   *)
(***************************************************************************)
EXTENDS Integers

VARIABLE m_pq           \* the pending events, each with a field due

EventSchedInit == m_pq = {}

(* The queue with each of the calls evs added. *)
Added(evs) == m_pq \cup evs

Due(e) == e \in m_pq /\ e.due <= 0

(* The event tick() pops next: due, and of the least time. *)
Pops(e) == Due(e) /\ \A f \in m_pq : e.due <= f.due

Popped(e) == m_pq \ {e}

(* m_clk += 1, after the last event that is due. *)
AdvanceClock ==
  /\ ~ \E e \in m_pq : Due(e)
  /\ m_pq' = {[e EXCEPT !.due = @ - 1] : e \in m_pq}
=============================================================================
