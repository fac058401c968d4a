------------------------------ MODULE SIOProofs ------------------------------
(***************************************************************************)
(* Proofs about SIO: its types, and the order in which the scheduler runs  *)
(* the events of the bytes.  The argument for the order is on the times    *)
(* that are left: exchanges of later bytes have more of it, an             *)
(* acknowledgement has more than the exchange of its byte, and the queue   *)
(* runs an event only when none is left.                                   *)
(***************************************************************************)
EXTENDS SIO, FifoProofs

ExchEvents == {e \in m_pq : e.kind = "exch"}

OrderInv ==
  /\ \A e \in m_pq : e.id < n_tx
  /\ \A e \in ExchEvents :
       /\ e.due <= ExchDelay
       /\ turn = "cpu" => e.due < ExchDelay
       /\ \A f \in ExchEvents : e.id < f.id => e.due < f.due
       /\ \A a \in m_pq : a.kind = "ack" /\ a.id = e.id => e.due < a.due

SchedType == m_pq \in SUBSET Events /\ n_tx \in Nat /\ turn \in {"cpu", "sched"}

LEMMA NewEvents ==
  ASSUME NEW n \in Nat, NEW port
  PROVE  /\ Exchange(n, port) \in Events /\ Acknowledge(n, port) \in Events
         /\ Exchange(n, port).id = n /\ Acknowledge(n, port).id = n
         /\ Exchange(n, port).kind = "exch" /\ Acknowledge(n, port).kind = "ack"
         /\ Exchange(n, port).due = ExchDelay /\ Acknowledge(n, port).due = AckDelay
  BY DelayAssumption DEF Exchange, Acknowledge, HasDev, Events

LEMMA AdvanceEvents ==
  ASSUME SchedType, AdvanceClock
  PROVE  /\ \A e \in m_pq : e.due > 0
         /\ \A e \in m_pq' : \E f \in m_pq :
              e.id = f.id /\ e.kind = f.kind /\ e.sel = f.sel /\ e.due = f.due - 1
         /\ m_pq' \in SUBSET Events
<1>1. \A e \in m_pq : e \in Events /\ e.due > 0
  BY DEF SchedType, AdvanceClock, Due, Events
<1>2. ASSUME NEW e \in m_pq'
      PROVE  /\ e \in Events
             /\ \E f \in m_pq :
                  e.id = f.id /\ e.kind = f.kind /\ e.sel = f.sel /\ e.due = f.due - 1
  <2>1. PICK f \in m_pq : e = [f EXCEPT !.due = f.due - 1]
    BY DEF AdvanceClock
  <2> QED  BY <1>1, <2>1 DEF Events
<1> QED  BY <1>1, <1>2

-----------------------------------------------------------------------------
(* Which actions touch the events. *)

KeepsEvents == UNCHANGED <<m_pq, n_tx>> /\ (turn' = turn \/ turn' = "sched")

LEMMA SchedSteps ==
  ASSUME [SIONext]_vars
  PROVE  \/ KeepsEvents
         \/ WriteTx
         \/ RunExchange \/ RunAcknowledge
         \/ EndTick
  BY DEF SIONext, CpuTurn, SchedTurn, Frontend, Idle, ReadRx, ResetCtrl, WriteCtrl,
         WriteStatReg, AckIntCtl, Cpu, vars, sioVars, KeepsEvents

LEMMA RunSteps ==
  ASSUME RunExchange \/ RunAcknowledge
  PROVE  \E e \in m_pq : /\ e.due <= 0 /\ m_pq' = m_pq \ {e}
                         /\ e.kind = IF RunExchange THEN "exch" ELSE "ack"
                         /\ UNCHANGED <<turn, n_tx>>
  BY DEF RunExchange, RunAcknowledge, Runs, Pops, Popped, Due

LEMMA SchedTypeStep ==
  ASSUME SchedType, [SIONext]_vars
  PROVE  SchedType'
<1>1. CASE KeepsEvents
  BY <1>1 DEF KeepsEvents, SchedType
<1>2. CASE WriteTx
  BY <1>2, NewEvents DEF WriteTx, Cpu, Added, SchedType
<1>3. CASE RunExchange \/ RunAcknowledge
  BY <1>3, RunSteps DEF SchedType
<1>4. CASE EndTick
  BY <1>4, AdvanceEvents DEF EndTick, SchedType
<1> QED  BY <1>1, <1>2, <1>3, <1>4, SchedSteps

LEMMA OrderStep ==
  ASSUME SchedType, OrderInv, [SIONext]_vars
  PROVE  OrderInv'
<1>1. CASE KeepsEvents
  BY <1>1 DEF KeepsEvents, OrderInv, ExchEvents
<1>2. CASE WriteTx
  <2> DEFINE x == Exchange(n_tx, m_ctrl.port)
             a == Acknowledge(n_tx, m_ctrl.port)
  <2>1. m_pq' = m_pq \cup {x, a} /\ n_tx' = n_tx + 1 /\ turn = "cpu" /\ turn' = "sched"
    BY <1>2 DEF WriteTx, Cpu, Added
  <2>2. /\ x.id = n_tx /\ a.id = n_tx /\ x.kind = "exch" /\ a.kind = "ack"
        /\ x.due = ExchDelay /\ a.due = AckDelay
    BY NewEvents DEF SchedType
  <2>3. \A e \in m_pq : e.id \in Nat /\ e.due \in Nat
    BY DEF SchedType, Events
  <2> HIDE DEF x, a
  <2> QED
    BY <2>1, <2>2, <2>3, DelayAssumption DEF OrderInv, ExchEvents, SchedType
<1>3. CASE RunExchange \/ RunAcknowledge
  BY <1>3, RunSteps DEF OrderInv, ExchEvents
<1>4. CASE EndTick
  <2>1. \A e \in m_pq : e.id \in Nat /\ e.due \in Nat
    BY DEF SchedType, Events
  <2>2. AdvanceClock /\ UNCHANGED n_tx
    BY <1>4 DEF EndTick
  <2>3. \A e \in m_pq' : \E f \in m_pq :
          e.id = f.id /\ e.kind = f.kind /\ e.due = f.due - 1
    BY <2>2, AdvanceEvents
  <2>4. \A e \in m_pq' : e.id < n_tx'
    BY <2>2, <2>3 DEF OrderInv
  <2>5. ASSUME NEW e \in ExchEvents'
        PROVE  /\ e.due <= ExchDelay /\ e.due < ExchDelay
               /\ \A f \in ExchEvents' : e.id < f.id => e.due < f.due
               /\ \A a \in m_pq' : a.kind = "ack" /\ a.id = e.id => e.due < a.due
    <3>1. PICK g \in ExchEvents : e.id = g.id /\ e.due = g.due - 1
      BY <2>3, <2>5 DEF ExchEvents
    <3>2. g.due <= ExchDelay /\ g.due \in Nat
      BY <2>1, <3>1 DEF OrderInv, ExchEvents
    <3>3. ASSUME NEW f \in ExchEvents', e.id < f.id
          PROVE  e.due < f.due
      <4>1. PICK h \in ExchEvents : f.id = h.id /\ f.due = h.due - 1
        BY <2>3, <3>3 DEF ExchEvents
      <4> QED  BY <2>1, <3>1, <3>3, <4>1 DEF OrderInv, ExchEvents
    <3>4. ASSUME NEW a \in m_pq', a.kind = "ack", a.id = e.id
          PROVE  e.due < a.due
      <4>1. PICK h \in m_pq : a.id = h.id /\ a.kind = h.kind /\ a.due = h.due - 1
        BY <2>3, <3>4
      <4>2. h.kind = "ack" /\ h.id = g.id
        BY <3>1, <3>4, <4>1
      <4>3. g.due < h.due
        BY <4>1, <4>2 DEF OrderInv
      <4>4. g.due \in Nat /\ h.due \in Nat
        BY <2>1, <4>1 DEF ExchEvents
      <4> QED  BY <3>1, <4>1, <4>3, <4>4
    <3> QED  BY <3>1, <3>2, <3>3, <3>4, DelayAssumption
  <2> QED  BY <2>4, <2>5 DEF OrderInv
<1> QED  BY <1>1, <1>2, <1>3, <1>4, SchedSteps

LEMMA SchedInvariant == SIOSpec => [](SchedType /\ OrderInv)
<1>1. SIOInit => SchedType /\ OrderInv
  BY DEF SIOInit, EventSchedInit, SchedType, OrderInv, ExchEvents
<1> QED  BY <1>1, SchedTypeStep, OrderStep, PTL DEF SIOSpec

(* The step that pops an event, other than the end of the tick. *)
LEMMA PopsInOrder ==
  ASSUME SchedType, OrderInv, [SIONext]_vars, turn = turn',
         NEW e \in m_pq \ m_pq'
  PROVE  /\ e.kind = "exch" => \A n \in 0 .. e.id - 1 : ~AwaitsAnswer(n)
         /\ e.kind = "ack" => ~AwaitsAnswer(e.id)
<1>1. e.due <= 0
  <2>1. ~WriteTx /\ ~EndTick /\ ~KeepsEvents
    BY DEF WriteTx, Cpu, EndTick, KeepsEvents
  <2> QED  BY <2>1, SchedSteps, RunSteps
<1>2. \A f \in m_pq : f.id \in Nat /\ f.due \in Nat
  BY DEF SchedType, Events
<1>3. ASSUME e.kind = "exch", NEW n \in 0 .. e.id - 1, AwaitsAnswer(n)
      PROVE  FALSE
  <2>1. PICK f \in ExchEvents : f.id = n
    BY <1>3 DEF AwaitsAnswer, ExchEvents
  <2>2. f.due < e.due
    BY <1>2, <1>3, <2>1 DEF OrderInv, ExchEvents
  <2> QED  BY <1>1, <1>2, <2>2 DEF ExchEvents
<1>4. ASSUME e.kind = "ack", AwaitsAnswer(e.id)
      PROVE  FALSE
  <2>1. PICK f \in ExchEvents : f.id = e.id
    BY <1>4 DEF AwaitsAnswer, ExchEvents
  <2>2. f.due < e.due
    BY <1>4, <2>1 DEF OrderInv
  <2> QED  BY <1>1, <1>2, <2>2 DEF ExchEvents
<1> QED  BY <1>3, <1>4

(* Whatever the delays and however many bytes are on their way, answers come
   in the order of the bytes. *)
THEOREM OrderOfAnswers == SIOSpec => AnswersInOrder
<1>1. SchedType /\ OrderInv /\ [SIONext]_vars
        => [ \A e \in m_pq \ m_pq' :
               turn = turn' /\ e.kind = "exch" => \A n \in 0 .. e.id - 1 : ~AwaitsAnswer(n) ]_vars
  BY PopsInOrder
<1> QED  BY <1>1, SchedInvariant, PTL DEF SIOSpec, AnswersInOrder

(* The interrupt of a byte comes after its answer, for every pair of delays
   of which the first is the smaller. *)
THEOREM AnswerBeforeInterrupt == SIOSpec => InterruptAfterAnswer
<1>1. SchedType /\ OrderInv /\ [SIONext]_vars
        => [ \A e \in m_pq \ m_pq' :
               turn = turn' /\ e.kind = "ack" => ~AwaitsAnswer(e.id) ]_vars
  BY PopsInOrder
<1> QED  BY <1>1, SchedInvariant, PTL DEF SIOSpec, InterruptAfterAnswer

-----------------------------------------------------------------------------
(* Types, and the ring as a queue. *)

LEMMA ExchResultType ==
  ASSUME m_state \in 0 .. 4, m_switches \in Switches
  PROVE  ExchResult \in Bytes
  BY DEF ExchResult, Bytes, HiZ, IdLow, IdHigh

LEMMA ReceivedType ==
  ASSUME m_rx \in Fifos(Bytes), NEW byte \in Bytes
  PROVE  Received(byte) \in Fifos(Bytes)
<1>1. CASE FifoSize(m_rx) = FifoCap
  <2>1. FifoLen(m_rx) > 0
    BY <1>1, SizeAtBounds, FifoAssumption
  <2> QED  BY <1>1, <2>1, PopIsTail, PushType DEF Received
<1>2. CASE FifoSize(m_rx) # FifoCap
  BY <1>2, PushType DEF Received
<1> QED  BY <1>1, <1>2

LEMMA TypeStep ==
  ASSUME SIOTypeOK, [SIONext]_vars
  PROVE  SIOTypeOK'
<1>1. SchedType'
  BY SchedTypeStep DEF SIOTypeOK, SchedType
<1> USE DEF SIOTypeOK, IntCtlTypeOK, SchedType, sioVars, padVars, intcVars
<1>2. CASE Idle
  BY <1>1, <1>2 DEF Idle, Cpu
<1>3. CASE ReadRx
  <2>1. m_rx' \in Fifos(Bytes)
    BY <1>3, SizeAtBounds, PopIsTail, LenIs DEF ReadRx
  <2>2. m_stat' \in Stat
    BY <1>3, Zenon DEF ReadRx, Stat
  <2>3. h_rx' \in Seq(Bytes)
    BY <1>3, HeadTailProperties DEF ReadRx
  <2> QED  BY <1>1, <1>3, <2>1, <2>2, <2>3 DEF ReadRx
<1>4. CASE WriteTx
  <2>1. m_stat' \in Stat
    BY <1>4 DEF WriteTx, Stat
  <2> QED  BY <1>1, <1>4, <2>1 DEF WriteTx
<1>5. CASE ResetCtrl
  <2>1. m_ctrl' \in Control
    BY <1>5 DEF ResetCtrl, Control, Ports
  <2> QED  BY <1>1, <1>5, <2>1 DEF ResetCtrl
<1>6. CASE WriteCtrl
  <2>1. m_ctrl' \in Control /\ m_stat' \in Stat
    BY <1>6, SIOAssumption DEF WriteCtrl, Stat
  <2>2. m_state' \in 0 .. 4 /\ m_switches' \in Switches
    BY <1>6 DEF WriteCtrl, SetCs
  <2> QED  BY <1>1, <1>6, <2>1, <2>2 DEF WriteCtrl
<1>7. CASE WriteStatReg
  BY <1>1, <1>7, SIOAssumption DEF WriteStatReg
<1>8. CASE AckIntCtl
  BY <1>1, <1>8 DEF AckIntCtl, WriteStat
<1>9. CASE RunExchange
  <2>1. PICK e \in m_pq :
          IF ~m_ctrl.tx_en
          THEN UNCHANGED <<m_rx, m_stat, h_rx, h_over, padVars>>
          ELSE LET byte == IF e.sel THEN ExchResult ELSE HiZ
               IN /\ IF e.sel THEN Exch ELSE UNCHANGED padVars
                  /\ m_rx' = Received(byte)
                  /\ m_stat' = [m_stat EXCEPT !.rx_notempty = TRUE, !.tx_notfull = TRUE]
                  /\ h_over' = (h_over \/ Len(h_rx) = FifoCap)
                  /\ h_rx' = IF h_over' THEN <<>> ELSE Append(h_rx, byte)
    BY <1>9 DEF RunExchange
  <2>2. UNCHANGED <<m_ctrl, h_wrstat, intcVars>>
    BY <1>9 DEF RunExchange
  <2>3. CASE ~m_ctrl.tx_en
    BY <1>1, <2>1, <2>2, <2>3
  <2>4. CASE m_ctrl.tx_en
    <3> DEFINE byte == IF e.sel THEN ExchResult ELSE HiZ
    <3>1. byte \in Bytes
      BY ExchResultType DEF Bytes, HiZ
    <3>2. m_rx' \in Fifos(Bytes)
      BY <2>1, <2>4, <3>1, ReceivedType
    <3>3. m_stat' \in Stat
      BY <2>1, <2>4 DEF Stat
    <3>4. h_over' \in BOOLEAN
      BY <2>1, <2>4
    <3>5. h_rx' \in Seq(Bytes)
      <4>1. h_rx' = <<>> \/ h_rx' = Append(h_rx, byte)
        BY <2>1, <2>4
      <4>2. Append(h_rx, byte) \in Seq(Bytes)
        BY <3>1, AppendProperties
      <4> QED  BY <4>1, <4>2, EmptySeq
    <3>6. m_state' \in 0 .. 4 /\ m_switches' \in Switches
      BY <2>1, <2>4 DEF Exch
    <3> QED  BY <1>1, <2>2, <3>2, <3>3, <3>4, <3>5, <3>6
  <2> QED  BY <2>3, <2>4
<1>10. CASE RunAcknowledge
  <2>1. m_stat' \in Stat
    BY <1>10 DEF RunAcknowledge, Stat
  <2>2. i_stat' \in SUBSET Irqs /\ i_mask' \in SUBSET Irqs
    BY <1>10, SIOAssumption DEF RunAcknowledge, SetInterrupt
  <2> QED  BY <1>1, <1>10, <2>1, <2>2 DEF RunAcknowledge
<1>11. CASE EndTick
  BY <1>1, <1>11 DEF EndTick
<1>12. CASE Frontend
  BY <1>1, <1>12 DEF Frontend, SetSwitches
<1>13. CASE UNCHANGED vars
  BY <1>1, <1>13 DEF vars
<1> QED
  BY <1>2, <1>3, <1>4, <1>5, <1>6, <1>7, <1>8, <1>9, <1>10, <1>11, <1>12, <1>13
  DEF SIONext, CpuTurn, SchedTurn

LEMMA SIOInitType ==
  ASSUME SIOInit
  PROVE  SIOTypeOK
<1>1. m_rx \in Fifos(Bytes)
  BY FifoAssumption DEF SIOInit, NewFifo, Fifos, Slots, Bytes, HiZ
<1>2. h_rx \in Seq(Bytes)
  BY EmptySeq DEF SIOInit
<1>3. m_ctrl \in Control /\ m_stat \in Stat
  BY DEF SIOInit
<1>4. IntCtlTypeOK
  BY DEF SIOInit, IntCtlInit, IntCtlTypeOK
<1>5. m_state \in 0 .. 4 /\ m_switches \in Switches
  BY DEF SIOInit, PadInit
<1>6. m_pq \in SUBSET Events
  BY DEF SIOInit, EventSchedInit
<1>7. turn \in {"cpu", "sched"} /\ n_tx \in Nat
  BY DEF SIOInit
<1>8. h_over \in BOOLEAN /\ h_wrstat \in BOOLEAN
  BY DEF SIOInit
<1> QED  BY <1>1, <1>2, <1>3, <1>4, <1>5, <1>6, <1>7, <1>8 DEF SIOTypeOK

(* Every variable keeps its type; in particular the indices of the ring stay
   inside m_data even after size() has gone wrong. *)
THEOREM SIOTypeCorrect == SIOSpec => []SIOTypeOK
<1>1. SIOInit => SIOTypeOK
  BY SIOInitType
<1> QED  BY <1>1, TypeStep, PTL DEF SIOSpec

RingInv == RingHoldsAnswers /\ (~h_over => Len(h_rx) <= FifoCap)

LEMMA RingStep ==
  ASSUME SIOTypeOK, RingInv, [SIONext]_vars
  PROVE  RingInv'
<1>1. m_rx \in Fifos(Bytes) /\ h_rx \in Seq(Bytes) /\ h_over \in BOOLEAN
      /\ FifoLen(m_rx) \in 0 .. FifoCap
  BY LenIs DEF SIOTypeOK
<1>2. CASE UNCHANGED <<m_rx, h_rx, h_over>>
  BY <1>2 DEF RingInv, RingHoldsAnswers, FifoContent, FifoLen, FifoPeek
<1>3. CASE ReadRx
  <2>1. UNCHANGED h_over
    BY <1>3 DEF ReadRx
  <2>2. CASE FifoEmpty(m_rx)
    <3>1. h_over \/ h_rx = <<>>
      BY <1>1, <2>2, SizeAtBounds, ContentIsSeq, EmptySeq DEF RingInv, RingHoldsAnswers
    <3>2. h_over \/ UNCHANGED <<m_rx, h_rx, h_over>>
      BY <1>3, <2>2, <3>1 DEF ReadRx
    <3> QED  BY <1>2, <2>1, <3>2 DEF RingInv, RingHoldsAnswers
  <2>3. CASE ~FifoEmpty(m_rx)
    <3>1. m_rx' = FifoPop(m_rx) /\ FifoLen(m_rx) > 0
      BY <1>1, <1>3, <2>3, SizeAtBounds DEF ReadRx
    <3>2. FifoContent(m_rx') = Tail(FifoContent(m_rx))
      BY <1>1, <3>1, PopIsTail
    <3>3. ASSUME ~h_over
          PROVE  h_rx' = Tail(h_rx) /\ Len(h_rx') <= FifoCap /\ FifoContent(m_rx) = h_rx
      <4>1. FifoContent(m_rx) = h_rx /\ Len(h_rx) = FifoLen(m_rx)
        BY <1>1, <3>3, ContentIsSeq DEF RingInv, RingHoldsAnswers
      <4>2. h_rx # <<>>
        BY <3>1, <4>1, EmptySeq
      <4>3. h_rx' = Tail(h_rx)
        BY <1>3, <4>2 DEF ReadRx
      <4>4. Len(Tail(h_rx)) = Len(h_rx) - 1
        BY <1>1, <4>2, HeadTailProperties
      <4> QED  BY <1>1, <4>1, <4>3, <4>4, FifoAssumption
    <3> QED  BY <2>1, <3>2, <3>3 DEF RingInv, RingHoldsAnswers
  <2> QED  BY <2>2, <2>3
<1>4. CASE RunExchange
  <2>1. CASE UNCHANGED <<m_rx, h_rx, h_over>>
    BY <1>2, <2>1
  <2>2. ASSUME NEW byte \in Bytes,
               m_rx' = Received(byte),
               h_over' = (h_over \/ Len(h_rx) = FifoCap),
               h_rx' = IF h_over' THEN <<>> ELSE Append(h_rx, byte)
        PROVE  RingInv'
    <3> SUFFICES ASSUME ~h_over'
                 PROVE  FifoContent(m_rx') = h_rx' /\ Len(h_rx') <= FifoCap
      BY DEF RingInv, RingHoldsAnswers
    <3>1. ~h_over /\ Len(h_rx) # FifoCap
      BY <1>1, <2>2
    <3>2. FifoContent(m_rx) = h_rx /\ Len(h_rx) = FifoLen(m_rx)
      BY <1>1, <3>1, ContentIsSeq DEF RingInv, RingHoldsAnswers
    <3>3. FifoLen(m_rx) < FifoCap
      BY <1>1, <3>1, <3>2, FifoAssumption
    <3>4. m_rx' = FifoPush(m_rx, byte)
      BY <1>1, <2>2, <3>1, <3>2, SizeAtBounds DEF Received
    <3>5. h_rx' = Append(h_rx, byte)
      BY <2>2
    <3>6. Len(Append(h_rx, byte)) = Len(h_rx) + 1
      BY <1>1, <2>2, AppendProperties
    <3> QED  BY <1>1, <2>2, <3>2, <3>3, <3>4, <3>5, <3>6, PushAppends, FifoAssumption
  <2>3. ExchResult \in Bytes /\ HiZ \in Bytes
    BY ExchResultType DEF SIOTypeOK, Bytes, HiZ
  <2> QED  BY <1>4, <2>1, <2>2, <2>3 DEF RunExchange
<1>5. CASE WriteTx
  BY <1>2, <1>5 DEF WriteTx
<1>6. CASE RunAcknowledge
  BY <1>2, <1>6 DEF RunAcknowledge
<1>7. CASE Idle \/ ResetCtrl \/ WriteCtrl \/ WriteStatReg \/ AckIntCtl \/ EndTick \/ Frontend
             \/ UNCHANGED vars
  BY <1>2, <1>7
  DEF Idle, ResetCtrl, WriteCtrl, WriteStatReg, AckIntCtl, EndTick, Frontend, vars, sioVars
<1> QED
  BY <1>3, <1>4, <1>5, <1>6, <1>7 DEF SIONext, CpuTurn, SchedTurn

(* For every capacity of the queue: while the program leaves no more answers
   unread than there is room for, the ring is exactly the queue of them. *)
THEOREM RingIsQueue == SIOSpec => []RingHoldsAnswers
<1>1. SIOInit => RingInv
  <2> SUFFICES ASSUME SIOInit PROVE RingInv
    OBVIOUS
  <2>1. SIOTypeOK /\ m_rx.f = 0 /\ m_rx.b = 0 /\ h_rx = <<>>
    BY SIOInitType DEF SIOInit, NewFifo
  <2>2. FifoLen(m_rx) = 0
    BY <2>1, LenIs DEF SIOTypeOK
  <2>3. FifoContent(m_rx) = <<>>
    BY <2>1, <2>2, ContentIsSeq, EmptySeq DEF SIOTypeOK
  <2>4. Len(h_rx) = 0
    BY <2>1, EmptySeq
  <2> QED  BY <2>1, <2>3, <2>4, FifoAssumption DEF RingInv, RingHoldsAnswers
<1>2. RingInv => RingHoldsAnswers
  BY DEF RingInv
<1> QED  BY <1>1, <1>2, RingStep, SIOTypeCorrect, PTL DEF SIOSpec

-----------------------------------------------------------------------------
(* What the program can rely on when it reads RX. *)

LEMMA ReceivedContent ==
  ASSUME m_rx \in Fifos(Bytes), NEW byte \in Bytes
  PROVE  LET c == FifoContent(m_rx)
             d == FifoContent(Received(byte))
         IN  \/ d = <<>>
             \/ d = Append(c, byte)
             \/ c # <<>> /\ d = Append(Tail(c), byte)
<1> DEFINE c == FifoContent(m_rx)
<1>1. c \in Seq(Bytes) /\ Len(c) = FifoLen(m_rx) /\ FifoLen(m_rx) \in 0 .. FifoCap
  BY ContentIsSeq, LenIs
<1>2. CASE FifoSize(m_rx) = FifoCap
  <2>1. FifoLen(m_rx) = FifoCap
    BY <1>2, SizeAtBounds
  <2>2. c # <<>> /\ FifoPop(m_rx) \in Fifos(Bytes) /\ FifoContent(FifoPop(m_rx)) = Tail(c)
    BY <1>1, <2>1, PopIsTail, EmptySeq, FifoAssumption
  <2>3. FifoLen(FifoPop(m_rx)) < FifoCap
    <3>1. Len(Tail(c)) = Len(c) - 1
      BY <1>1, <2>2, HeadTailProperties
    <3>2. FifoLen(FifoPop(m_rx)) = Len(Tail(c))
      BY <2>2, ContentIsSeq
    <3> QED  BY <1>1, <2>1, <3>1, <3>2, FifoAssumption
  <2> QED  BY <1>2, <2>2, <2>3, PushAppends DEF Received
<1>3. CASE FifoSize(m_rx) # FifoCap /\ FifoLen(m_rx) = FifoCap
  BY <1>3, PushOverruns DEF Received
<1>4. CASE FifoSize(m_rx) # FifoCap /\ FifoLen(m_rx) < FifoCap
  BY <1>4, PushAppends DEF Received
<1> QED  BY <1>1, <1>2, <1>3, <1>4, FifoAssumption

LEMMA ReadContent ==
  ASSUME m_rx \in Fifos(Bytes), ReadRx
  PROVE  LET c == FifoContent(m_rx)
         IN  FifoContent(m_rx') = IF c = <<>> THEN c ELSE Tail(c)
<1>1. FifoContent(m_rx) = <<>> <=> FifoEmpty(m_rx)
  BY ContentIsSeq, SizeAtBounds, EmptySeq
<1>2. CASE FifoEmpty(m_rx)
  <2>1. m_rx' = m_rx
    BY <1>2 DEF ReadRx
  <2> QED  BY <1>1, <1>2, <2>1
<1>3. CASE ~FifoEmpty(m_rx)
  <2>1. m_rx' = FifoPop(m_rx) /\ FifoLen(m_rx) > 0
    BY <1>3, SizeAtBounds, LenIs DEF ReadRx
  <2> QED  BY <1>1, <1>3, <2>1, PopIsTail
<1> QED  BY <1>2, <1>3

(* The steps that leave RX as it is, and what they may do to the pad.      *)
LEMMA RxSteps ==
  ASSUME [SIONext]_vars
  PROVE  \/ ReadRx
         \/ RunExchange
         \/ UNCHANGED m_rx /\ (m_state' = m_state \/ m_state' = 0)
<1>1. ASSUME WriteCtrl
      PROVE  UNCHANGED m_rx /\ (m_state' = m_state \/ m_state' = 0)
  BY <1>1 DEF WriteCtrl, SetCs, padVars
<1> QED
  BY <1>1 DEF SIONext, CpuTurn, SchedTurn, Idle, WriteTx, ResetCtrl, WriteStatReg,
              AckIntCtl, RunAcknowledge, EndTick, Frontend, SetSwitches, vars, sioVars, padVars

LEMMA AnnounceStep ==
  ASSUME SIOTypeOK, AnswersAnnounced, [SIONext]_vars
  PROVE  AnswersAnnounced'
<1>1. m_rx \in Fifos(Bytes) /\ m_stat \in Stat /\ m_rx' \in Fifos(Bytes)
  BY TypeStep DEF SIOTypeOK
<1>2. CASE ReadRx
  <2>1. ~FifoEmpty(m_rx') <=> FifoLen(m_rx') # 0
    BY <1>1, SizeAtBounds
  <2>2. UNCHANGED h_wrstat
        /\ m_stat'.rx_notempty = (m_stat.rx_notempty /\ ~FifoEmpty(m_rx'))
    BY <1>1, <1>2 DEF ReadRx, Stat
  <2>3. FifoLen(m_rx') > 0 => FifoLen(m_rx) > 0
    <3>1. FifoLen(m_rx) \in Nat
      BY <1>1, LenIs
    <3>2. CASE FifoEmpty(m_rx)
      BY <1>2, <3>2 DEF ReadRx
    <3>3. CASE ~FifoEmpty(m_rx)
      BY <1>1, <3>1, <3>3, SizeAtBounds
    <3> QED  BY <3>2, <3>3
  <2>4. FifoLen(m_rx') > 0 => ~FifoEmpty(m_rx')
    BY <2>1
  <2> QED  BY <2>2, <2>3, <2>4 DEF AnswersAnnounced
<1>3. CASE RunExchange
  <2>1. UNCHANGED h_wrstat
        /\ \/ UNCHANGED <<m_rx, m_stat>>
           \/ m_stat' = [m_stat EXCEPT !.rx_notempty = TRUE, !.tx_notfull = TRUE]
    BY <1>3 DEF RunExchange
  <2>2. CASE UNCHANGED <<m_rx, m_stat>>
    BY <2>1, <2>2 DEF AnswersAnnounced
  <2>3. CASE m_stat' = [m_stat EXCEPT !.rx_notempty = TRUE, !.tx_notfull = TRUE]
    BY <1>1, <2>3 DEF AnswersAnnounced, Stat
  <2> QED  BY <2>1, <2>2, <2>3
<1>4. CASE WriteStatReg
  BY <1>4 DEF WriteStatReg, AnswersAnnounced
<1>5. ASSUME UNCHANGED <<m_rx, h_wrstat>>, m_stat'.rx_notempty = m_stat.rx_notempty
      PROVE  AnswersAnnounced'
  BY <1>5 DEF AnswersAnnounced
<1>6. CASE WriteTx \/ WriteCtrl \/ RunAcknowledge
  <2>1. UNCHANGED <<m_rx, h_wrstat>>
    BY <1>6 DEF WriteTx, WriteCtrl, RunAcknowledge
  <2>2. m_stat'.rx_notempty = m_stat.rx_notempty
    BY <1>1, <1>6 DEF WriteTx, WriteCtrl, RunAcknowledge, Stat
  <2> QED  BY <1>5, <2>1, <2>2
<1>7. CASE Idle \/ ResetCtrl \/ AckIntCtl \/ EndTick \/ Frontend \/ UNCHANGED vars
  BY <1>5, <1>7 DEF Idle, ResetCtrl, AckIntCtl, EndTick, Frontend, vars, sioVars
<1> QED  BY <1>2, <1>3, <1>4, <1>6, <1>7 DEF SIONext, CpuTurn, SchedTurn

(* A program that has not overwritten STAT never finds rx_notempty clear
   while an answer is in RX, for every capacity and after overruns too. *)
THEOREM AnswersAreAnnounced == SIOSpec => []AnswersAnnounced
<1>1. SIOInit => AnswersAnnounced
  <2> SUFFICES ASSUME SIOInit PROVE FifoLen(m_rx) = 0
    BY DEF AnswersAnnounced
  <2>1. m_rx \in Fifos(Bytes) /\ m_rx.f = 0 /\ m_rx.b = 0
    BY SIOInitType DEF SIOInit, NewFifo, SIOTypeOK
  <2> QED  BY <2>1, LenIs
<1> QED  BY <1>1, AnnounceStep, SIOTypeCorrect, PTL DEF SIOSpec

(* The strengthening of ReportsInOrder: the last answer in RX is one that
   what the pad would say next may follow. *)
InOrder(s) == \A i \in 1 .. Len(s) - 1 : s[i].part \in Predecessors(s[i + 1].part)
LeadsTo(s, part) == s # <<>> => s[Len(s)].part \in Predecessors(part)
ReportInv ==
  InOrder(FifoContent(m_rx)) /\ LeadsTo(FifoContent(m_rx), ExchResult.part)

LEMMA OrderIs ==
  ASSUME m_rx \in Fifos(Bytes)
  PROVE  ReportsInOrder <=> InOrder(FifoContent(m_rx))
<1>1. FifoLen(m_rx) \in Nat /\ Len(FifoContent(m_rx)) = FifoLen(m_rx)
  BY LenIs, ContentIsSeq
<1>2. ASSUME NEW i \in 1 .. FifoLen(m_rx) - 1
      PROVE  /\ FifoContent(m_rx)[i] = FifoPeek(m_rx, i - 1)
             /\ FifoContent(m_rx)[i + 1] = FifoPeek(m_rx, i)
  <2>1. i \in 1 .. FifoLen(m_rx) /\ i + 1 \in 1 .. FifoLen(m_rx) /\ (i + 1) - 1 = i
    BY <1>1, <1>2
  <2> QED  BY <2>1, ContentIsSeq
<1> QED  BY <1>1, <1>2 DEF ReportsInOrder, InOrder

LEMMA TailInOrder ==
  ASSUME NEW s \in Seq(Bytes), s # <<>>, InOrder(s), NEW part, LeadsTo(s, part)
  PROVE  Tail(s) \in Seq(Bytes) /\ InOrder(Tail(s)) /\ LeadsTo(Tail(s), part)
<1>1. /\ Tail(s) \in Seq(Bytes) /\ Len(s) \in Nat \ {0} /\ Len(Tail(s)) = Len(s) - 1
      /\ \A i \in 1 .. Len(s) - 1 : Tail(s)[i] = s[i + 1]
  BY HeadTailProperties, LenProperties, EmptySeq
<1>2. InOrder(Tail(s))
  <2> SUFFICES ASSUME NEW i \in 1 .. Len(s) - 2
               PROVE  Tail(s)[i].part \in Predecessors(Tail(s)[i + 1].part)
    BY <1>1 DEF InOrder
  <2>1. i \in 1 .. Len(s) - 1 /\ i + 1 \in 1 .. Len(s) - 1
    BY <1>1
  <2> QED  BY <1>1, <2>1 DEF InOrder
<1>3. LeadsTo(Tail(s), part)
  <2> SUFFICES ASSUME Tail(s) # <<>>
               PROVE  Tail(s)[Len(s) - 1] = s[Len(s)]
    BY <1>1 DEF LeadsTo
  <2>1. Len(s) - 1 \in 1 .. Len(s) - 1 /\ (Len(s) - 1) + 1 = Len(s)
    BY <1>1, EmptySeq
  <2> QED  BY <1>1, <2>1
<1> QED  BY <1>1, <1>2, <1>3

LEMMA AppendInOrder ==
  ASSUME NEW s \in Seq(Bytes), NEW byte \in Bytes, InOrder(s), LeadsTo(s, byte.part),
         NEW part, byte.part \in Predecessors(part)
  PROVE  InOrder(Append(s, byte)) /\ LeadsTo(Append(s, byte), part)
<1>1. /\ Len(s) \in Nat /\ Len(Append(s, byte)) = Len(s) + 1
      /\ \A i \in 1 .. Len(s) : Append(s, byte)[i] = s[i]
      /\ Append(s, byte)[Len(s) + 1] = byte
  BY AppendProperties, LenProperties
<1>2. InOrder(Append(s, byte))
  <2> SUFFICES ASSUME NEW i \in 1 .. Len(s)
               PROVE  Append(s, byte)[i].part \in Predecessors(Append(s, byte)[i + 1].part)
    BY <1>1 DEF InOrder
  <2>1. CASE i = Len(s)
    <3>1. s # <<>>
      BY <1>1, <2>1, EmptySeq
    <3> QED  BY <1>1, <2>1, <3>1 DEF LeadsTo
  <2>2. CASE i # Len(s)
    <3>1. i \in 1 .. Len(s) - 1 /\ i + 1 \in 1 .. Len(s)
      BY <1>1, <2>2
    <3> QED  BY <1>1, <3>1 DEF InOrder
  <2> QED  BY <2>1, <2>2
<1> QED  BY <1>1, <1>2 DEF LeadsTo

(* What the pad says, and what may come before it.                         *)
LEMMA PadOrder ==
  ASSUME m_state \in 0 .. 4
  PROVE  /\ ExchResult.part = CASE m_state = 0 -> "hiz"
                                [] m_state = 1 -> "id_lo"
                                [] m_state = 2 -> "id_hi"
                                [] m_state = 3 -> "lo"
                                [] m_state = 4 -> "hi"
         /\ "hiz" \in Predecessors(ExchResult.part)
         /\ Exch => ExchResult.part \in Predecessors(ExchResult'.part)
<1>1. \A p \in {"hiz", "id_lo", "id_hi", "lo", "hi"} : "hiz" \in Predecessors(p)
  BY DEF Predecessors
<1>2. ExchResult.part = CASE m_state = 0 -> "hiz"
                          [] m_state = 1 -> "id_lo"
                          [] m_state = 2 -> "id_hi"
                          [] m_state = 3 -> "lo"
                          [] m_state = 4 -> "hi"
  BY DEF ExchResult, HiZ, IdLow, IdHigh
<1>3. "hiz" \in Predecessors(ExchResult.part)
  BY <1>1, <1>2
<1>4. ASSUME Exch
      PROVE  ExchResult.part \in Predecessors(ExchResult'.part)
  <2>1. m_state' \in 1 .. 4 /\ m_state' = IF m_state = 4 THEN 1 ELSE m_state + 1
    BY <1>4 DEF Exch
  <2>2. ExchResult'.part = CASE m_state' = 1 -> "id_lo"
                             [] m_state' = 2 -> "id_hi"
                             [] m_state' = 3 -> "lo"
                             [] m_state' = 4 -> "hi"
    BY <2>1 DEF ExchResult, HiZ, IdLow, IdHigh
  <2> QED  BY <1>2, <2>1, <2>2 DEF Predecessors
<1> QED  BY <1>2, <1>3, <1>4

LEMMA PartsOfBytes ==
  ASSUME NEW byte \in Bytes
  PROVE  byte.part \in Predecessors("hiz")
  BY DEF Bytes, HiZ, IdLow, IdHigh, Predecessors

LEMMA ReportStep ==
  ASSUME SIOTypeOK, ReportInv, [SIONext]_vars
  PROVE  ReportInv'
<1> DEFINE c == FifoContent(m_rx)
<1>1. /\ SIOTypeOK' /\ m_rx \in Fifos(Bytes) /\ c \in Seq(Bytes)
      /\ m_state \in 0 .. 4 /\ m_state' \in 0 .. 4 /\ m_switches \in Switches
      /\ InOrder(c) /\ LeadsTo(c, ExchResult.part)
  BY TypeStep, ContentIsSeq DEF SIOTypeOK, ReportInv
<1> HIDE DEF c
<1>2. CASE UNCHANGED m_rx /\ m_state' = m_state
  <2>1. ExchResult'.part = ExchResult.part
    BY <1>1, <1>2, PadOrder DEF ExchResult, HiZ, IdLow, IdHigh
  <2>2. FifoContent(m_rx)' = c
    BY <1>2 DEF c, FifoContent, FifoLen, FifoPeek
  <2> QED  BY <1>1, <2>1, <2>2 DEF ReportInv
<1>3. CASE UNCHANGED m_rx /\ m_state' = 0
  <2>1. ExchResult'.part = "hiz"
    BY <1>3 DEF ExchResult, HiZ
  <2>2. FifoContent(m_rx)' = c
    BY <1>3 DEF c, FifoContent, FifoLen, FifoPeek
  <2>3. LeadsTo(c, "hiz")
    BY <1>1, PartsOfBytes, EmptySeq, LenProperties, ElementOfSeq DEF LeadsTo
  <2> QED  BY <1>1, <2>1, <2>2, <2>3 DEF ReportInv
<1>4. CASE ReadRx
  <2>1. FifoContent(m_rx') = IF c = <<>> THEN c ELSE Tail(c)
    BY <1>1, <1>4, ReadContent DEF c
  <2>2. ExchResult' = ExchResult
    BY <1>4 DEF ReadRx, padVars, ExchResult
  <2>3. InOrder(FifoContent(m_rx')) /\ LeadsTo(FifoContent(m_rx'), ExchResult.part)
    BY <1>1, <2>1, TailInOrder
  <2> QED  BY <2>2, <2>3 DEF ReportInv
<1>5. CASE RunExchange
  <2>1. CASE UNCHANGED <<m_rx, padVars>>
    BY <1>2, <2>1 DEF padVars
  <2>2. ASSUME NEW byte \in Bytes, m_rx' = Received(byte),
               byte.part \in Predecessors(ExchResult'.part),
               LeadsTo(c, byte.part)
        PROVE  ReportInv'
    <3> DEFINE d == FifoContent(m_rx')
    <3>1. \/ d = <<>>
          \/ d = Append(c, byte)
          \/ c # <<>> /\ d = Append(Tail(c), byte)
      BY <1>1, <2>2, ReceivedContent DEF c
    <3> HIDE DEF d
    <3>2. CASE d = <<>>
      <4>1. Len(d) - 1 = -1
        BY <3>2
      <4>2. 1 .. -1 = {}
        OBVIOUS
      <4> QED  BY <3>2, <4>1, <4>2 DEF d, ReportInv, InOrder, LeadsTo
    <3>3. CASE d = Append(c, byte)
      BY <1>1, <2>2, <3>3, AppendInOrder DEF d, ReportInv
    <3>4. CASE c # <<>> /\ d = Append(Tail(c), byte)
      <4>1. Tail(c) \in Seq(Bytes) /\ InOrder(Tail(c)) /\ LeadsTo(Tail(c), byte.part)
        BY <1>1, <2>2, <3>4, TailInOrder
      <4> QED  BY <2>2, <3>4, <4>1, AppendInOrder DEF d, ReportInv
    <3> QED  BY <3>1, <3>2, <3>3, <3>4
  <2>3. CASE Exch /\ m_rx' = Received(ExchResult)
    BY <1>1, <2>2, <2>3, PadOrder, ExchResultType
  <2>4. CASE UNCHANGED padVars /\ m_rx' = Received(HiZ)
    <3>1. HiZ \in Bytes /\ HiZ.part = "hiz"
      BY DEF Bytes, HiZ
    <3>2. ExchResult' = ExchResult
      BY <2>4 DEF padVars, ExchResult
    <3>3. LeadsTo(c, "hiz")
      BY <1>1, PartsOfBytes, EmptySeq, LenProperties, ElementOfSeq DEF LeadsTo
    <3> QED  BY <1>1, <2>2, <2>4, <3>1, <3>2, <3>3, PadOrder
  <2> QED  BY <1>5, <2>1, <2>3, <2>4 DEF RunExchange
<1> QED  BY <1>2, <1>3, <1>4, <1>5, RxSteps

(* What stands in RX is what a pad says in its order, for every capacity,
   every word of switches, after overruns and wherever the program deselects
   the pad. *)
THEOREM ReportsAreInOrder == SIOSpec => []ReportsInOrder
<1>1. SIOInit => ReportInv
  <2> SUFFICES ASSUME SIOInit PROVE ReportInv
    OBVIOUS
  <2>1. m_rx \in Fifos(Bytes) /\ m_rx.f = 0 /\ m_rx.b = 0
    BY SIOInitType DEF SIOInit, NewFifo, SIOTypeOK
  <2>2. FifoContent(m_rx) = <<>>
    BY <2>1, LenIs, ContentIsSeq, EmptySeq
  <2>3. Len(<<>>) = 0 /\ 1 .. -1 = {}
    OBVIOUS
  <2> QED  BY <2>2, <2>3 DEF ReportInv, InOrder, LeadsTo
<1>2. SIOTypeOK /\ ReportInv => ReportsInOrder
  BY OrderIs DEF SIOTypeOK, ReportInv
<1> QED  BY <1>1, <1>2, ReportStep, SIOTypeCorrect, PTL DEF SIOSpec
=============================================================================
