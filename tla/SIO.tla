--------------------------------- MODULE SIO ---------------------------------
(***************************************************************************)
(* The serial port (src/src/core/SIO.cpp) between the program, the pad,    *)
(* the event scheduler and the interrupt controller.  A byte written to    *)
(* TX is answered by a scheduled event and acknowledged by another; in     *)
(* between the program goes on, may write the next byte, reset the port,   *)
(* select another one or drop the line that selects the pad.               *)
(*                                                                         *)
(* A tick of the system (System::tick) lets the CPU run, then the          *)
(* scheduler: turn says which of them is next.  The CPU makes at most one  *)
(* access to the port per tick.                                            *)
(***************************************************************************)
EXTENDS IntCtl, Controller, EventSched, Fifo

CONSTANTS ExchDelay,    \* 100 ticks in the code
          AckDelay,     \* 250 ticks in the code
          CtrlWords,    \* the control words the program stores
          StatWords,    \* the status words the program stores
          MaxWrites     \* bound: the bytes the program sends

ASSUME DelayAssumption ==
  /\ ExchDelay \in Nat \ {0} /\ AckDelay \in Nat
  /\ ExchDelay < AckDelay

Ports == {0, 1}

Control == [tx_en : BOOLEAN, dtr_out_lvl : BOOLEAN, rx_en : BOOLEAN,
            dsrint_en : BOOLEAN, port : Ports]
Stat == [tx_notfull : BOOLEAN, rx_notempty : BOOLEAN, irq : BOOLEAN]

ASSUME SIOAssumption ==
  /\ "CTRL" \in Irqs
  /\ CtrlWords \subseteq Control
  /\ StatWords \subseteq Stat
  /\ MaxWrites \in Nat

VARIABLES m_rx, m_ctrl, m_stat,
          turn,
          n_tx,         \* bytes accepted so far; numbers the events
          h_rx,         \* history: the answers not read yet, a sequence
          h_over,       \* history: an answer arrived while FifoCap were unread
          h_wrstat      \* history: the program stored to the status register

sioVars == <<m_rx, m_ctrl, m_stat, h_rx, h_over, h_wrstat>>
vars == <<sioVars, padVars, m_pq, intcVars, turn, n_tx>>

Events == [id : Nat, kind : {"exch", "ack"}, sel : BOOLEAN, due : Nat]

SIOTypeOK ==
  /\ IntCtlTypeOK
  /\ m_state \in 0 .. 4 /\ m_switches \in Switches
  /\ m_rx \in Fifos(Bytes)
  /\ m_ctrl \in Control /\ m_stat \in Stat
  /\ m_pq \in SUBSET Events
  /\ turn \in {"cpu", "sched"}
  /\ n_tx \in Nat
  /\ h_rx \in Seq(Bytes)
  /\ h_over \in BOOLEAN /\ h_wrstat \in BOOLEAN

(* The constructor sets three bits; the rest starts with any content. *)
SIOInit ==
  /\ IntCtlInit /\ PadInit /\ EventSchedInit
  /\ m_rx = NewFifo(HiZ)
  /\ m_ctrl \in {c \in Control : c.tx_en}
  /\ m_stat \in {s \in Stat : s.tx_notfull}
  /\ turn = "cpu"
  /\ n_tx = 0
  /\ h_rx = <<>> /\ h_over = FALSE /\ h_wrstat = FALSE

(* m_devs: main attaches the pad to port 0, nothing to port 1. *)
HasDev(port) == port = 0

-----------------------------------------------------------------------------
(* The CPU's turn: at most one access. *)

Cpu == turn = "cpu" /\ turn' = "sched"

Idle == Cpu /\ UNCHANGED <<sioVars, padVars, m_pq, intcVars, n_tx>>

(* The bytes rd_rx shifts into its result. *)
NumPeeked == IF FifoSize(m_rx) < 4 THEN FifoSize(m_rx) ELSE 4

ReadRx_Mut ==                            \* Mutant: takes one byte to be all
  /\ Cpu
  /\ m_rx' = IF FifoEmpty(m_rx) THEN m_rx ELSE FifoPop(m_rx)
  /\ m_stat' = [m_stat EXCEPT !.rx_notempty = FALSE]
  /\ h_rx' = IF h_rx = <<>> THEN h_rx ELSE Tail(h_rx)
  /\ UNCHANGED <<m_ctrl, h_over, h_wrstat, padVars, m_pq, intcVars, n_tx>>

ReadRx ==
  /\ Cpu
  /\ m_rx' = IF FifoEmpty(m_rx) THEN m_rx ELSE FifoPop(m_rx)
  /\ m_stat' = [m_stat EXCEPT !.rx_notempty = @ /\ ~FifoEmpty(m_rx')]
  /\ h_rx' = IF h_rx = <<>> THEN h_rx ELSE Tail(h_rx)
  /\ UNCHANGED <<m_ctrl, h_over, h_wrstat, padVars, m_pq, intcVars, n_tx>>

(* The two events of the byte number n; the device is the one selected when
   the byte is written. *)
Exchange_Mut(n, port) ==                 \* Mutant: an empty port answers at once
  [id |-> n, kind |-> "exch", sel |-> HasDev(port),
   due |-> IF HasDev(port) THEN ExchDelay ELSE 0]
Exchange(n, port) == [id |-> n, kind |-> "exch", sel |-> HasDev(port), due |-> ExchDelay]
Acknowledge_Mut(n, port) ==              \* Mutant: the delays swapped
  [id |-> n, kind |-> "ack", sel |-> HasDev(port), due |-> ExchDelay - 1]
Acknowledge(n, port) == [id |-> n, kind |-> "ack", sel |-> HasDev(port), due |-> AckDelay]

Accepts == m_ctrl.tx_en /\ (m_ctrl.rx_en \/ m_ctrl.dtr_out_lvl)

WriteTx ==
  /\ Cpu
  /\ Accepts
  /\ n_tx < MaxWrites
  /\ n_tx' = n_tx + 1
  /\ m_stat' = [m_stat EXCEPT !.tx_notfull = FALSE]
  /\ m_pq' = Added({Exchange(n_tx, m_ctrl.port), Acknowledge(n_tx, m_ctrl.port)})
  /\ UNCHANGED <<m_rx, m_ctrl, h_rx, h_over, h_wrstat, padVars, intcVars>>

(* The reset bit clears the registers alone: events, RX and STAT stay, and
   the pad is not told. *)
ResetCtrl ==
  /\ Cpu
  /\ m_ctrl' = [tx_en |-> TRUE, dtr_out_lvl |-> FALSE, rx_en |-> FALSE,
                dsrint_en |-> FALSE, port |-> 0]
  /\ UNCHANGED <<m_rx, m_stat, h_rx, h_over, h_wrstat, padVars, m_pq, intcVars, n_tx>>

WriteCtrl ==
  /\ Cpu
  /\ \E c \in CtrlWords, ack \in BOOLEAN :
       /\ m_ctrl' = c
       /\ m_stat' = IF ack THEN [m_stat EXCEPT !.irq = FALSE] ELSE m_stat
       /\ IF HasDev(c.port) THEN SetCs(~c.dtr_out_lvl) ELSE UNCHANGED padVars
  /\ UNCHANGED <<m_rx, h_rx, h_over, h_wrstat, m_pq, intcVars, n_tx>>

(* A store to the status register replaces it. *)
WriteStatReg ==
  /\ Cpu
  /\ m_stat' \in StatWords
  /\ h_wrstat' = TRUE
  /\ UNCHANGED <<m_rx, m_ctrl, h_rx, h_over, padVars, m_pq, intcVars, n_tx>>

(* The program acknowledges at the interrupt controller. *)
AckIntCtl ==
  /\ Cpu
  /\ WriteStat({})
  /\ UNCHANGED <<sioVars, padVars, m_pq, n_tx>>

CpuTurn == Idle \/ ReadRx \/ WriteTx \/ ResetCtrl \/ WriteCtrl \/ WriteStatReg
             \/ AckIntCtl

-----------------------------------------------------------------------------
(* The scheduler's turn. *)

Runs(e, kind) == turn = "sched" /\ e.kind = kind /\ Pops(e) /\ m_pq' = Popped(e)

(* A full queue loses its oldest answer to the new one. *)
Received_Mut(byte) ==                    \* Mutant: full one answer too early
  FifoPush(IF FifoSize(m_rx) >= FifoCap - 1 THEN FifoPop(m_rx) ELSE m_rx, byte)
Received(byte) ==
  FifoPush(IF FifoSize(m_rx) = FifoCap THEN FifoPop(m_rx) ELSE m_rx, byte)

RunExchange_Mut ==                       \* Mutant: the transmitter stays busy
  \E e \in m_pq :
    /\ Runs(e, "exch")
    /\ UNCHANGED <<m_rx, m_stat, h_rx, h_over, padVars>>
    /\ UNCHANGED <<m_ctrl, h_wrstat, intcVars, turn, n_tx>>

RunExchange ==
  \E e \in m_pq :
    /\ Runs(e, "exch")
    /\ IF ~m_ctrl.tx_en
       THEN UNCHANGED <<m_rx, m_stat, h_rx, h_over, padVars>>
       ELSE LET byte == IF e.sel THEN ExchResult ELSE HiZ
            IN /\ IF e.sel THEN Exch ELSE UNCHANGED padVars
               /\ m_rx' = Received(byte)
               /\ m_stat' = [m_stat EXCEPT !.rx_notempty = TRUE, !.tx_notfull = TRUE]
               /\ h_over' = (h_over \/ Len(h_rx) = FifoCap)
               /\ h_rx' = IF h_over' THEN <<>> ELSE Append(h_rx, byte)
    /\ UNCHANGED <<m_ctrl, h_wrstat, intcVars, turn, n_tx>>

RunAcknowledge ==
  \E e \in m_pq :
    /\ Runs(e, "ack")
    /\ IF m_ctrl.tx_en /\ m_ctrl.dsrint_en /\ e.sel
       THEN SetInterrupt("CTRL") /\ m_stat' = [m_stat EXCEPT !.irq = TRUE]
       ELSE UNCHANGED <<intcVars, m_stat>>
    /\ UNCHANGED <<m_rx, m_ctrl, h_rx, h_over, h_wrstat, padVars, turn, n_tx>>

EndTick ==
  /\ turn = "sched" /\ turn' = "cpu"
  /\ AdvanceClock
  /\ UNCHANGED <<sioVars, padVars, intcVars, n_tx>>

SchedTurn == RunExchange \/ RunAcknowledge \/ EndTick

(* The frontend's thread, at any time. *)
Frontend == SetSwitches /\ UNCHANGED <<sioVars, m_pq, intcVars, turn, n_tx>>

SIONext == CpuTurn \/ SchedTurn \/ Frontend

SIOSpec == SIOInit /\ [][SIONext]_vars

(* The debugger's continue loop ticks the system again and again. *)
FairSIOSpec == SIOSpec /\ WF_vars(CpuTurn) /\ WF_vars(SchedTurn)

-----------------------------------------------------------------------------
(* Properties. *)

AwaitsAnswer(n) == \E e \in m_pq : e.id = n /\ e.kind = "exch"

(* Answers reach RX in the order in which the bytes were written, however
   close the writes are: the queue orders events by time alone and wr_tx does
   not wait for tx_notfull, so this rests on one access per tick. *)
AnswersInOrder ==
  [][ \A e \in m_pq \ m_pq' :
        turn = turn' /\ e.kind = "exch" => \A n \in 0 .. e.id - 1 : ~AwaitsAnswer(n) ]_vars

(* The interrupt of a byte is raised only when the answer to it has arrived,
   so that the handler finds it in RX; this is what the two delays of wr_tx
   are for. *)
InterruptAfterAnswer ==
  [][ \A e \in m_pq \ m_pq' :
        turn = turn' /\ e.kind = "ack" => ~AwaitsAnswer(e.id) ]_vars

(* As long as the program leaves no more answers unread than the queue has
   room for, the ring holds exactly those, in order, across every wrap of its
   indices and every reset of the port. *)
RingHoldsAnswers == ~h_over => FifoContent(m_rx) = h_rx

(* A program that polls rx_notempty misses no answer, unless it overwrites
   the status register. *)
AnswersAnnounced == ~h_wrstat /\ FifoLen(m_rx) > 0 => m_stat.rx_notempty

(* A byte that was written is answered, and the transmitter is ready again,
   unless the program switches the transmitter off before that. *)
TransmitterRecovers ==
  \A n \in 0 .. MaxWrites - 1 :
    AwaitsAnswer(n) ~> (m_stat.tx_notfull \/ ~m_ctrl.tx_en)

(* The bytes of a report reach the program in the pad's order: neither the
   queue nor a deselection in the middle of an exchange leaves a half of the
   switches or of the identification where another byte is due.  The idle
   line may stand anywhere: it answers the first byte and an empty port. *)
Predecessors(part) ==
  CASE part = "hiz"   -> {"hiz", "id_lo", "id_hi", "lo", "hi"}
    [] part = "id_lo" -> {"hiz", "hi"}
    [] part = "id_hi" -> {"hiz", "id_lo"}
    [] part = "lo"    -> {"hiz", "id_hi"}
    [] part = "hi"    -> {"hiz", "lo"}

ReportsInOrder ==
  \A i \in 1 .. FifoLen(m_rx) - 1 :
    FifoPeek(m_rx, i - 1).part \in Predecessors(FifoPeek(m_rx, i).part)

(* The claim of the assertion in Fifo::peek: only what is in the queue is
   looked at.  rd_rx shifts in the first min(size(), 4) bytes. *)
PeeksStayInside == NumPeeked <= FifoLen(m_rx)
=============================================================================
