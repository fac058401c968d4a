-------------------------------- MODULE MCSIO --------------------------------
(***************************************************************************)
(* A small instance of SIO: a queue of two answers, four bytes to send,    *)
(* and delays that let two bytes be on their way at once.  The program     *)
(* selects the pad, drops the line, switches the transmitter off, and      *)
(* talks to the empty port.                                                *)
(***************************************************************************)
EXTENDS SIO

Word(tx_en, dtr, port) ==
  [tx_en |-> tx_en, dtr_out_lvl |-> dtr, rx_en |-> FALSE, dsrint_en |-> TRUE,
   port |-> port]

MCCtrlWords == {Word(TRUE, TRUE, 0), Word(TRUE, FALSE, 0), Word(FALSE, TRUE, 0),
                Word(TRUE, TRUE, 1)}

MCStatWords == {[tx_notfull |-> FALSE, rx_notempty |-> FALSE, irq |-> FALSE]}
=============================================================================
