----------------------------- MODULE MCNxpUart ------------------------------
(***************************************************************************)
(* The UART for TLC: a FIFO of depth 2 that can be overrun by one item, a  *)
(* byte and BREAK as the items that can be told apart, one modem line, and *)
(* a guest that enables the receive interrupt or all the others.           *)
(***************************************************************************)
EXTENDS NxpUart

OneByte == {0}

NoModem == {}

OneModemLine == {"RTS"}

ReceiveMask == {{"RX"}}

TwoMasks == {{"RX"}, Interrupt \ {"RX"}}
=============================================================================
