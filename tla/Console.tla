------------------------------ MODULE Console -------------------------------
(***************************************************************************)
(* The keyboard of the host, the main loop of QEMU, the multiplexer that   *)
(* -nographic puts before the UART, the UART, and the firmware's UART_getc,*)
(* UART_putstr and UART_putc.  UART_init writes to offsets that are no     *)
(* registers of the UART, so its FIFO stays off and it takes one key at a  *)
(* time.                                                                   *)
(*                                                                         *)
(* The main loop sleeps between its iterations.  What wakes it is a key,   *)
(* if there was room when it fell asleep, and qemu_notify_event, which a   *)
(* read of DR ends with.  The keys are 1, 2, 3 ... in the order they are   *)
(* typed; none of them is an escape of the multiplexer, so there is no     *)
(* BREAK.                                                                  *)
(***************************************************************************)
EXTENDS NxpUart, Functions

CONSTANT
  MUX_BUFFER_SIZE       \* 32

ASSUME MuxAssumption == MUX_BUFFER_SIZE \in Nat

VARIABLES
  typed,        \* the keys typed so far
  taken,        \* the keys the main loop has read
  buffer,       \* the keys the multiplexer stores
  awake,        \* the main loop is to begin an iteration
  pc,           \* of the firmware: "flag", "data", "print", "poll" or "putc"
  seen,         \* the keys that UART_getc returned
  lost,         \* the keys that a reset found in the UART
  stranded      \* the keys that a reset found in the multiplexer

consoleVars == <<vars, typed, taken, buffer, awake, pc, seen, lost, stranded>>

ConsoleInit ==
  /\ Init
  /\ typed = 0 /\ taken = 0 /\ buffer = <<>> /\ awake = TRUE /\ pc = "flag"
  /\ seen = <<>> /\ lost = {} /\ stranded = {}

Type ==
  /\ typed + 1 \in Byte
  /\ typed' = typed + 1
  /\ UNCHANGED <<vars, taken, buffer, awake, pc, seen, lost, stranded>>

-----------------------------------------------------------------------------
(***************************************************************************)
(* The multiplexer.                                                        *)
(***************************************************************************)
\* A multiplexer that only looks at its own buffer.
mux_chr_can_read_buffer == IF Len(buffer) < MUX_BUFFER_SIZE THEN 1 ELSE 0

mux_chr_can_read ==
  IF Len(buffer) < MUX_BUFFER_SIZE THEN 1 ELSE nxp_uart_can_receive(Rx)

\* How many stored keys mux_chr_accept_input passes on when the receiver is s.
Moved(s) ==
  LET room == nxp_uart_can_receive(s)
  IN IF room < 0 \/ Len(buffer) < room THEN Len(buffer) ELSE room

mux_chr_accept_input(s) == SubSeq(buffer, 1, Moved(s))

\* A multiplexer that lets a new key overtake the stored ones.
mux_chr_read_overtaking(key) ==
  LET pass == IF nxp_uart_can_receive(Rx) # 0 THEN <<key>> ELSE <<>>
  IN /\ SetRx(nxp_uart_receive(Rx, pass))
     /\ buffer' = IF pass = <<>> THEN Append(buffer, key) ELSE buffer

\* The stored keys first, then the new one.
mux_chr_read(key) ==
  LET s == nxp_uart_receive(Rx, mux_chr_accept_input(Rx))
      left == SubSeq(buffer, Moved(Rx) + 1, Len(buffer))
      direct == left = <<>> /\ nxp_uart_can_receive(s) # 0
  IN /\ SetRx(IF direct THEN nxp_uart_receive(s, <<key>>) ELSE s)
     /\ buffer' = IF direct THEN left ELSE Append(left, key)

\* io_watch_poll_prepare; then the loop waits for its files.
MainLoopPoll ==
  /\ awake
  /\ max_size' = mux_chr_can_read
  /\ awake' = FALSE
  /\ UNCHANGED <<rxVars, int_enabled, lcr, cr, rsr, data,
                 typed, taken, buffer, pc, seen, lost, stranded>>

\* fd_chr_read; with the FIFO off max_size is at most 1.
MainLoopRead ==
  /\ max_size > 0 /\ taken < typed
  /\ taken' = taken + 1
  /\ mux_chr_read(taken')
  /\ max_size' = 0 /\ awake' = TRUE
  /\ UNCHANGED <<int_enabled, lcr, cr, rsr, data, typed, pc, seen, lost, stranded>>

-----------------------------------------------------------------------------
(***************************************************************************)
(* The firmware.                                                           *)
(***************************************************************************)
\* while (UART0_FLAGREG & UART_F_RXFE)
GetcFlag ==
  /\ pc = "flag" /\ "RXFE" \notin flags
  /\ pc' = "data"
  /\ UNCHANGED <<vars, typed, taken, buffer, awake, seen, lost, stranded>>

\* A read of DR that does not tell the backend.
GetcDataSilent ==
  /\ pc = "data"
  /\ nxp_uart_read_rxdata(<<>>)
  /\ seen' = Append(seen, data')
  /\ pc' = "print"
  /\ UNCHANGED <<typed, taken, buffer, awake, lost, stranded>>

\* return (char)(UART0_DATA)
GetcData ==
  /\ pc = "data"
  /\ nxp_uart_read_rxdata(mux_chr_accept_input(DrRead(Rx)))
  /\ buffer' = SubSeq(buffer, Moved(DrRead(Rx)) + 1, Len(buffer))
  /\ awake' = TRUE
  /\ seen' = Append(seen, data')
  /\ pc' = "print"
  /\ UNCHANGED <<typed, taken, lost, stranded>>

\* A character is written to DR.  UART_putstr or UART_putc writes the next one,
\* or the firmware has printed all and waits for a key.
Put ==
  /\ nxp_uart_write_txdata(1)
  /\ pc' \in {"print", "poll", "flag"}
  /\ UNCHANGED <<typed, taken, buffer, awake, seen, lost, stranded>>

\* UART_putstr looks at no flag.
Putstr == pc = "print" /\ Put

\* UART_putc, which UART_print_hex calls, polls bit 5 of FR first.  uart.h names
\* it UART_F_RXFF, but the device has TXFF there.
\* while (UART0_FLAGREG & UART_F_RXFF)
PutcFlag ==
  /\ pc = "poll" /\ "TXFF" \notin flags
  /\ pc' = "putc"
  /\ UNCHANGED <<vars, typed, taken, buffer, awake, seen, lost, stranded>>

\* UART0_DATA = c
PutcData == pc = "putc" /\ Put

\* The keys in the UART, the oldest one first.
Waiting == [k \in 1 .. read_count |->
              read_fifo[(read_pos + k - 1) % nxp_uart_get_fifo_depth]]

\* A reset of the machine, which the main loop carries out.  The multiplexer
\* is not part of the machine.
MachineReset ==
  /\ nxp_uart_reset
  /\ pc' = "flag" /\ awake' = TRUE
  /\ lost' = lost \cup Range(Waiting)
  /\ stranded' = stranded \cup Range(buffer)
  /\ UNCHANGED <<typed, taken, buffer, seen>>

ConsoleNext ==
  \/ Type \/ MainLoopPoll \/ MainLoopRead
  \/ GetcFlag \/ GetcData \/ Putstr \/ PutcFlag \/ PutcData
  \/ MachineReset

\* The main loop and the CPU keep running, and a text ends.
ConsoleSpec ==
  /\ ConsoleInit /\ [][ConsoleNext]_consoleVars
  /\ WF_consoleVars(MainLoopPoll) /\ WF_consoleVars(MainLoopRead)
  /\ WF_consoleVars(GetcFlag) /\ WF_consoleVars(GetcData) /\ WF_consoleVars(PutcFlag)
  /\ SF_consoleVars((Putstr \/ PutcData) /\ pc' = "flag")

-----------------------------------------------------------------------------
InHand == seen \o Waiting \o buffer

\* Every key that the main loop has read was returned by UART_getc once, or waits
\* in the UART or in the multiplexer, or was in the UART when the machine was
\* reset; the keys stay in order, and the buffer of the multiplexer suffices.
\* The main loop acts on an answer of mux_chr_can_read that is old by then.
KeysConserved ==
  /\ \A i, j \in DOMAIN InHand : i < j => InHand[i] < InHand[j]
  /\ Range(InHand) \cup lost = 1 .. taken
  /\ Range(InHand) \cap lost = {}
  /\ Len(buffer) <= MUX_BUFFER_SIZE

\* Every key that is typed reaches the firmware, unless a reset finds it in the
\* UART or in the multiplexer: the main loop does not sleep for ever on a console
\* that was full when it asked, and the multiplexer does not keep a key that the
\* UART has room for (qemu_chr_fe_accept_input, at the end of
\* nxp_uart_read_rxdata), and a key that is typed while the firmware prints does
\* not hold up UART_putc.
KeysReachFirmware ==
  \A k \in Byte : typed >= k ~> k \in Range(seen) \cup lost \cup stranded

\* The UART has room for a key that the multiplexer stores: a reset emptied it,
\* and nxp_uart_reset does not call qemu_chr_fe_accept_input.
Stalled == buffer # <<>> /\ nxp_uart_can_receive(Rx) # 0

\* Keys that a reset left in the multiplexer move on when the next key is typed,
\* even when its buffer is full (mux_chr_can_read asks the UART then, and
\* mux_chr_read begins with the stored keys).
StallEnds == Stalled /\ taken < typed ~> ~Stalled
=============================================================================
