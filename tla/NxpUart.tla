------------------------------ MODULE NxpUart -------------------------------
(***************************************************************************)
(* The UART of the board (hw/char/nxps32k3x8evb_uart.c) between the guest, *)
(* which reads and writes its registers, and the character backend of      *)
(* QEMU.  A backend on a file asks how much the UART can receive at the    *)
(* start of an iteration of the main loop (Poll) and delivers later in it  *)
(* (Receive): the guest runs in between.  A multiplexer (-nographic) asks  *)
(* before every byte, and stores what the UART cannot take (MuxReceive).   *)
(*                                                                         *)
(* Registers that are sets of bits are sets of the names of the bits that  *)
(* something depends on.  ILPR, IBRD, FBRD, IFLS and DMACR are only stored *)
(* (read_trigger is 1 whatever IFLS says), and a received item is a byte   *)
(* or BE, the value DR_BE of a BREAK.                                      *)
(***************************************************************************)
EXTENDS Integers, Sequences

CONSTANTS
  NXP_UART_FIFO_DEPTH,  \* 16, a power of two
  Byte,                 \* the bytes that are received
  BE,                   \* DR_BE
  ModemOutput,          \* the modem outputs of CR that the guest uses
  Mask,                 \* the sets of interrupts it enables or acknowledges
  MaxCount              \* BOUND on read_count

ASSUME UartAssumption ==
  /\ NXP_UART_FIFO_DEPTH \in Nat \ {0, 1}
  /\ BE \notin Byte \cup {0} /\ Byte # {}
  /\ ModemOutput \subseteq {"OUT2", "OUT1", "RTS", "DTR"}
  /\ MaxCount \in Nat

\* Not a value of DR.
NoItem == -1

\* 0 is what read_fifo holds at first.
Item == Byte \cup {0, BE}

\* FR.RI <= CR.Out2 and so on; the interrupts have the names of the flags.
ModemInput(o) == CASE o = "OUT2" -> "RI" [] o = "OUT1" -> "DCD"
                   [] o = "RTS" -> "CTS" [] o = "DTR" -> "DSR"

ModemInputs(cr_) == {ModemInput(o) : o \in cr_ \cap ModemOutput}

Interrupt == {"RX", "TX"} \cup ModemInputs(ModemOutput)

ASSUME MaskAssumption == Mask \subseteq SUBSET Interrupt

VARIABLES
  read_fifo, read_pos, read_count,
  flags,                \* FR
  int_level, int_enabled,
  irq,                  \* the combined interrupt line, the one that is wired
  lcr, cr, rsr,         \* subsets of {"FEN", "BRK"}, of {"LBE"} and outputs, of {BE}
  max_size,             \* what the backend was told it may deliver
  data                  \* what the last read of DR since a reset returned

rxVars == <<read_fifo, read_pos, read_count, flags, int_level, irq>>

vars == <<rxVars, int_enabled, lcr, cr, rsr, max_size, data>>

read_trigger == 1

nxp_uart_get_fifo_depth == IF "FEN" \in lcr THEN NXP_UART_FIFO_DEPTH ELSE 1

nxp_uart_loopback_enabled == "LBE" \in cr

Init ==
  /\ read_fifo = [i \in 0 .. NXP_UART_FIFO_DEPTH - 1 |-> 0]
  /\ read_pos = 0 /\ read_count = 0
  /\ flags = {"RXFE", "TXFE"}
  /\ int_level = {} /\ int_enabled = {} /\ irq = FALSE
  /\ lcr = {} /\ cr = {} /\ rsr = {}
  /\ max_size = 0 /\ data = NoItem

-----------------------------------------------------------------------------
(***************************************************************************)
(* The receiver as a record, for the handlers that put several items.      *)
(***************************************************************************)
Rx == [read_fifo |-> read_fifo, read_pos |-> read_pos, read_count |-> read_count,
       flags |-> flags, int_level |-> int_level, irq |-> irq]

SetRx(s) ==
  /\ read_fifo' = s.read_fifo /\ read_pos' = s.read_pos
  /\ read_count' = s.read_count /\ flags' = s.flags
  /\ int_level' = s.int_level /\ irq' = s.irq

\* nxp_uart_update: the line after the pending interrupts became level.
nxp_uart_update(level, enabled) == level \cap enabled # {}

\* A put that leaves the flags as they are.
nxp_uart_fifo_rx_put_flags(s, value) ==
  [s EXCEPT !.read_fifo[(s.read_pos + s.read_count) % nxp_uart_get_fifo_depth] = value,
            !.read_count = @ + 1]

\* A put that takes the first slot for the oldest item.
nxp_uart_fifo_rx_put_slot(s, value) ==
  LET count == s.read_count + 1
      level == s.int_level \cup {"RX"}
      put == [s EXCEPT
        !.read_fifo[s.read_count % nxp_uart_get_fifo_depth] = value,
        !.read_count = count,
        !.flags = (@ \ {"RXFE"}) \cup (IF count = nxp_uart_get_fifo_depth
                                         THEN {"RXFF"} ELSE {})]
  IN IF count = read_trigger
       THEN [put EXCEPT !.int_level = level, !.irq = nxp_uart_update(level, int_enabled)]
       ELSE put

nxp_uart_fifo_rx_put(s, value) ==
  LET count == s.read_count + 1
      level == s.int_level \cup {"RX"}
      put == [s EXCEPT
        !.read_fifo[(s.read_pos + s.read_count) % nxp_uart_get_fifo_depth] = value,
        !.read_count = count,
        !.flags = (@ \ {"RXFE"}) \cup (IF count = nxp_uart_get_fifo_depth
                                         THEN {"RXFF"} ELSE {})]
  IN IF count = read_trigger
       THEN [put EXCEPT !.int_level = level, !.irq = nxp_uart_update(level, int_enabled)]
       ELSE put

nxp_uart_reset_rx_fifo(s) ==
  [s EXCEPT !.read_count = 0, !.read_pos = 0, !.flags = (@ \ {"RXFF"}) \cup {"RXFE"}]

nxp_uart_reset_tx_fifo(s) == [s EXCEPT !.flags = (@ \ {"TXFF"}) \cup {"TXFE"}]

nxp_uart_loopback_tx(s, value) ==
  IF nxp_uart_loopback_enabled THEN nxp_uart_fifo_rx_put(s, value) ELSE s

\* The receiver after each round of the loop over buf.
Puts(s, buf) ==
  LET put[i \in 0 .. Len(buf)] ==
        IF i = 0 THEN s ELSE nxp_uart_fifo_rx_put(put[i - 1], buf[i])
  IN put

nxp_uart_receive(s, buf) ==
  IF nxp_uart_loopback_enabled THEN s ELSE Puts(s, buf)[Len(buf)]

\* An answer that does not look at what is in the FIFO.
nxp_uart_can_receive_depth(s) == nxp_uart_get_fifo_depth

\* Negative when more was put than the FIFO holds.
nxp_uart_can_receive(s) == nxp_uart_get_fifo_depth - s.read_count

\* A multiplexer passes bytes on one by one, each time that can_receive is not
\* zero: as many as there is room for, but any number when it is negative or
\* the bytes do not arrive.
Accepts(s, buf) ==
  /\ s.read_count + Len(buf) <= MaxCount
  /\ \/ Len(buf) <= nxp_uart_can_receive(s)
     \/ nxp_uart_can_receive(s) < 0
     \/ nxp_uart_loopback_enabled /\ nxp_uart_can_receive(s) # 0

-----------------------------------------------------------------------------
(***************************************************************************)
(* The guest.                                                              *)
(***************************************************************************)
\* A write of DR.  The byte also goes to the backend, whatever CR says.
nxp_uart_write_txdata(byte) ==
  LET s == nxp_uart_loopback_tx(Rx, byte)
      level == s.int_level \cup {"TX"}
  IN /\ s.read_count <= MaxCount
     /\ SetRx([s EXCEPT !.int_level = level, !.irq = nxp_uart_update(level, int_enabled)])
     /\ UNCHANGED <<int_enabled, lcr, cr, rsr, max_size, data>>

\* A read of DR that acknowledges the interrupt whatever is left.
DrReadAck(s) ==
  LET count == IF s.read_count > 0 THEN s.read_count - 1 ELSE 0
      level == s.int_level \ {"RX"}
  IN [s EXCEPT !.read_count = count,
               !.read_pos = IF s.read_count > 0 THEN (@ + 1) % nxp_uart_get_fifo_depth ELSE @,
               !.flags = (@ \ {"RXFF"}) \cup (IF count = 0 THEN {"RXFE"} ELSE {}),
               !.int_level = level, !.irq = nxp_uart_update(level, int_enabled)]

\* The receiver after a read of DR, before the backend hears of it.
DrRead(s) ==
  LET count == IF s.read_count > 0 THEN s.read_count - 1 ELSE 0
      level == IF count = read_trigger - 1 THEN s.int_level \ {"RX"} ELSE s.int_level
  IN [s EXCEPT !.read_count = count,
               !.read_pos = IF s.read_count > 0 THEN (@ + 1) % nxp_uart_get_fifo_depth ELSE @,
               !.flags = (@ \ {"RXFF"}) \cup (IF count = 0 THEN {"RXFE"} ELSE {}),
               !.int_level = level, !.irq = nxp_uart_update(level, int_enabled)]

\* A read of DR.  At its end qemu_chr_fe_accept_input lets a backend that has
\* bytes in store deliver them.
nxp_uart_read_rxdata(refill) ==
  /\ Accepts(DrRead(Rx), refill)
  /\ data' = read_fifo[read_pos]
  /\ rsr' = {data'} \cap {BE}
  /\ SetRx(nxp_uart_receive(DrRead(Rx), refill))
  /\ UNCHANGED <<int_enabled, lcr, cr, max_size>>

WriteECR == rsr' = {} /\ UNCHANGED <<rxVars, int_enabled, lcr, cr, max_size, data>>

\* A BREAK in loopback mode is put while lcr still has its old value.
WriteLCR(value) ==
  LET s == IF ("FEN" \in lcr) # ("FEN" \in value)
             THEN nxp_uart_reset_tx_fifo(nxp_uart_reset_rx_fifo(Rx)) ELSE Rx
      t == IF "BRK" \in value \ lcr THEN nxp_uart_loopback_tx(s, BE) ELSE s
  IN /\ t.read_count <= MaxCount
     /\ SetRx(t)
     /\ lcr' = value
     /\ UNCHANGED <<int_enabled, cr, rsr, max_size, data>>

\* Loopback of the modem outputs in nxp_uart_loopback_mdmctrl.
WriteCR(value) ==
  LET Looped(bits) == (bits \ ModemInputs(ModemOutput)) \cup ModemInputs(value)
  IN /\ cr' = value
     /\ IF "LBE" \in value
          THEN /\ flags' = Looped(flags) /\ int_level' = Looped(int_level)
               /\ irq' = nxp_uart_update(int_level', int_enabled)
          ELSE UNCHANGED <<flags, int_level, irq>>
     /\ UNCHANGED <<read_fifo, read_pos, read_count, int_enabled, lcr, rsr, max_size, data>>

\* An enable that waits for the next event to raise the line.
WriteIMSCLazy(value) ==
  /\ int_enabled' = value
  /\ UNCHANGED <<rxVars, lcr, cr, rsr, max_size, data>>

WriteIMSC(value) ==
  /\ int_enabled' = value
  /\ irq' = nxp_uart_update(int_level, value)
  /\ UNCHANGED <<read_fifo, read_pos, read_count, flags, int_level, lcr, cr, rsr,
                 max_size, data>>

WriteICR(value) ==
  /\ int_level' = int_level \ value
  /\ irq' = nxp_uart_update(int_level', int_enabled)
  /\ UNCHANGED <<read_fifo, read_pos, read_count, flags, int_enabled, lcr, cr, rsr,
                 max_size, data>>

-----------------------------------------------------------------------------
(***************************************************************************)
(* The backend, and the reset.                                             *)
(***************************************************************************)
\* fd_chr_read_poll, at the start of every iteration of the main loop.
Poll ==
  /\ max_size' = nxp_uart_can_receive(Rx)
  /\ UNCHANGED <<rxVars, int_enabled, lcr, cr, rsr, data>>

\* fd_chr_read: at most max_size bytes, and once in the iteration.
Receive(buf) ==
  /\ Len(buf) <= max_size
  /\ read_count + Len(buf) <= MaxCount
  /\ SetRx(nxp_uart_receive(Rx, buf))
  /\ max_size' = 0
  /\ UNCHANGED <<int_enabled, lcr, cr, rsr, data>>

\* mux_chr_read, which asks and delivers at once.
MuxReceive(buf) ==
  /\ Accepts(Rx, buf)
  /\ SetRx(nxp_uart_receive(Rx, buf))
  /\ UNCHANGED <<int_enabled, lcr, cr, rsr, max_size, data>>

\* CHR_EVENT_BREAK
nxp_uart_event ==
  /\ read_count < MaxCount
  /\ SetRx(IF nxp_uart_loopback_enabled THEN Rx ELSE nxp_uart_fifo_rx_put(Rx, BE))
  /\ UNCHANGED <<int_enabled, lcr, cr, rsr, max_size, data>>

\* The interrupt line is left as it is.
nxp_uart_reset ==
  /\ lcr' = {} /\ rsr' = {} /\ cr' = {} /\ int_enabled' = {}
  /\ SetRx(nxp_uart_reset_tx_fifo(nxp_uart_reset_rx_fifo(
             [Rx EXCEPT !.flags = {}, !.int_level = {}])))
  /\ data' = NoItem
  /\ UNCHANGED max_size

Burst == UNION {[1 .. k -> Byte] : k \in 1 .. NXP_UART_FIFO_DEPTH}

Next ==
  \/ \E b \in Byte : nxp_uart_write_txdata(b)
  \/ \E refill \in Burst \cup {<<>>} : nxp_uart_read_rxdata(refill)
  \/ WriteECR
  \/ \E v \in SUBSET {"FEN", "BRK"} : WriteLCR(v)
  \/ \E v \in SUBSET ({"LBE"} \cup ModemOutput) : WriteCR(v)
  \/ \E v \in Mask : WriteIMSC(v) \/ WriteICR(v)
  \/ Poll
  \/ \E buf \in Burst : Receive(buf) \/ MuxReceive(buf)
  \/ nxp_uart_event
  \/ nxp_uart_reset

Spec == Init /\ [][Next]_vars

-----------------------------------------------------------------------------
\* Whatever is put, and however often the FIFO is switched on and off, the
\* index of the next item lies within the part of read_fifo that is in use.
TypeOK ==
  /\ read_fifo \in [0 .. NXP_UART_FIFO_DEPTH - 1 -> Item]
  /\ read_pos \in 0 .. nxp_uart_get_fifo_depth - 1
  /\ read_count \in 0 .. MaxCount
  /\ flags \subseteq {"RXFE", "RXFF", "TXFE"} \cup ModemInputs(ModemOutput)
  /\ int_level \subseteq Interrupt /\ int_enabled \subseteq Interrupt
  /\ irq \in BOOLEAN /\ rsr \subseteq {BE}
  /\ lcr \subseteq {"FEN", "BRK"} /\ cr \subseteq {"LBE"} \cup ModemOutput
  /\ max_size \in -MaxCount .. NXP_UART_FIFO_DEPTH
  /\ data \in Item \cup {NoItem}

\* RXFE, the flag UART_getc waits for, is set exactly while there is nothing to
\* read, and the FIFO is never flagged both empty and full, through overruns,
\* loopback, resets and changes of the FIFO's depth.
FlagsTellFifo ==
  /\ TypeOK
  /\ "RXFE" \in flags <=> read_count = 0
  /\ ~({"RXFE", "RXFF"} \subseteq flags)

\* An interrupt that is pending and enabled has its line raised: no handler
\* changes int_level or int_enabled in a way that needs the line and leaves
\* nxp_uart_update out.
NoLostInterrupt == int_level \cap int_enabled # {} => irq

\* Received data has its interrupt pending until the guest acknowledges it in
\* ICR or reads the FIFO empty: data without it does not come from a step that
\* receives, reads or resets, though only the first put of several raises it.
RxPending ==
  [][read_count' > 0 /\ "RX" \notin int_level' =>
       \/ read_count > 0 /\ "RX" \notin int_level
       \/ UNCHANGED <<read_fifo, read_pos, read_count>>]_vars

\* The ring buffer, its indices and the two depths are a queue.
Q == INSTANCE UartQueue WITH
       Break <- BE,
       Burst <- Burst \cup {<<>>, <<BE>>},
       Capacity <- {1, NXP_UART_FIFO_DEPTH},
       queue <- [k \in 1 .. read_count |->
                   read_fifo[(read_pos + k - 1) % nxp_uart_get_fifo_depth]],
       capacity <- nxp_uart_get_fifo_depth

\* What the guest reads from DR is what was received, in the order it was
\* received; nothing disappears but in a reset, a change of the depth or beyond
\* the depth of the FIFO (nxp_uart_fifo_rx_put does not look whether it is full).
ImplementsQueue == Q!Spec

\* "Sanity-check input state": the states nxp_uart_post_load accepts.
SaneForMigration ==
  read_pos < NXP_UART_FIFO_DEPTH /\ read_count <= NXP_UART_FIFO_DEPTH
=============================================================================
