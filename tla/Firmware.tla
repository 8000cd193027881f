------------------------------ MODULE Firmware ------------------------------
(***************************************************************************)
(* The firmware of firmware/main.c driving the TPM device: the menu loop,  *)
(* tpm_send_command and tpm_read_response, one register access per step,   *)
(* composed with the register window (Tpm2Fifo, which Tpm2Mmio implements) *)
(* and the command chain (Tpm2Chain).  The machine may be reset between    *)
(* any two accesses: the firmware starts again at main and the device is   *)
(* reset, but its NV bank, its primary key and its handle counter stay.    *)
(*                                                                         *)
(* A word of a command is the record of its halves that the window looks   *)
(* at, the menu option it belongs to and its position in the command.      *)
(***************************************************************************)
EXTENDS Tpm2Chain

CONSTANTS
  Option,           \* the characters of the menu
  Menu,             \* option -> [len, command]: sizeof the array, and what it says
  OtherKey,         \* a character that is no option
  RESPONSE_BUFFER   \* sizeof(response_buffer) in main (1024)

VARIABLES mode, inq, outq, rdata

NoCommand == [code |-> "none", size |-> 0]

F == INSTANCE Tpm2Fifo WITH Word <- {}, Response <- {}, Junk <- {<<>>}

deviceVars == <<chainVars, mode, inq, outq, rdata>>

VARIABLES
  pc,               \* the next statement of the firmware
  c,                \* the option that was typed
  sent,             \* words of the command written so far
  got,              \* the words read so far
  resp_size,        \* what tpm_read_response returned
  FR                \* the flags of the UART, whose FIFO is off (Console)

firmwareVars == <<pc, c, sent, got, resp_size, FR>>

allVars == <<deviceVars, firmwareVars>>

ASSUME MenuAssumption ==
  /\ \A o \in Option : /\ Menu[o].command \in Command
                       /\ Menu[o].len \in Nat \ {0} /\ F!Padded(Menu[o].len) <= BufSize
  /\ OtherKey \notin Option
  /\ RESPONSE_BUFFER \in Nat /\ BufSize <= RESPONSE_BUFFER

\* The flags without and with a key in the receiver.
NoKeyFlags == {"RXFE", "TXFE"}

KeyFlags == {"RXFF", "TXFE"}

FirmwareInit ==
  /\ Init /\ command = NoCommand
  /\ F!Init
  /\ pc = "menu" /\ c = OtherKey /\ sent = 0 /\ got = <<>> /\ resp_size = 0
  /\ FR = NoKeyFlags

-----------------------------------------------------------------------------
\* The size field is in the low half of word 0 and the high half of word 1.
CommandWord(o, k) ==
  [hi |-> IF k = 1 THEN Menu[o].command.size ELSE 0, lo |-> 0,
   option |-> o, pos |-> k]

\* The window refuses the array of option o: it is shorter than it announces.
TooShort(o) ==
  F!Malformed([k \in 1 .. (F!Padded(Menu[o].len) \div 4) |-> CommandWord(o, k - 1)])

\* The window accepts it, and so do the checks of the chain.
WellFormed(o) == ~TooShort(o) /\ Passes(ChainChecks(Menu[o].command))

\* What the arrays of main.c have in common, whatever their sizes: the primary
\* key is always the owner's, option 5 reads what option 4 writes and no other
\* option writes, and the negative tests ask for what their names say.
ASSUME TestAssumption ==
  LET cmd(o) == Menu[o].command
  IN /\ \A o \in Option : cmd(o).code = "TPM_CC_CreatePrimary" =>
          cmd(o).primaryHandle = "TPM_RH_OWNER" /\ TypeIsEcc(cmd(o)) = {TRUE}
     /\ \A o \in Option \ {"4"} : cmd(o).code = "TPM_CC_NV_Write" => TooShort(o)
     /\ "5" \in Option =>
          /\ WellFormed("5") /\ cmd("5").code = "TPM_CC_NV_Read"
          /\ cmd("5").nvIndex = cmd("4").nvIndex /\ cmd("5").offset = cmd("4").offset
          /\ cmd("5").sizeToRead = cmd("4").data.size
          /\ 12 + cmd("5").sizeToRead <= BufSize
     /\ \A o \in Option \cap {"6", "9", "a"} : TooShort(o)
     /\ \A o \in Option \cap {"7", "c"} :
          /\ WellFormed(o) /\ cmd(o).code = "TPM_CC_GetRandom"
          /\ cmd(o).bytesRequested > RANDOM_SIZE
     /\ "8" \in Option =>
          /\ WellFormed("8") /\ cmd("8").code = "TPM_CC_NV_Read"
          /\ cmd("8").nvIndex = cmd("4").nvIndex /\ cmd("8").nvIndex # TEST_INDEX
          /\ \A o \in Option :
               cmd(o).code = "TPM_CC_NV_DefineSpace" /\ cmd(o).nvIndex = cmd("8").nvIndex =>
                 cmd("8").offset + cmd("8").sizeToRead > cmd(o).dataSize
     /\ "b" \in Option =>
          /\ WellFormed("b") /\ cmd("b").code = "TPM_CC_NV_Read"
          /\ cmd("b").nvIndex # TEST_INDEX
          /\ \A o \in Option : cmd(o).code = "TPM_CC_NV_DefineSpace" =>
               cmd(o).nvIndex # cmd("b").nvIndex

\* A key is typed, at any time, and the UART takes it.
KeyTyped ==
  /\ "RXFE" \in FR /\ FR' = KeyFlags
  /\ UNCHANGED <<deviceVars, pc, c, sent, got, resp_size>>

\* UART_getc and the switch of main.
Select(o) ==
  /\ pc = "menu" /\ "RXFE" \notin FR /\ FR' = NoKeyFlags
  /\ c' = o
  /\ pc' = IF o \in Option THEN "ctrl" ELSE "menu"
  /\ sent' = 0 /\ got' = <<>> /\ resp_size' = 0
  /\ UNCHANGED deviceVars

\* TPM2_CTRL_REG = 1
SendStart ==
  /\ pc = "ctrl"
  /\ F!Start
  /\ pc' = "data"
  /\ UNCHANGED <<chainVars, c, sent, got, resp_size, FR>>

\* The device ignores a word it does not expect.
WriteData(w) ==
  IF mode = "RECEIVING" THEN F!Push(w) ELSE UNCHANGED <<mode, inq, outq, rdata>>

\* A loop that sends one word too many.
SendWordExtra ==
  /\ pc = "data"
  /\ WriteData(CommandWord(c, sent))
  /\ sent' = sent + 1
  /\ pc' = IF 4 * sent' <= F!Padded(Menu[c].len) THEN "data" ELSE "cmd"
  /\ UNCHANGED <<chainVars, c, got, resp_size, FR>>

\* TPM2_DATA_REG = word
SendWord ==
  /\ pc = "data"
  /\ WriteData(CommandWord(c, sent))
  /\ sent' = sent + 1
  /\ pc' = IF 4 * sent' < F!Padded(Menu[c].len) THEN "data" ELSE "cmd"
  /\ UNCHANGED <<chainVars, c, got, resp_size, FR>>

\* TPM2_CMD_REG = 1: the device carries out the command in its buffer before
\* the write returns.
SendExecute ==
  /\ pc = "cmd"
  /\ IF mode # "RECEIVING" THEN F!ExecuteInvalid /\ UNCHANGED chainVars
     ELSE \/ /\ F!Malformed(inq)
             /\ rsp' = ErrorResponse("TPM_RC_COMMAND_SIZE")
             /\ F!Execute(rsp')
             /\ UNCHANGED <<nvState, primary, next_transient_handle, command>>
          \/ /\ ~F!Malformed(inq)
             /\ command' = Menu[inq[1].option].command
             /\ tpm2_process_command(command')
             /\ F!Execute(rsp')
  /\ pc' = "poll"
  /\ UNCHANGED <<c, sent, got, resp_size, FR>>

-----------------------------------------------------------------------------
\* A loop that waits for the wrong state.
PollIdle ==
  /\ pc = "poll" /\ mode = "IDLE"
  /\ pc' = "check"
  /\ UNCHANGED <<deviceVars, c, sent, got, resp_size, FR>>

\* while (TPM2_STATUS_REG == TPM_STATE_PROCESSING)
PollProcessing ==
  /\ pc = "poll" /\ mode # "PROCESSING"
  /\ pc' = "check"
  /\ UNCHANGED <<deviceVars, c, sent, got, resp_size, FR>>

\* if (TPM2_STATUS_REG != TPM_STATE_SENDING) return 0
CheckSending ==
  /\ pc = "check"
  /\ pc' = IF mode = "SENDING" THEN "header" ELSE "show"
  /\ UNCHANGED <<deviceVars, c, sent, got, resp_size, FR>>

\* word = TPM2_DATA_REG
ReadData ==
  /\ IF mode = "SENDING" THEN F!Pop ELSE F!PopNothing
  /\ got' = Append(got, rdata')
  /\ UNCHANGED <<chainVars, c, sent, FR>>

ReadHeader ==
  /\ pc = "header"
  /\ ReadData
  /\ pc' = IF Len(got') < 3 THEN "header" ELSE "size"
  /\ UNCHANGED resp_size

\* The size field of the response: its halves 1 and 2.  A register that
\* gave no data read as zero.
actual_size ==
  IF got[1][2] = F!Stale \/ got[2][1] = F!Stale THEN 0 ELSE got[1][2][1].size

\* The size is checked once the header is there.
CheckSize ==
  /\ pc = "size"
  /\ IF actual_size > RESPONSE_BUFFER \/ actual_size < 10
       THEN pc' = "show" /\ resp_size' = 12
       ELSE /\ pc' = IF 12 < F!Padded(actual_size) THEN "status" ELSE "show"
            /\ resp_size' = actual_size
  /\ UNCHANGED <<deviceVars, c, sent, got, FR>>

\* A loop that does not look at the state again.
CheckStillSendingNever ==
  /\ pc = "status"
  /\ pc' = "data2"
  /\ UNCHANGED <<deviceVars, c, sent, got, resp_size, FR>>

\* "TPM stopped sending early"
CheckStillSending ==
  /\ pc = "status"
  /\ IF mode = "SENDING"
       THEN pc' = "data2" /\ UNCHANGED resp_size
       ELSE /\ pc' = "show"
            /\ resp_size' = IF actual_size < 4 * Len(got) THEN actual_size
                                                        ELSE 4 * Len(got)
  /\ UNCHANGED <<deviceVars, c, sent, got, FR>>

\* A loop that stops at the unpadded size.
ReadRestUnpadded ==
  /\ pc = "data2"
  /\ ReadData
  /\ pc' = IF 4 * Len(got') + 3 < actual_size THEN "status" ELSE "show"
  /\ UNCHANGED resp_size

ReadRest ==
  /\ pc = "data2"
  /\ ReadData
  /\ pc' = IF 4 * Len(got') < F!Padded(actual_size) THEN "status" ELSE "show"
  /\ UNCHANGED resp_size

\* A UART_putc that waits while the receiver is full, as uart.h names the flag.
ShowReceiverFull ==
  /\ pc = "show" /\ (resp_size > 0 => "RXFF" \notin FR)
  /\ pc' = "menu"
  /\ UNCHANGED <<deviceVars, c, sent, got, resp_size, FR>>

\* parse_response_header; UART_print_hex, if there is a response; and round the
\* loop of main.  UART_print_hex prints with UART_putc, which waits while bit 5
\* of the flags is set: uart.h names it UART_F_RXFF, but in the device it is
\* TXFF, which is never set (FlagsTellFifo).
Show ==
  /\ pc = "show" /\ (resp_size > 0 => "TXFF" \notin FR)
  /\ pc' = "menu"
  /\ UNCHANGED <<deviceVars, c, sent, got, resp_size, FR>>

\* A reset that loses the primary key.
SystemResetKey ==
  /\ F!Reset
  /\ pc' = "menu" /\ c' = OtherKey /\ sent' = 0 /\ got' = <<>> /\ resp_size' = 0
  /\ FR' = NoKeyFlags
  /\ primary' = NoKey
  /\ UNCHANGED <<nvState, next_transient_handle, rsp, command>>

\* tpm2_reset, nxp_uart_reset and a restart of the firmware.
SystemReset ==
  /\ F!Reset
  /\ pc' = "menu" /\ c' = OtherKey /\ sent' = 0 /\ got' = <<>> /\ resp_size' = 0
  /\ FR' = NoKeyFlags
  /\ UNCHANGED chainVars

FirmwareStep ==
  \/ SendStart \/ SendWord \/ SendExecute
  \/ PollProcessing \/ CheckSending \/ ReadHeader \/ CheckSize
  \/ CheckStillSending \/ ReadRest \/ Show

FirmwareNext ==
  \/ \E o \in Option \cup {OtherKey} : Select(o)
  \/ FirmwareStep
  \/ KeyTyped \/ SystemReset

\* The CPU keeps running the firmware; nobody has to type, or to reset.
FirmwareSpec ==
  FirmwareInit /\ [][FirmwareNext]_allVars /\ WF_allVars(FirmwareStep)

-----------------------------------------------------------------------------
\* When the firmware writes CMD_REG the device is receiving and its buffer
\* holds the words of the command that was typed, all of them, in order and
\* nothing else, whatever a reset cut short before (tpm_send_command does not
\* wait for the device to accept CTRL_REG = 1: the wait is commented out).
CommandArrives ==
  pc = "cmd" =>
    /\ mode = "RECEIVING"
    /\ inq = [k \in 1 .. (F!Padded(Menu[c].len) \div 4) |-> CommandWord(c, k - 1)]

\* What the firmware prints is the response to the command, from its first
\* byte to its last and no byte more, and the device is idle again with no
\* word of it left: the "did not enter SENDING", "buffer too small", "invalid
\* size" and "stopped sending early" exits of tpm_read_response are never
\* taken, and padding never passes for response bytes.
AnswerWhole ==
  pc = "show" =>
    /\ resp_size = rsp.size
    /\ 4 * Len(got) = F!Padded(rsp.size)
    /\ \A i \in 0 .. ((rsp.size - 1) \div 2) : got[(i \div 2) + 1][(i % 2) + 1] = <<rsp, i>>
    /\ mode = "IDLE" /\ outq = <<>>

\* Once option 4 has written "TEST", option 5 shows it, for ever: after other
\* commands, after the primary key was created again, after a reset of the
\* machine in the middle of any command (tpm2_reset keeps the bank and the key,
\* and tpm2_CreatePrimary derives the same key again from the owner's seed).
TestReadsBack ==
  pc = "show" /\ c = "5" /\ live # {} =>
    /\ rsp.code = "TPM_RC_SUCCESS"
    /\ rsp.body = Menu["4"].command.data.buffer

\* The negative tests of the menu are refused, in whatever order they are chosen
\* and whatever was defined and written before, and none of them writes to the
\* bank or shows bytes of it.  Where the comment above a test names the response
\* code and the device gives it, the code is stated too; the read beyond the
\* index gets its code once option 4 has written there, the other two tests with
\* another code are those of TestsAnswerAsCommented.
NegativeTestsRefused ==
  /\ pc = "show" =>
       /\ c = "6" => rsp.code = "TPM_RC_COMMAND_SIZE"
       /\ c \in {"7", "c"} => rsp.code = "TPM_RC_SIZE"
       /\ c = "8" /\ live # {} => rsp.code = "TPM_RC_NV_RANGE"
       /\ c \in {"8", "9", "a", "b"} => rsp.code # "TPM_RC_SUCCESS"
  /\ \A w \in live : w.data = Menu["4"].command.data

\* The comments above CMD_NV_WRITE_OVERSIZE and CMD_NV_READ_UNINIT in main.c:
\* the former is refused by the unmarshalling ("Unmarshal fails with
\* TPM_RC_INSUFFICIENT or TPM_RC_SIZE"), the latter because its index is not
\* written ("Return TPM_RC_NV_UNINITIALIZED").  In the code the former is shorter
\* than it announces, which the window refuses, and the index of the latter is
\* not defined at all.
TestsAnswerAsCommented ==
  pc = "show" =>
    /\ c = "9" => rsp.code \in {"TPM_RC_INSUFFICIENT", "TPM_RC_SIZE"}
    /\ c = "b" => rsp.code = "TPM_RC_NV_UNINITIALIZED"

\* Whatever was typed, the firmware comes back to its menu: it never waits for
\* ever for the device, its read loops end, and a key that is typed meanwhile
\* does not stop its output (or the machine is reset).
BackToMenu == pc = "ctrl" ~> pc = "menu"
=============================================================================
