------------------------------ MODULE Tpm2Mmio ------------------------------
(***************************************************************************)
(* The register window of the TPM device: tpm2_mmio_read, tpm2_mmio_write, *)
(* tpm2_reset and the two response builders of hw/tpm/tpm_hw.c.  Each      *)
(* action is one register access, or a reset of the device; QEMU runs each *)
(* of them to its end before the next one.                                 *)
(*                                                                         *)
(* command_buffer is kept as the 32-bit words the guest stores,            *)
(* response_buffer as 16-bit halves, because an error response ends in the *)
(* middle of a word.  What tpm2_process_command computes is left open: it  *)
(* may answer with any response, except that it refuses a command shorter  *)
(* than its header.                                                        *)
(***************************************************************************)
EXTENDS Naturals

CONSTANTS
  BufSize,    \* sizeof(command_buffer) = sizeof(response_buffer), in bytes
  Word,       \* the values a guest writes to DATA_REG
  ZeroWord,   \* the word whose four bytes are zero
  Response    \* the responses tpm2_process_command can build

TPM_CMD_HEADER_SIZE == 10

TPM_RSP_HEADER_SIZE == 10

\* (n + 3) & ~3
Padded(n) == 4 * ((n + 3) \div 4)

ErrorResponse(rc) == [code |-> rc, size |-> TPM_RSP_HEADER_SIZE, body |-> <<>>]

\* Both buffers hold whole words, and at least a padded header.
ASSUME BufSizeAssumption ==
  BufSize \in Nat /\ BufSize % 4 = 0 /\ BufSize >= 12

\* The halves of a word are numbers.
ASSUME WordAssumption ==
  /\ ZeroWord \in Word
  /\ \A w \in Word : w.hi \in Nat /\ w.lo \in Nat
  /\ ZeroWord.hi = 0 /\ ZeroWord.lo = 0

\* Every response has a header and fits the buffer; one that is not a success
\* is a bare header.
ASSUME ResponseAssumption ==
  /\ ErrorResponse("TPM_RC_COMMAND_SIZE") \in Response
  /\ \A r \in Response :
       /\ r.size \in TPM_RSP_HEADER_SIZE .. BufSize
       /\ r.code # "TPM_RC_SUCCESS" => r.size = TPM_RSP_HEADER_SIZE

Blank == <<>>

Half == {Blank} \cup (Response \X (0 .. (BufSize \div 2 - 1)))

-----------------------------------------------------------------------------
VARIABLES
  state,            \* enum tpm_state
  cmd_size,
  command_buffer,   \* word number -> word
  resp_size,
  resp_idx,
  response_buffer,  \* half number -> half
  rdata             \* the value the last read of DATA_REG since a reset returned

vars == <<state, cmd_size, command_buffer, resp_size, resp_idx,
          response_buffer, rdata>>

CmdWord == 0 .. (BufSize \div 4 - 1)

RespSlot == 0 .. (BufSize \div 2 - 1)

TypeOK ==
  /\ state \in {"IDLE", "READY", "RECEIVING", "PROCESSING", "SENDING"}
  /\ cmd_size \in 0 .. BufSize
  /\ command_buffer \in [CmdWord -> Word]
  /\ resp_size \in 0 .. BufSize
  /\ resp_idx \in 0 .. BufSize
  /\ response_buffer \in [RespSlot -> Half]
  /\ rdata \in Half \X Half

Init ==
  /\ state = "IDLE" /\ cmd_size = 0 /\ resp_size = 0 /\ resp_idx = 0
  /\ command_buffer = [k \in CmdWord |-> ZeroWord]
  /\ response_buffer = [i \in RespSlot |-> Blank]
  /\ rdata = <<Blank, Blank>>

-----------------------------------------------------------------------------
\* A CtrlStart that forgets the response of an earlier command.
CtrlStartKeepsResponse ==
  /\ state' = "RECEIVING"
  /\ cmd_size' = 0
  /\ UNCHANGED <<command_buffer, resp_size, resp_idx, response_buffer, rdata>>

\* Write of 1 to CTRL_REG: start receiving; the buffers keep their contents.
CtrlStart ==
  /\ state' = "RECEIVING"
  /\ cmd_size' = 0 /\ resp_size' = 0 /\ resp_idx' = 0
  /\ UNCHANGED <<command_buffer, response_buffer, rdata>>

\* tpm2_reset: a write of 0 to CTRL_REG, or a reset of the machine.
tpm2_reset ==
  /\ state' = "IDLE"
  /\ cmd_size' = 0 /\ resp_size' = 0 /\ resp_idx' = 0
  /\ command_buffer' = [k \in CmdWord |-> ZeroWord]
  /\ response_buffer' = [i \in RespSlot |-> Blank]
  /\ rdata' = <<Blank, Blank>>

\* Write of 1 to CMD_REG outside RECEIVING.
CmdInvalid ==
  /\ state # "RECEIVING"
  /\ state' = "IDLE"
  /\ UNCHANGED <<cmd_size, command_buffer, resp_size, resp_idx,
                 response_buffer, rdata>>

\* Bytes 2..5 of the command buffer, whoever wrote them.
actual_size == command_buffer[0].lo * 65536 + command_buffer[1].hi

\* build_error_response writes the header only.
build_error_response(r) ==
  /\ response_buffer' =
       [i \in RespSlot |-> IF 2 * i < r.size THEN <<r, i>>
                                             ELSE response_buffer[i]]
  /\ resp_size' = r.size /\ resp_idx' = 0 /\ state' = "SENDING"

\* build_success_response, after the body was marshalled behind the header:
\* the bytes up to the next multiple of four are zeroed and are sent.
build_success_response(r) ==
  /\ response_buffer' =
       [i \in RespSlot |-> IF 2 * i < r.size THEN <<r, i>>
                           ELSE IF 2 * i < Padded(r.size) THEN Blank
                           ELSE response_buffer[i]]
  /\ resp_size' = Padded(r.size) /\ resp_idx' = 0 /\ state' = "SENDING"

\* Write of 1 to CMD_REG while RECEIVING, header announcing too many bytes.
CmdSizeMismatch ==
  /\ state = "RECEIVING"
  /\ actual_size > cmd_size
  /\ build_error_response(ErrorResponse("TPM_RC_COMMAND_SIZE"))
  /\ UNCHANGED <<cmd_size, command_buffer, rdata>>

\* A CmdProcess that does not mind a size below that of a header.
CmdProcessShort(r) ==
  /\ state = "RECEIVING"
  /\ actual_size <= cmd_size
  /\ cmd_size' = actual_size
  /\ IF r.code = "TPM_RC_SUCCESS" THEN build_success_response(r)
                                  ELSE build_error_response(r)
  /\ UNCHANGED <<command_buffer, rdata>>

\* Write of 1 to CMD_REG while RECEIVING: tpm2_process_command answers r.
CmdProcess(r) ==
  /\ state = "RECEIVING"
  /\ actual_size <= cmd_size
  /\ cmd_size' = actual_size
  /\ actual_size < TPM_CMD_HEADER_SIZE
       => r = ErrorResponse("TPM_RC_COMMAND_SIZE")
  /\ IF r.code = "TPM_RC_SUCCESS" THEN build_success_response(r)
                                  ELSE build_error_response(r)
  /\ UNCHANGED <<command_buffer, rdata>>

\* Write of w to DATA_REG while RECEIVING.
DataWrite(w) ==
  /\ state = "RECEIVING"
  /\ IF cmd_size + 4 > BufSize
       THEN state' = "IDLE" /\ UNCHANGED <<command_buffer, cmd_size>>
       ELSE /\ command_buffer' = [command_buffer EXCEPT ![cmd_size \div 4] = w]
            /\ cmd_size' = cmd_size + 4
            /\ UNCHANGED state
  /\ UNCHANGED <<resp_size, resp_idx, response_buffer, rdata>>

\* A DataRead that ends the response one word late.
DataReadLate ==
  /\ state = "SENDING" /\ resp_idx < resp_size
  /\ rdata' = <<response_buffer[resp_idx \div 2],
                response_buffer[resp_idx \div 2 + 1]>>
  /\ IF resp_idx + 4 > resp_size
       THEN state' = "IDLE" /\ resp_idx' = 0 /\ resp_size' = 0
       ELSE resp_idx' = resp_idx + 4 /\ UNCHANGED <<state, resp_size>>
  /\ UNCHANGED <<cmd_size, command_buffer, response_buffer>>

\* Read of DATA_REG while SENDING.
DataRead ==
  /\ state = "SENDING" /\ resp_idx < resp_size
  /\ rdata' = <<response_buffer[resp_idx \div 2],
                response_buffer[resp_idx \div 2 + 1]>>
  /\ IF resp_idx + 4 >= resp_size
       THEN state' = "IDLE" /\ resp_idx' = 0 /\ resp_size' = 0
       ELSE resp_idx' = resp_idx + 4 /\ UNCHANGED <<state, resp_size>>
  /\ UNCHANGED <<cmd_size, command_buffer, response_buffer>>

\* Read of DATA_REG in another state, or with nothing left to send.
DataReadInvalid ==
  /\ state # "SENDING" \/ resp_idx >= resp_size
  /\ rdata' = <<Blank, Blank>>
  /\ UNCHANGED <<state, cmd_size, command_buffer, resp_size, resp_idx,
                 response_buffer>>

Next ==
  \/ CtrlStart \/ tpm2_reset
  \/ CmdInvalid \/ CmdSizeMismatch
  \/ \E r \in Response : CmdProcess(r)
  \/ \E w \in Word : DataWrite(w)
  \/ DataRead \/ DataReadInvalid

Spec == Init /\ [][Next]_vars

-----------------------------------------------------------------------------
\* Reading the response never runs past it: while SENDING there is always a
\* word left, it starts on a word boundary and all four of its bytes lie in
\* response_buffer, also for an error response, whose size is no multiple of
\* four (the indexing of response_buffer in tpm2_mmio_read).
ResponseInBuffer ==
  state = "SENDING" =>
    /\ resp_idx < resp_size
    /\ resp_idx % 4 = 0
    /\ resp_idx + 4 <= BufSize

\* Between two register accesses the device is never PROCESSING or READY, so
\* the loop of tpm_read_response that waits for PROCESSING to end cannot hang;
\* and while RECEIVING nothing of an older response is left to be sent and
\* the next command word goes to a word boundary.
StableStates ==
  /\ state \in {"IDLE", "RECEIVING", "SENDING"}
  /\ state = "RECEIVING" => resp_size = 0 /\ resp_idx = 0 /\ cmd_size % 4 = 0

-----------------------------------------------------------------------------
(***************************************************************************)
(* The buffers and indices implement the queues of Tpm2Fifo.  Only the     *)
(* words between the indices are part of a queue, and a half beyond        *)
(* resp_size is unspecified.                                               *)
(***************************************************************************)
InQueue == IF state = "RECEIVING"
             THEN [k \in 1 .. (cmd_size \div 4) |-> command_buffer[k - 1]]
             ELSE <<>>

SentHalf(i) == IF 2 * i < resp_size THEN response_buffer[i] ELSE Blank

OutQueue == IF state = "SENDING"
              THEN [k \in 1 .. ((Padded(resp_size) - resp_idx) \div 4) |->
                      <<SentHalf(resp_idx \div 2 + 2 * k - 2),
                        SentHalf(resp_idx \div 2 + 2 * k - 1)>>]
              ELSE <<>>

Fifo == INSTANCE Tpm2Fifo WITH mode <- state, inq <- InQueue,
                               outq <- OutQueue, Junk <- Half

\* Every register access is an access to the two queues: words arrive in the
\* order they were stored, a response is read from its first word to its last
\* whatever the buffers held before, and a command whose header was not sent
\* completely since CTRL=1 is refused with TPM_RC_COMMAND_SIZE even when the
\* buffer still holds the header of an earlier command.
ImplementsFifo == Fifo!Spec
=============================================================================
