------------------------------ MODULE Tpm2Fifo ------------------------------
(***************************************************************************)
(* What the register window of the TPM device promises to the guest: a     *)
(* queue of command words that is emptied by CTRL=1, an execute that turns *)
(* the queued command into a queue of response words, and a read port that *)
(* pops one response word at a time.  No buffers, sizes or indices: those  *)
(* are Tpm2Mmio's, which is shown to implement this module.                *)
(*                                                                         *)
(* A word carries the two 16-bit halves of the 32-bit register value that  *)
(* the transport itself looks at (hi and lo); users may add fields.  A     *)
(* response is a record with its code, its size in bytes and its body, and *)
(* the i-th 16-bit half of response r is the pair <<r, i>>.                *)
(***************************************************************************)
EXTENDS Naturals, Sequences

CONSTANTS
  BufSize,    \* sizeof(command_buffer) = sizeof(response_buffer), in bytes
  Word,       \* the values a guest writes to DATA_REG
  Response,   \* the responses tpm2_process_command can build
  Junk        \* what the guest may see in a half that no response defined

TPM_CMD_HEADER_SIZE == 10

TPM_RSP_HEADER_SIZE == 10

\* (n + 3) & ~3
Padded(n) == 4 * ((n + 3) \div 4)

ErrorResponse(rc) == [code |-> rc, size |-> TPM_RSP_HEADER_SIZE, body |-> <<>>]

\* A half that the response does not define: padding, or what an earlier
\* response left in the buffer.
Stale == <<>>

RespHalf(r, i) == IF 2 * i < r.size THEN <<r, i>> ELSE Stale

\* The words of response r, in the order the guest reads them.
WordsOf(r) == [k \in 1 .. (Padded(r.size) \div 4) |->
                 <<RespHalf(r, 2 * k - 2), RespHalf(r, 2 * k - 1)>>]

NoData == <<Stale, Stale>>

-----------------------------------------------------------------------------
VARIABLES
  mode,       \* "IDLE", "RECEIVING" or "SENDING"
  inq,        \* the command words accepted since the last CTRL=1
  outq,       \* the response words not yet read
  rdata       \* the value the last read of DATA_REG since a reset returned

vars == <<mode, inq, outq, rdata>>

Init == mode = "IDLE" /\ inq = <<>> /\ outq = <<>> /\ rdata = NoData

\* The size field of the command header: bytes 2..5 of the queued command.
Announced(q) == q[1].lo * 65536 + q[2].hi

\* The header is incomplete, or announces fewer bytes than a header or more
\* bytes than the guest has sent.
Malformed(q) ==
  \/ 4 * Len(q) < TPM_CMD_HEADER_SIZE
  \/ Announced(q) < TPM_CMD_HEADER_SIZE
  \/ Announced(q) > 4 * Len(q)

Start == /\ mode' = "RECEIVING" /\ inq' = <<>> /\ outq' = <<>>
         /\ UNCHANGED rdata

Reset == /\ mode' = "IDLE" /\ inq' = <<>> /\ outq' = <<>>
         /\ rdata' = NoData

Push(w) ==
  /\ mode = "RECEIVING"
  /\ IF 4 * (Len(inq) + 1) <= BufSize
       THEN inq' = Append(inq, w) /\ mode' = mode
       ELSE inq' = <<>> /\ mode' = "IDLE"
  /\ UNCHANGED <<outq, rdata>>

Execute(r) ==
  /\ mode = "RECEIVING"
  /\ Malformed(inq) => r = ErrorResponse("TPM_RC_COMMAND_SIZE")
  /\ mode' = "SENDING" /\ inq' = <<>> /\ outq' = WordsOf(r)
  /\ UNCHANGED rdata

ExecuteInvalid ==
  /\ mode # "RECEIVING"
  /\ mode' = "IDLE" /\ outq' = <<>>
  /\ UNCHANGED <<inq, rdata>>

\* What a read may return for half h of the response.
Shown(h) == IF h = Stale THEN Junk ELSE {h}

Pop ==
  /\ mode = "SENDING"
  /\ outq' = Tail(outq)
  /\ \E hi \in Shown(Head(outq)[1]), lo \in Shown(Head(outq)[2]) :
       rdata' = <<hi, lo>>
  /\ mode' = IF Len(outq) = 1 THEN "IDLE" ELSE "SENDING"
  /\ UNCHANGED inq

PopNothing ==
  /\ mode # "SENDING"
  /\ rdata' = NoData
  /\ UNCHANGED <<mode, inq, outq>>

Next ==
  \/ Start \/ Reset
  \/ \E w \in Word : Push(w)
  \/ \E r \in Response : Execute(r)
  \/ ExecuteInvalid
  \/ Pop \/ PopNothing

Spec == Init /\ [][Next]_vars
=============================================================================
