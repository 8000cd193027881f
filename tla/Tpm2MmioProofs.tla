--------------------------- MODULE Tpm2MmioProofs ---------------------------
(***************************************************************************)
(* For every buffer size, set of words and set of responses the            *)
(* assumptions of Tpm2Mmio allow.                                          *)
(***************************************************************************)
EXTENDS Tpm2Mmio, Sequences, SequenceTheorems, TLAPS

\* The inductive invariant: the two safety invariants rest on each other (the
\* size of a response in flight bounds the index into it) and on the types.
IInv == TypeOK /\ ResponseInBuffer /\ StableStates

\* Rounding up to a multiple of four, as build_success_response does.
LEMMA PaddedFacts ==
  ASSUME NEW n \in Nat
  PROVE  /\ Padded(n) \in Nat /\ Padded(n) % 4 = 0
         /\ n <= Padded(n) /\ Padded(n) < n + 4
         /\ \A m \in Nat : m % 4 = 0 /\ n <= m => Padded(n) <= m
         /\ n % 4 = 0 => Padded(n) = n
BY DEF Padded

\* An unwritten half is a half.
LEMMA BlankHalf == Blank \in Half
BY Zenon DEF Half

\* The cleared word is a word.
LEMMA ZeroWordIn == ZeroWord \in Word
BY Zenon, WordAssumption

\* A response, once built, fills the buffer with halves and can be read.
LEMMA BuildTyped ==
  ASSUME TypeOK, NEW r \in Response
  PROVE  /\ build_error_response(r) /\ r.size = TPM_RSP_HEADER_SIZE
              => /\ response_buffer' \in [RespSlot -> Half]
                 /\ resp_size' \in 10 .. BufSize /\ resp_idx' = 0
         /\ build_success_response(r)
              => /\ response_buffer' \in [RespSlot -> Half]
                 /\ resp_size' \in 10 .. BufSize /\ resp_idx' = 0
<1>1. r.size \in 10 .. BufSize /\ BufSize \in Nat /\ BufSize % 4 = 0
  BY Zenon, ResponseAssumption, BufSizeAssumption DEF TPM_RSP_HEADER_SIZE
<1>2. Padded(r.size) \in 10 .. BufSize
  <2> DEFINE n == r.size
  <2>1. n \in Nat /\ 10 <= n /\ n <= BufSize
    BY <1>1
  <2> HIDE DEF n
  <2>2. Padded(n) \in Nat /\ n <= Padded(n) /\ Padded(n) <= BufSize
    BY Zenon, <1>1, <2>1, PaddedFacts
  <2>3. Padded(n) \in 10 .. BufSize
    BY <1>1, <2>1, <2>2
  <2> QED
    BY Zenon, <2>3 DEF n
<1>3. \A i \in RespSlot : <<r, i>> \in Half /\ Blank \in Half
                          /\ response_buffer[i] \in Half
  BY Zenon DEF Half, RespSlot, TypeOK
<1> QED
  BY Zenon, <1>1, <1>2, <1>3 DEF build_error_response, build_success_response

\* Every reachable state satisfies the inductive invariant.
THEOREM MmioInvariant == Spec => []IInv
<1>1. Init => IInv
  BY BufSizeAssumption, ZeroWordIn, BlankHalf
     DEF Init, IInv, TypeOK, ResponseInBuffer, StableStates
<1>2. IInv /\ [Next]_vars => IInv'
  <2> SUFFICES ASSUME IInv, [Next]_vars PROVE IInv'
    BY Zenon
  <2> USE BufSizeAssumption
  <2>1. CASE CtrlStart
    BY <2>1 DEF CtrlStart, IInv, TypeOK, ResponseInBuffer, StableStates
  <2>2. CASE tpm2_reset
    BY <2>2, ZeroWordIn, BlankHalf
       DEF tpm2_reset, IInv, TypeOK, ResponseInBuffer, StableStates
  <2>3. CASE CmdInvalid
    BY Zenon, <2>3 DEF CmdInvalid, IInv, TypeOK, ResponseInBuffer, StableStates
  <2>4. CASE CmdSizeMismatch
    <3>1. ErrorResponse("TPM_RC_COMMAND_SIZE") \in Response
          /\ ErrorResponse("TPM_RC_COMMAND_SIZE").size = TPM_RSP_HEADER_SIZE
      BY Zenon, ResponseAssumption DEF ErrorResponse
    <3>2. /\ response_buffer' \in [RespSlot -> Half]
          /\ resp_size' \in 10 .. BufSize /\ resp_idx' = 0 /\ state' = "SENDING"
      BY Zenon, <2>4, <3>1, BuildTyped
         DEF CmdSizeMismatch, IInv, build_error_response
    <3> QED
      BY <2>4, <3>2 DEF CmdSizeMismatch, IInv, TypeOK, ResponseInBuffer, StableStates
  <2>5. ASSUME NEW r \in Response, CmdProcess(r) PROVE IInv'
    <3>1. actual_size \in Nat
      <4>1. command_buffer[0] \in Word /\ command_buffer[1] \in Word
        BY DEF IInv, TypeOK, CmdWord
      <4>2. command_buffer[0].lo \in Nat /\ command_buffer[1].hi \in Nat
        BY Zenon, <4>1, WordAssumption
      <4> QED
        BY <4>2 DEF actual_size
    <3>2. r.code # "TPM_RC_SUCCESS" => r.size = TPM_RSP_HEADER_SIZE
      BY Zenon, ResponseAssumption
    <3>3. /\ response_buffer' \in [RespSlot -> Half]
          /\ resp_size' \in 10 .. BufSize /\ resp_idx' = 0 /\ state' = "SENDING"
      BY Zenon, <2>5, <3>2, BuildTyped
         DEF CmdProcess, IInv, build_error_response, build_success_response
    <3>4. cmd_size' \in 0 .. BufSize
      BY <2>5, <3>1 DEF CmdProcess, IInv, TypeOK
    <3> QED
      BY <2>5, <3>3, <3>4 DEF CmdProcess, IInv, TypeOK, ResponseInBuffer, StableStates
  <2>6. ASSUME NEW w \in Word, DataWrite(w) PROVE IInv'
    <3>1. cmd_size' \in 0 .. BufSize /\ command_buffer' \in [CmdWord -> Word]
      BY <2>6 DEF DataWrite, IInv, TypeOK, StableStates, CmdWord
    <3>2. cmd_size % 4 = 0 => (cmd_size + 4) % 4 = 0
      BY DEF IInv, TypeOK
    <3> QED
      BY Zenon, <2>6, <3>1, <3>2 DEF DataWrite, IInv, TypeOK, ResponseInBuffer, StableStates
  <2>7. CASE DataRead
    <3>1. /\ resp_idx \in Nat /\ resp_size \in Nat /\ resp_size <= BufSize
          /\ resp_idx % 4 = 0 /\ resp_idx + 4 <= BufSize
      BY <2>7 DEF DataRead, IInv, TypeOK, ResponseInBuffer
    <3>2. /\ resp_idx \div 2 \in RespSlot /\ resp_idx \div 2 + 1 \in RespSlot
      BY <3>1 DEF RespSlot
    <3>3. rdata' \in Half \X Half
      BY Zenon, <2>7, <3>2 DEF DataRead, IInv, TypeOK
    <3>4. resp_idx + 4 < resp_size => resp_idx + 8 <= BufSize /\ (resp_idx + 4) % 4 = 0
      BY <3>1
    <3> QED
      BY <2>7, <3>1, <3>3, <3>4 DEF DataRead, IInv, TypeOK, ResponseInBuffer, StableStates
  <2>8. CASE DataReadInvalid
    BY Zenon, <2>8, BlankHalf
       DEF DataReadInvalid, IInv, TypeOK, ResponseInBuffer, StableStates
  <2>9. CASE UNCHANGED vars
    BY Zenon, <2>9 DEF vars, IInv, TypeOK, ResponseInBuffer, StableStates
  <2> QED
    BY Zenon, <2>1, <2>2, <2>3, <2>4, <2>5, <2>6, <2>7, <2>8, <2>9 DEF Next
<1> QED
  BY <1>1, <1>2, PTL DEF Spec

\* Reading a response never runs past it, whatever the buffer size.
THEOREM ResponseInBufferAlways == Spec => []ResponseInBuffer
<1>1. IInv => ResponseInBuffer
  BY Zenon DEF IInv
<1> QED
  BY <1>1, MmioInvariant, PTL

\* Between two accesses the device is idle, receiving or sending.
THEOREM StableStatesAlways == Spec => []StableStates
<1>1. IInv => StableStates
  BY Zenon DEF IInv
<1> QED
  BY <1>1, MmioInvariant, PTL

-----------------------------------------------------------------------------
(***************************************************************************)
(* The refinement: the part of each buffer between the indices is a queue. *)
(***************************************************************************)

\* A function on 1..n is a sequence of length n, and the empty one is <<>>.
LEMMA IntervalSeq ==
  ASSUME NEW n \in Nat, NEW S, NEW f \in [1 .. n -> S]
  PROVE  /\ f \in Seq(S) /\ Len(f) = n
         /\ n = 0 => f = <<>>
OBVIOUS

\* The first element and the rest of a sequence given as a function.
LEMMA IntervalHeadTail ==
  ASSUME NEW n \in Nat, n >= 1, NEW S, NEW f \in [1 .. n -> S]
  PROVE  /\ f # <<>> /\ Len(f) = n /\ Head(f) = f[1]
         /\ Tail(f) = [k \in 1 .. (n - 1) |-> f[k + 1]]
<1>1. f \in Seq(S) /\ Len(f) = n /\ f # <<>>
  BY IntervalSeq
<1>2. Head(f) = f[1]
  BY <1>1
<1>3. /\ Tail(f) \in Seq(S) /\ Len(Tail(f)) = n - 1
      /\ \A k \in 1 .. (n - 1) : Tail(f)[k] = f[k + 1]
  BY Zenon, <1>1, HeadTailProperties
<1>4. Tail(f) \in [1 .. (n - 1) -> S]
  BY Zenon, <1>3, LenProperties
<1> QED
  BY Zenon, <1>1, <1>2, <1>3, <1>4

\* The two queues of the mapping, as sequences.
LEMMA QueueTypes ==
  ASSUME IInv
  PROVE  /\ state = "RECEIVING" =>
              /\ InQueue \in Seq(Word) /\ Len(InQueue) = cmd_size \div 4
              /\ 4 * (cmd_size \div 4) = cmd_size
              /\ \A k \in 1 .. (cmd_size \div 4) : InQueue[k] = command_buffer[k - 1]
         /\ state # "RECEIVING" => InQueue = <<>>
         /\ state # "SENDING" => OutQueue = <<>>
<1>1. ASSUME state = "RECEIVING"
      PROVE  InQueue \in [1 .. (cmd_size \div 4) -> Word] /\ cmd_size \div 4 \in Nat
             /\ 4 * (cmd_size \div 4) = cmd_size
  BY <1>1, BufSizeAssumption DEF InQueue, IInv, TypeOK, StableStates, CmdWord
<1> QED
  BY Zenon, <1>1, IntervalSeq DEF InQueue, OutQueue

\* Starting to receive, or resetting, empties both queues.
LEMMA EmptyQueues ==
  /\ state' = "RECEIVING" /\ cmd_size' = 0 => InQueue' = <<>> /\ OutQueue' = <<>>
  /\ state' = "IDLE" => InQueue' = <<>> /\ OutQueue' = <<>>
<1>1. 0 \div 4 = 0
  OBVIOUS
<1>2. [k \in 1 .. 0 |-> command_buffer'[k - 1]] = <<>>
  OBVIOUS
<1> QED
  BY Zenon, <1>1, <1>2 DEF InQueue, OutQueue

\* A response that was just built is, word for word, the response queue.
LEMMA BuiltQueue ==
  ASSUME IInv, NEW r \in Response
  PROVE  /\ build_error_response(r) /\ r.size = TPM_RSP_HEADER_SIZE
              => OutQueue' = Fifo!WordsOf(r)
         /\ build_success_response(r) => OutQueue' = Fifo!WordsOf(r)
<1> DEFINE n == r.size
<1>1. n \in Nat /\ 10 <= n /\ n <= BufSize /\ BufSize \in Nat /\ BufSize % 4 = 0
  BY ResponseAssumption, BufSizeAssumption DEF TPM_RSP_HEADER_SIZE
<1> HIDE DEF n
<1>2. /\ Padded(n) \in Nat /\ n <= Padded(n) /\ Padded(n) <= BufSize
      /\ Padded(Padded(n)) = Padded(n) /\ Padded(n) % 4 = 0
  BY Zenon, <1>1, PaddedFacts
<1>3. Fifo!Padded(n) = Padded(n) /\ Fifo!Stale = Blank
  BY Zenon DEF Padded, Fifo!Padded, Fifo!Stale, Blank
<1>4. ASSUME NEW i \in Nat, 2 * i < Padded(n)
      PROVE  i \in RespSlot
  BY <1>1, <1>2, <1>4 DEF RespSlot
<1>5. ASSUME build_error_response(r), n = 10
      PROVE  OutQueue' = Fifo!WordsOf(r)
  <2>1. resp_size' = 10 /\ resp_idx' = 0 /\ state' = "SENDING" /\ Padded(10) = 12
    BY <1>5 DEF build_error_response, n, Padded
  <2>2. \A i \in Nat : 2 * i < 12 => SentHalf(i)' = Fifo!RespHalf(r, i)
    BY Zenon, <1>3, <1>4, <1>5, <2>1 DEF build_error_response, n, SentHalf, Fifo!RespHalf
  <2>3. \A k \in 1 .. 3 : /\ 2 * k - 2 \in Nat /\ 2 * (2 * k - 2) < 12
                          /\ 2 * k - 1 \in Nat /\ 2 * (2 * k - 1) < 12
    OBVIOUS
  <2>4. OutQueue' = [k \in 1 .. 3 |-> <<SentHalf(2 * k - 2)', SentHalf(2 * k - 1)'>>]
    BY <2>1 DEF OutQueue
  <2>5. Fifo!WordsOf(r) = [k \in 1 .. 3 |-> <<Fifo!RespHalf(r, 2 * k - 2),
                                            Fifo!RespHalf(r, 2 * k - 1)>>]
    BY <1>3, <1>5, <2>1 DEF Fifo!WordsOf, n
  <2> QED
    BY Zenon, <2>2, <2>3, <2>4, <2>5
<1>6. ASSUME build_success_response(r)
      PROVE  OutQueue' = Fifo!WordsOf(r)
  <2> DEFINE m == Padded(n) \div 4
  <2>1. resp_size' = Padded(n) /\ resp_idx' = 0 /\ state' = "SENDING"
    BY Zenon, <1>6 DEF build_success_response, n
  <2>2. \A i \in Nat : 2 * i < Padded(n) => SentHalf(i)' = Fifo!RespHalf(r, i)
    BY Zenon, <1>2, <1>3, <1>4, <1>6, <2>1 DEF build_success_response, n, SentHalf, Fifo!RespHalf
  <2>3. \A k \in 1 .. m : /\ 2 * k - 2 \in Nat /\ 2 * (2 * k - 2) < Padded(n)
                          /\ 2 * k - 1 \in Nat /\ 2 * (2 * k - 1) < Padded(n)
    BY <1>2
  <2>4. OutQueue' = [k \in 1 .. m |-> <<SentHalf(2 * k - 2)', SentHalf(2 * k - 1)'>>]
    BY <1>2, <2>1 DEF OutQueue
  <2>5. Fifo!WordsOf(r) = [k \in 1 .. m |-> <<Fifo!RespHalf(r, 2 * k - 2),
                                            Fifo!RespHalf(r, 2 * k - 1)>>]
    BY Zenon, <1>3 DEF Fifo!WordsOf, n
  <2> QED
    BY Zenon, <2>2, <2>3, <2>4, <2>5
<1> QED
  BY Zenon, <1>5, <1>6 DEF n, TPM_RSP_HEADER_SIZE

\* A refused or processed command answers as the queue specification asks:
\* a header that was not received whole gets TPM_RC_COMMAND_SIZE.
LEMMA AnswerAllowed ==
  ASSUME IInv, state = "RECEIVING", actual_size <= cmd_size,
         Fifo!Malformed(InQueue)
  PROVE  actual_size < TPM_CMD_HEADER_SIZE
<1> DEFINE m == cmd_size \div 4
<1>1. m \in Nat /\ 4 * m = cmd_size /\ Len(InQueue) = m
  BY QueueTypes, BufSizeAssumption DEF IInv, TypeOK
<1>2. command_buffer[0] \in Word /\ command_buffer[1] \in Word
  BY BufSizeAssumption DEF IInv, TypeOK, CmdWord
<1>3. actual_size \in Nat
  BY <1>2, WordAssumption DEF actual_size
<1>4. ASSUME m >= 3 PROVE Fifo!Announced(InQueue) = actual_size
  <2>1. InQueue[1] = command_buffer[0] /\ InQueue[2] = command_buffer[1]
    BY <1>1, <1>4, QueueTypes
  <2> QED
    BY <2>1 DEF Fifo!Announced, actual_size
<1>5. CASE m >= 3
  BY <1>1, <1>3, <1>4, <1>5
     DEF Fifo!Malformed, Fifo!TPM_CMD_HEADER_SIZE, TPM_CMD_HEADER_SIZE
<1>6. CASE m < 3
  BY <1>1, <1>3, <1>6 DEF TPM_CMD_HEADER_SIZE
<1> QED
  BY <1>1, <1>5, <1>6

\* A read of DATA_REG takes the first word of the response queue.
LEMMA PopStep ==
  ASSUME IInv, DataRead
  PROVE  Fifo!Pop
<1> DEFINE j == resp_idx \div 2
           n == (Padded(resp_size) - resp_idx) \div 4
           q == [k \in 1 .. n |-> <<SentHalf(j + 2 * k - 2), SentHalf(j + 2 * k - 1)>>]
<1>1. /\ resp_idx \in Nat /\ resp_size \in Nat /\ resp_idx % 4 = 0
      /\ resp_idx < resp_size /\ resp_size <= BufSize /\ state = "SENDING"
      /\ BufSize \in Nat /\ BufSize % 4 = 0 /\ resp_idx + 4 <= BufSize
  BY BufSizeAssumption DEF DataRead, IInv, TypeOK, ResponseInBuffer
<1>2. /\ Padded(resp_size) \in Nat /\ Padded(resp_size) % 4 = 0
      /\ resp_size <= Padded(resp_size) /\ Padded(resp_size) < resp_size + 4
  BY Zenon, <1>1, PaddedFacts
<1>3. /\ n \in Nat /\ n >= 1 /\ j \in RespSlot /\ j + 1 \in RespSlot /\ 2 * j = resp_idx
      /\ n = 1 <=> resp_idx + 4 >= resp_size
      /\ (Padded(resp_size) - (resp_idx + 4)) \div 4 = n - 1
      /\ (resp_idx + 4) \div 2 = j + 2
  <2>1. PICK a \in Nat : resp_idx = 4 * a
    BY <1>1
  <2>2. PICK b \in Nat : Padded(resp_size) = 4 * b
    BY <1>2
  <2>3. a < b /\ (b = a + 1 <=> resp_idx + 4 >= resp_size)
    BY <1>1, <1>2, <2>1, <2>2
  <2>4. j = 2 * a /\ n = b - a
    BY <2>1, <2>2, <2>3
  <2>5. (Padded(resp_size) - (resp_idx + 4)) \div 4 = b - (a + 1)
    BY <2>1, <2>2, <2>3
  <2>6. (resp_idx + 4) \div 2 = 2 * a + 2
    BY <2>1
  <2>7. 2 * a \in RespSlot /\ 2 * a + 1 \in RespSlot
    BY <1>1, <2>1 DEF RespSlot
  <2> QED
    BY <2>1, <2>3, <2>4, <2>5, <2>6, <2>7
<1>4. OutQueue = q
  BY Zenon, <1>1 DEF OutQueue
<1> HIDE DEF j, n
<1>5. /\ q # <<>> /\ Len(q) = n /\ Head(q) = <<SentHalf(j), SentHalf(j + 1)>>
      /\ Tail(q) = [k \in 1 .. (n - 1) |-> q[k + 1]]
  <2>1. 1 \in 1 .. n /\ j + 2 * 1 - 2 = j /\ j + 2 * 1 - 1 = j + 1
    BY <1>3 DEF RespSlot
  <2>2. q[1] = <<SentHalf(j), SentHalf(j + 1)>>
    BY Zenon, <2>1
  <2> DEFINE S == {q[k] : k \in 1 .. n}
  <2>3. q \in [1 .. n -> S]
    BY Zenon
  <2> HIDE DEF q, S
  <2> QED
    BY Zenon, <1>3, <2>2, <2>3, IntervalHeadTail
<1>6. OutQueue' = Tail(q)
  <2>1. CASE resp_idx + 4 >= resp_size
    <3>1. OutQueue' = <<>>
      BY Zenon, <2>1, EmptyQueues DEF DataRead
    <3>2. Tail(q) = <<>>
      BY <1>3, <1>5, <2>1
    <3> QED
      BY Zenon, <3>1, <3>2
  <2>2. CASE ~(resp_idx + 4 >= resp_size)
    <3>1. /\ resp_idx' = resp_idx + 4 /\ state' = "SENDING" /\ resp_size' = resp_size
          /\ \A i : SentHalf(i)' = SentHalf(i)
      BY Zenon, <1>1, <2>2 DEF DataRead, SentHalf
    <3>2. OutQueue' = [k \in 1 .. (n - 1) |-> <<SentHalf(j + 2 + 2 * k - 2),
                                                SentHalf(j + 2 + 2 * k - 1)>>]
      BY Zenon, <1>3, <3>1 DEF OutQueue
    <3>3. \A k \in 1 .. (n - 1) :
            /\ k + 1 \in 1 .. n
            /\ j + 2 + 2 * k - 2 = j + 2 * (k + 1) - 2
            /\ j + 2 + 2 * k - 1 = j + 2 * (k + 1) - 1
      BY <1>3 DEF RespSlot
    <3>4. \A k \in 1 .. (n - 1) : q[k + 1] = <<SentHalf(j + 2 + 2 * k - 2),
                                               SentHalf(j + 2 + 2 * k - 1)>>
      BY Zenon, <3>3
    <3> QED
      BY Zenon, <1>5, <3>2, <3>4
  <2> QED
    BY Zenon, <2>1, <2>2
<1>7. response_buffer[j] \in Fifo!Shown(SentHalf(j))
      /\ response_buffer[j + 1] \in Fifo!Shown(SentHalf(j + 1))
  BY Zenon, <1>3 DEF IInv, TypeOK, SentHalf, Fifo!Shown, Fifo!Stale, Blank
<1>8. rdata' = <<response_buffer[j], response_buffer[j + 1]>>
  BY Zenon DEF DataRead, j
<1>9. \E hi \in Fifo!Shown(Head(OutQueue)[1]), lo \in Fifo!Shown(Head(OutQueue)[2]) :
        rdata' = <<hi, lo>>
  <2> HIDE DEF q
  <2>1. Head(OutQueue)[1] = SentHalf(j) /\ Head(OutQueue)[2] = SentHalf(j + 1)
    BY <1>4, <1>5
  <2> QED
    BY Zenon, <2>1, <1>7, <1>8
<1>10. state' = IF Len(OutQueue) = 1 THEN "IDLE" ELSE "SENDING"
  BY Zenon, <1>1, <1>3, <1>4, <1>5 DEF DataRead
<1>11. InQueue' = InQueue
  BY Zenon, <1>1, <1>10 DEF InQueue
<1> QED
  BY Zenon, <1>1, <1>4, <1>6, <1>9, <1>10, <1>11 DEF Fifo!Pop

\* A word stored behind the others is a word appended to the command queue.
LEMMA PushStep ==
  ASSUME IInv, NEW w \in Word, DataWrite(w)
  PROVE  Fifo!Push(w)
<1> DEFINE m == cmd_size \div 4
<1>1. /\ m \in Nat /\ 4 * m = cmd_size /\ InQueue \in Seq(Word) /\ Len(InQueue) = m
      /\ \A k \in 1 .. m : InQueue[k] = command_buffer[k - 1]
      /\ state = "RECEIVING" /\ OutQueue = <<>>
  BY QueueTypes DEF DataWrite, IInv, TypeOK
<1>2. BufSize \in Nat
  BY Zenon, BufSizeAssumption
<1>3. CASE cmd_size + 4 > BufSize
  <2>1. InQueue' = <<>> /\ OutQueue' = <<>> /\ state' = "IDLE" /\ rdata' = rdata
    BY Zenon, <1>3, EmptyQueues DEF DataWrite
  <2>2. ~(4 * (Len(InQueue) + 1) <= BufSize)
    BY <1>1, <1>2, <1>3
  <2> QED
    BY Zenon, <1>1, <2>1, <2>2 DEF Fifo!Push
<1>4. CASE ~(cmd_size + 4 > BufSize)
  <2>1. /\ cmd_size' = cmd_size + 4 /\ state' = state /\ rdata' = rdata
        /\ command_buffer' = [command_buffer EXCEPT ![m] = w]
    BY Zenon, <1>4 DEF DataWrite
  <2>2. (cmd_size + 4) \div 4 = m + 1 /\ m \in CmdWord
    BY <1>1, <1>2, <1>4, BufSizeAssumption DEF CmdWord
  <2> HIDE DEF m
  <2>3. InQueue' = [k \in 1 .. (m + 1) |-> command_buffer'[k - 1]]
    BY Zenon, <1>1, <2>1, <2>2 DEF InQueue
  <2>4. \A k \in 1 .. (m + 1) : command_buffer'[k - 1] =
                                IF k = m + 1 THEN w ELSE command_buffer[k - 1]
    <3>1. ASSUME NEW k \in 1 .. (m + 1)
          PROVE  k - 1 \in CmdWord /\ (k = m + 1 <=> k - 1 = m)
      BY <1>1, <2>2, BufSizeAssumption DEF CmdWord
    <3> QED
      BY Zenon, <2>1, <2>2, <3>1 DEF IInv, TypeOK
  <2>5. /\ Append(InQueue, w) \in Seq(Word) /\ Len(Append(InQueue, w)) = m + 1
        /\ \A k \in 1 .. m : Append(InQueue, w)[k] = InQueue[k]
        /\ Append(InQueue, w)[m + 1] = w
    BY <1>1, AppendProperties
  <2>6. InQueue' = Append(InQueue, w)
    <3>1. Append(InQueue, w) \in [1 .. (m + 1) -> Word]
      BY Zenon, <2>5, LenProperties
    <3>2. \A k \in 1 .. (m + 1) : Append(InQueue, w)[k] = command_buffer'[k - 1]
      BY <1>1, <2>4, <2>5
    <3> QED
      BY Zenon, <2>3, <3>1, <3>2
  <2>7. OutQueue' = <<>>
    BY Zenon, <1>1, <2>1 DEF OutQueue
  <2>8. 4 * (Len(InQueue) + 1) <= BufSize
    BY <1>1, <1>2, <1>4
  <2> QED
    BY Zenon, <1>1, <2>1, <2>6, <2>7, <2>8 DEF Fifo!Push
<1> QED
  BY Zenon, <1>3, <1>4

\* CMD=1 while RECEIVING: refusing a command and processing it are both
\* executions of the queue specification.
LEMMA ExecuteStep ==
  ASSUME IInv
  PROVE  /\ CmdSizeMismatch => \E r \in Response : Fifo!Execute(r)
         /\ \A r \in Response : CmdProcess(r) => Fifo!Execute(r)
<1> DEFINE e == ErrorResponse("TPM_RC_COMMAND_SIZE")
<1>1. /\ e \in Response /\ e.size = TPM_RSP_HEADER_SIZE
      /\ Fifo!ErrorResponse("TPM_RC_COMMAND_SIZE") = e
  BY Zenon, ResponseAssumption
     DEF ErrorResponse, Fifo!ErrorResponse, Fifo!TPM_RSP_HEADER_SIZE, TPM_RSP_HEADER_SIZE
<1> HIDE DEF e
<1>2. ASSUME state' = "SENDING" PROVE InQueue' = <<>>
  BY Zenon, <1>2 DEF InQueue
<1>3. ASSUME CmdSizeMismatch PROVE Fifo!Execute(e)
  <2>1. OutQueue' = Fifo!WordsOf(e) /\ state' = "SENDING"
    BY Zenon, <1>1, <1>3, BuiltQueue DEF CmdSizeMismatch, e, build_error_response
  <2> QED
    BY Zenon, <1>1, <1>2, <1>3, <2>1 DEF CmdSizeMismatch, Fifo!Execute
<1>4. ASSUME NEW r \in Response, CmdProcess(r) PROVE Fifo!Execute(r)
  <2>1. r.code # "TPM_RC_SUCCESS" => r.size = TPM_RSP_HEADER_SIZE
    BY Zenon, ResponseAssumption
  <2>2. OutQueue' = Fifo!WordsOf(r) /\ state' = "SENDING"
    BY Zenon, <1>4, <2>1, BuiltQueue
       DEF CmdProcess, build_error_response, build_success_response
  <2>3. Fifo!Malformed(InQueue) => r = e
    BY Zenon, <1>4, AnswerAllowed DEF CmdProcess, e
  <2> QED
    BY Zenon, <1>1, <1>2, <1>4, <2>2, <2>3 DEF CmdProcess, Fifo!Execute
<1> QED
  BY Zenon, <1>1, <1>3, <1>4

\* The register window with its buffers, sizes and indices implements the
\* command and response queues, for every buffer size.
THEOREM MmioImplementsFifo == Spec => ImplementsFifo
<1>1. Init => Fifo!Init
  <2>1. Init => InQueue = <<>> /\ OutQueue = <<>>
    BY Zenon DEF Init, InQueue, OutQueue
  <2> QED
    BY Zenon, <2>1 DEF Init, Fifo!Init, Fifo!NoData, Fifo!Stale, Blank
<1>2. IInv /\ [Next]_vars => [Fifo!Next]_(Fifo!vars)
  <2> SUFFICES ASSUME IInv, [Next]_vars PROVE [Fifo!Next]_(Fifo!vars)
    BY Zenon
  <2>1. CASE CtrlStart
    BY Zenon, <2>1, EmptyQueues DEF CtrlStart, Fifo!Start, Fifo!Next
  <2>2. CASE tpm2_reset
    BY Zenon, <2>2, EmptyQueues DEF tpm2_reset, Fifo!Reset, Fifo!Next, Fifo!NoData,
                             Fifo!Stale, Blank
  <2>3. CASE CmdInvalid
    BY Zenon, <2>3, EmptyQueues, QueueTypes DEF CmdInvalid, Fifo!ExecuteInvalid, Fifo!Next
  <2>4. CASE CmdSizeMismatch
    BY Zenon, <2>4, ExecuteStep DEF Fifo!Next
  <2>5. ASSUME NEW r \in Response, CmdProcess(r) PROVE Fifo!Next
    BY Zenon, <2>5, ExecuteStep DEF Fifo!Next
  <2>6. ASSUME NEW w \in Word, DataWrite(w) PROVE Fifo!Next
    BY Zenon, <2>6, PushStep DEF Fifo!Next
  <2>7. CASE DataRead
    BY Zenon, <2>7, PopStep DEF Fifo!Next
  <2>8. CASE DataReadInvalid
    <3>1. state # "SENDING"
      BY <2>8, BufSizeAssumption
         DEF DataReadInvalid, IInv, ResponseInBuffer, TypeOK
    <3>2. InQueue' = InQueue /\ OutQueue' = OutQueue
      BY Zenon, <2>8, <3>1 DEF DataReadInvalid, InQueue, OutQueue
    <3> QED
      BY Zenon, <2>8, <3>1, <3>2
         DEF DataReadInvalid, Fifo!PopNothing, Fifo!NoData, Fifo!Stale, Blank, Fifo!Next
  <2>9. CASE UNCHANGED vars
    BY Zenon, <2>9 DEF vars, Fifo!vars, InQueue, OutQueue, SentHalf
  <2> QED
    BY Zenon, <2>1, <2>2, <2>3, <2>4, <2>5, <2>6, <2>7, <2>8, <2>9 DEF Next
<1> QED
  BY <1>1, <1>2, MmioInvariant, PTL DEF Spec, ImplementsFifo, Fifo!Spec
=============================================================================
