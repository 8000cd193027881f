--------------------------- MODULE FirmwareProofs ---------------------------
(***************************************************************************)
(* For every menu of commands that fit command_buffer: whatever is typed,  *)
(* and wherever resets strike, commands and responses pass the register    *)
(* window whole, and the invariant of the handlers holds.                  *)
(***************************************************************************)
EXTENDS Firmware, Tpm2ChainProofs, SequenceTheorems

\* The words of the response in flight: how many, and the k-th.
Words == F!Padded(rsp.size) \div 4

RespWord(k) == <<F!RespHalf(rsp, 2 * k - 2), F!RespHalf(rsp, 2 * k - 1)>>

\* The response is split between the words the firmware has read and the words
\* the device still holds.
Reading ==
  /\ Len(got) \in 0 .. Words
  /\ got = [k \in 1 .. Len(got) |-> RespWord(k)]
  /\ outq = [k \in 1 .. (Words - Len(got)) |-> RespWord(Len(got) + k)]
  /\ mode = IF Len(got) < Words THEN "SENDING" ELSE "IDLE"

ReadingPc == {"poll", "check", "header", "size", "status", "data2", "show"}

Sending ==
  /\ pc \in {"ctrl", "data", "cmd"} => c \in Option /\ got = <<>>
  /\ pc = "ctrl" => sent = 0
  /\ pc = "data" => /\ sent \in Nat /\ 4 * sent < F!Padded(Menu[c].len)
                    /\ mode = "RECEIVING"
                    /\ inq = [k \in 1 .. sent |-> CommandWord(c, k - 1)]
  /\ CommandArrives

Receiving ==
  /\ pc \in ReadingPc => Reading
  /\ pc \in {"poll", "check"} => Len(got) = 0
  /\ pc = "header" => Len(got) < 3
  /\ pc = "size" => Len(got) = 3
  /\ pc \in {"status", "data2"} => /\ 3 <= Len(got) /\ Len(got) < Words
                                   /\ resp_size = rsp.size
  /\ pc = "show" => Len(got) = Words /\ resp_size = rsp.size

\* The inductive invariant of the composition.
FInv ==
  /\ IInv
  /\ pc \in {"menu", "ctrl", "data", "cmd"} \cup ReadingPc
  /\ Sending
  /\ Receiving

-----------------------------------------------------------------------------
\* Rounding up to a whole number of words.
LEMMA PaddedWords ==
  ASSUME NEW n \in Nat
  PROVE  /\ F!Padded(n) \div 4 \in Nat /\ F!Padded(n) = 4 * (F!Padded(n) \div 4)
         /\ n <= F!Padded(n) /\ F!Padded(n) < n + 4
BY DEF F!Padded

\* A response has at least the three words of its header.
LEMMA WordsFacts ==
  ASSUME IInv
  PROVE  /\ rsp.size \in Nat /\ 10 <= rsp.size /\ rsp.size <= BufSize /\ BufSize \in Nat
         /\ Words \in Nat /\ Words >= 3 /\ F!Padded(rsp.size) = 4 * Words
         /\ rsp.size <= 4 * Words /\ 4 * Words < rsp.size + 4
<1> DEFINE n == rsp.size
<1>1. n \in Nat /\ 10 <= n /\ n <= BufSize /\ BufSize \in Nat
  BY SizeAssumption DEF IInv, ResponseFits
<1> HIDE DEF n
<1>2. /\ F!Padded(n) \div 4 \in Nat /\ F!Padded(n) = 4 * (F!Padded(n) \div 4)
      /\ n <= F!Padded(n) /\ F!Padded(n) < n + 4
  BY Zenon, <1>1, PaddedWords
<1>3. Words = F!Padded(n) \div 4
  BY Zenon DEF Words, n
<1>4. Words \in Nat /\ F!Padded(n) = 4 * Words /\ Words >= 3
  BY <1>1, <1>2, <1>3
<1> QED
  BY Zenon, <1>1, <1>2, <1>4 DEF n

\* An element behind a sequence given as a function.
LEMMA IntervalAppend ==
  ASSUME NEW n \in Nat, NEW S, NEW f \in [1 .. n -> S], NEW x \in S
  PROVE  /\ Len(f) = n
         /\ Append(f, x) = [k \in 1 .. (n + 1) |-> IF k = n + 1 THEN x ELSE f[k]]
         /\ Len(Append(f, x)) = n + 1
<1>1. f \in Seq(S) /\ Len(f) = n
  OBVIOUS
<1>2. /\ Append(f, x) \in Seq(S) /\ Len(Append(f, x)) = n + 1
      /\ \A k \in 1 .. n : Append(f, x)[k] = f[k]
      /\ Append(f, x)[n + 1] = x
  BY <1>1, AppendProperties
<1>3. Append(f, x) \in [1 .. (n + 1) -> S]
  BY Zenon, <1>2, LenProperties
<1> DEFINE a == Append(f, x)
           g == [k \in 1 .. (n + 1) |-> IF k = n + 1 THEN x ELSE f[k]]
<1>4. a = g
  <2>1. a \in [1 .. (n + 1) -> S] /\ \A k \in 1 .. (n + 1) : a[k] = IF k = n + 1 THEN x ELSE f[k]
    <3>1. \A k \in 1 .. (n + 1) : k = n + 1 \/ k \in 1 .. n
      OBVIOUS
    <3> QED
      BY Zenon, <1>2, <1>3, <3>1
  <2> HIDE DEF a
  <2> QED
    BY Zenon, <2>1
<1> QED
  BY Zenon, <1>1, <1>2, <1>4

\* The first element and the rest of a sequence given as a function.
LEMMA IntervalHead ==
  ASSUME NEW n \in Nat, n >= 1, NEW S, NEW f \in [1 .. n -> S]
  PROVE  /\ Len(f) = n /\ Head(f) = f[1]
         /\ Tail(f) = [k \in 1 .. (n - 1) |-> f[k + 1]]
<1>1. f \in Seq(S) /\ Len(f) = n /\ f # <<>>
  OBVIOUS
<1>2. Head(f) = f[1]
  BY <1>1
<1>3. /\ Tail(f) \in Seq(S) /\ Len(Tail(f)) = n - 1
      /\ \A k \in 1 .. (n - 1) : Tail(f)[k] = f[k + 1]
  BY Zenon, <1>1, HeadTailProperties
<1>4. Tail(f) \in [1 .. (n - 1) -> S]
  BY Zenon, <1>3, LenProperties
<1> QED
  BY Zenon, <1>1, <1>2, <1>3, <1>4

\* A read of DATA_REG while words are left moves one word to the firmware.
LEMMA ReadOne ==
  ASSUME IInv, Reading, Len(got) < Words, ReadData
  PROVE  Reading' /\ Len(got') = Len(got) + 1 /\ UNCHANGED chainVars
<1> DEFINE n == Len(got)
           m == Words - n
           S == {RespWord(k) : k \in 1 .. Words}
<1>1. n \in Nat /\ m \in Nat /\ m >= 1 /\ Words \in Nat /\ n + m = Words
  BY WordsFacts DEF Reading
<1>2. UNCHANGED chainVars /\ Words' = Words /\ \A k : RespWord(k)' = RespWord(k)
  BY Zenon DEF ReadData, chainVars, vars, Words, RespWord, F!RespHalf, F!Stale, F!Padded
<1>3. mode = "SENDING" /\ F!Pop /\ got' = Append(got, rdata')
  BY Zenon DEF Reading, ReadData
<1>4. outq = [k \in 1 .. m |-> RespWord(n + k)] /\ got = [k \in 1 .. n |-> RespWord(k)]
  BY Zenon DEF Reading
<1> HIDE DEF n, m
<1>5. outq \in [1 .. m -> S] /\ got \in [1 .. n -> S] /\ RespWord(n + 1) \in S
  BY SMTT(30), <1>1, <1>4
<1> HIDE DEF S
<1>6. /\ Len(outq) = m /\ Head(outq) = outq[1]
      /\ Tail(outq) = [k \in 1 .. (m - 1) |-> outq[k + 1]]
  BY ZenonT(30), <1>1, <1>5, IntervalHead
<1>7. Head(outq) = RespWord(n + 1)
  BY <1>1, <1>4, <1>6
<1>8. rdata' = RespWord(n + 1)
  <2> DEFINE h == F!RespHalf(rsp, 2 * (n + 1) - 2)
             l == F!RespHalf(rsp, 2 * (n + 1) - 1)
  <2>1. RespWord(n + 1) = <<h, l>>
    BY Zenon DEF RespWord
  <2> HIDE DEF h, l
  <2>2. Head(outq)[1] = h /\ Head(outq)[2] = l
    BY <1>7, <2>1
  <2>3. F!Shown(h) = {h} /\ F!Shown(l) = {l}
    BY Zenon DEF F!Shown, F!Stale
  <2> QED
    BY Zenon, <1>3, <2>1, <2>2, <2>3 DEF F!Pop
<1>9. got' = [k \in 1 .. (n + 1) |-> RespWord(k)] /\ Len(got') = n + 1
  <2>1. /\ Len(Append(got, RespWord(n + 1))) = n + 1
        /\ Append(got, RespWord(n + 1))
             = [k \in 1 .. (n + 1) |-> IF k = n + 1 THEN RespWord(n + 1) ELSE got[k]]
    BY <1>1, <1>5, IntervalAppend
  <2>2. \A k \in 1 .. (n + 1) :
          (IF k = n + 1 THEN RespWord(n + 1) ELSE got[k]) = RespWord(k)
    BY <1>1, <1>4
  <2> QED
    BY Zenon, <1>3, <1>8, <2>1, <2>2
<1>10. outq' = [k \in 1 .. (Words - (n + 1)) |-> RespWord(n + 1 + k)]
  <2>1. outq' = [k \in 1 .. (m - 1) |-> outq[k + 1]]
    BY Zenon, <1>3, <1>6 DEF F!Pop
  <2>2. \A k \in 1 .. (m - 1) : k + 1 \in 1 .. m /\ n + (k + 1) = n + 1 + k
    BY <1>1
  <2>3. \A k \in 1 .. (m - 1) : outq[k + 1] = RespWord(n + 1 + k)
    BY Zenon, <1>4, <2>2
  <2>4. m - 1 = Words - (n + 1)
    BY <1>1
  <2> QED
    BY Zenon, <2>1, <2>3, <2>4
<1>11. mode' = IF n + 1 < Words THEN "SENDING" ELSE "IDLE"
  BY <1>1, <1>3, <1>6 DEF F!Pop
<1>12. got' = [k \in 1 .. Len(got') |-> RespWord(k)']
  BY Zenon, <1>2, <1>9
<1>13. outq' = [k \in 1 .. (Words' - Len(got')) |-> RespWord(Len(got) + k)']
  BY Zenon, <1>2, <1>9, <1>10
<1>14. Len(got') \in 0 .. Words' /\ mode' = IF Len(got') < Words' THEN "SENDING" ELSE "IDLE"
  BY <1>1, <1>2, <1>9, <1>11
<1>15. Len(got') = Len(got) + 1
  BY Zenon, <1>9 DEF n
<1> QED
  BY Zenon, <1>2, <1>12, <1>13, <1>14, <1>15 DEF Reading

\* A response that was just queued is a response of which nothing was read.
LEMMA QueuedIsReading ==
  ASSUME IInv', mode' = "SENDING", outq' = F!WordsOf(rsp'), got' = <<>>
  PROVE  Reading' /\ Len(got)' = 0
<1> DEFINE n == rsp'.size
<1>1. n \in Nat /\ 10 <= n
  BY DEF IInv, ResponseFits
<1>2. Words' = F!Padded(n) \div 4
  BY Zenon DEF Words, F!Padded
<1> HIDE DEF n
<1>3. Words' \in Nat /\ Words' >= 3
  BY <1>1, <1>2, PaddedWords
<1>4. outq' = [k \in 1 .. Words' |-> RespWord(k)']
  BY Zenon, <1>2 DEF F!WordsOf, RespWord, F!RespHalf, F!Stale, n
<1>5. Len(got') = 0 /\ got' = [k \in 1 .. 0 |-> RespWord(k)']
  OBVIOUS
<1>6. outq' = [k \in 1 .. (Words' - 0) |-> RespWord(0 + k)']
  <2>0. \A w \in Nat : w - 0 = w /\ \A k \in 1 .. w : 2 * (0 + k) = 2 * k
    OBVIOUS
  <2>1. Words' - 0 = Words' /\ \A k \in 1 .. Words' : 2 * (0 + k) = 2 * k
    BY <1>3, <2>0, Zenon
  <2>2. \A k \in 1 .. Words' : RespWord(0 + k)' = RespWord(k)'
    BY Zenon, <2>1 DEF RespWord
  <2> QED
    BY Zenon, <1>4, <2>1, <2>2
<1> QED
  BY <1>3, <1>5, <1>6 DEF Reading

\* Steps of the firmware that touch neither the device nor got.
LEMMA QuietStep ==
  ASSUME IInv, UNCHANGED deviceVars, UNCHANGED got
  PROVE  IInv' /\ (Reading => Reading') /\ Words' = Words /\ Len(got)' = Len(got)
         /\ rsp' = rsp
<1>1. UNCHANGED vars /\ UNCHANGED <<mode, inq, outq, rdata>> /\ rsp' = rsp
  BY Zenon DEF deviceVars, chainVars, vars
<1>2. IInv'
  BY Zenon, <1>1, StepInv
<1>3. Words' = Words /\ \A k : RespWord(k)' = RespWord(k)
  BY Zenon, <1>1 DEF Words, RespWord, F!RespHalf, F!Stale, F!Padded
<1> QED
  BY Zenon, <1>1, <1>2, <1>3 DEF Reading

\* The size that the firmware computes from the header is the response's.
LEMMA ActualSize ==
  ASSUME IInv, Reading, 3 <= Len(got)
  PROVE  actual_size = rsp.size
<1>1. Len(got) \in Nat /\ rsp.size \in Nat /\ 10 <= rsp.size
  BY WordsFacts DEF Reading
<1>2. got[1] = RespWord(1) /\ got[2] = RespWord(2)
  BY <1>1 DEF Reading
<1>3. F!RespHalf(rsp, 1) = <<rsp, 1>> /\ F!RespHalf(rsp, 2) = <<rsp, 2>>
  BY <1>1 DEF F!RespHalf
<1>4. got[1][2] = F!RespHalf(rsp, 1) /\ got[2][1] = F!RespHalf(rsp, 2)
  BY <1>2 DEF RespWord
<1>5. <<rsp, 1>> # <<>> /\ <<rsp, 2>> # <<>>
  BY Zenon
<1> QED
  BY <1>3, <1>4, <1>5 DEF actual_size, F!Stale

-----------------------------------------------------------------------------
\* The firmware starts with an idle device.
LEMMA FInit == FirmwareInit => FInv
<1> SUFFICES ASSUME FirmwareInit PROVE FInv
  BY Zenon
<1>1. IInv
  BY Zenon, InitInv DEF FirmwareInit
<1> QED
  BY Zenon, <1>1 DEF FirmwareInit, FInv, Sending, Receiving, CommandArrives, ReadingPc

\* TPM2_CTRL_REG = 1 begins with an empty buffer.
LEMMA StartInv ==
  ASSUME FInv, SendStart PROVE FInv'
<1>1. IInv'
  BY Zenon, StepInv DEF FInv, SendStart, chainVars
<1>2. pc = "ctrl" /\ c \in Option /\ sent = 0 /\ got = <<>>
  BY Zenon DEF SendStart, FInv, Sending
<1>3. /\ pc' = "data" /\ c' = c /\ sent' = 0 /\ got' = <<>>
      /\ mode' = "RECEIVING" /\ inq' = <<>>
  BY Zenon, <1>2 DEF SendStart, F!Start
<1>4. 4 * 0 < F!Padded(Menu[c].len)
  <2> DEFINE n == Menu[c].len
  <2>1. n \in Nat \ {0}
    BY Zenon, <1>2, MenuAssumption
  <2> HIDE DEF n
  <2>2. 4 * 0 < F!Padded(n)
    BY <2>1, PaddedWords
  <2> QED
    BY Zenon, <2>2 DEF n
<1>5. inq' = [k \in 1 .. 0 |-> CommandWord(c, k - 1)]
  BY <1>3
<1>6. Sending'
  BY Zenon, <1>2, <1>3, <1>4, <1>5 DEF Sending, CommandArrives, CommandWord, F!Padded
<1> QED
  BY Zenon, <1>1, <1>3, <1>6 DEF FInv, Receiving, ReadingPc

\* A device that has the first words of a command accepts the next one.
LEMMA WordAccepted ==
  ASSUME c \in Option, sent \in Nat, mode = "RECEIVING", SendWord,
         4 * sent < F!Padded(Menu[c].len),
         inq = [k \in 1 .. sent |-> CommandWord(c, k - 1)]
  PROVE  /\ mode' = "RECEIVING"
         /\ \/ /\ pc' = "data" /\ 4 * (sent + 1) < F!Padded(Menu[c].len)
               /\ inq' = [k \in 1 .. (sent + 1) |-> CommandWord(c, k - 1)]
            \/ /\ pc' = "cmd"
               /\ inq' = [k \in 1 .. (F!Padded(Menu[c].len) \div 4) |-> CommandWord(c, k - 1)]
<1> DEFINE n == Menu[c].len
           W == F!Padded(n) \div 4
           S == {CommandWord(c, k - 1) : k \in 1 .. W}
<1>2. /\ c \in Option /\ sent \in Nat /\ mode = "RECEIVING"
      /\ 4 * sent < F!Padded(n) /\ inq = [k \in 1 .. sent |-> CommandWord(c, k - 1)]
  BY Zenon
<1>3. n \in Nat /\ F!Padded(n) <= BufSize /\ BufSize \in Nat
  BY Zenon, <1>2, MenuAssumption, SizeAssumption
<1> HIDE DEF n
<1>4. W \in Nat /\ F!Padded(n) = 4 * W
  BY Zenon, <1>3, PaddedWords
<1>5. /\ sent' = sent + 1 /\ F!Push(CommandWord(c, sent))
      /\ pc' = IF 4 * sent' < F!Padded(n) THEN "data" ELSE "cmd"
  BY Zenon, <1>2 DEF SendWord, WriteData, n
<1> HIDE DEF W
<1>6. sent + 1 <= W /\ 4 * (sent + 1) <= BufSize
  BY <1>2, <1>3, <1>4
<1>7. inq \in [1 .. sent -> S] /\ CommandWord(c, sent) \in S
  <2>1. \A k \in 1 .. sent : k \in 1 .. W
    BY <1>2, <1>4, <1>6
  <2>2. sent + 1 \in 1 .. W /\ (sent + 1) - 1 = sent
    BY <1>2, <1>4, <1>6
  <2>3. CommandWord(c, (sent + 1) - 1) \in S
    BY Zenon, <2>2
  <2> QED
    BY Zenon, <1>2, <2>1, <2>2, <2>3
<1> HIDE DEF S
<1>8. /\ Len(inq) = sent
      /\ Append(inq, CommandWord(c, sent))
           = [k \in 1 .. (sent + 1) |-> IF k = sent + 1 THEN CommandWord(c, sent) ELSE inq[k]]
  BY <1>2, <1>7, IntervalAppend
<1>9. inq' = Append(inq, CommandWord(c, sent)) /\ mode' = "RECEIVING"
  BY Zenon, <1>2, <1>5, <1>6, <1>8 DEF F!Push
<1>10. inq' = [k \in 1 .. (sent + 1) |-> CommandWord(c, k - 1)]
  <2>1. \A k \in 1 .. (sent + 1) :
          (IF k = sent + 1 THEN CommandWord(c, sent) ELSE inq[k]) = CommandWord(c, k - 1)
    <3> SUFFICES ASSUME NEW k \in 1 .. (sent + 1)
                 PROVE (IF k = sent + 1 THEN CommandWord(c, sent) ELSE inq[k])
                         = CommandWord(c, k - 1)
      BY Zenon
    <3>1. CASE k = sent + 1
      <4>1. k - 1 = sent
        BY <1>2, <3>1
      <4> QED
        BY Zenon, <3>1, <4>1
    <3>2. CASE k # sent + 1
      BY <1>2, <3>2
    <3> QED
      BY Zenon, <3>1, <3>2
  <2> QED
    BY Zenon, <1>8, <1>9, <2>1
<1>11. CASE 4 * (sent + 1) < F!Padded(n)
  BY Zenon, <1>5, <1>9, <1>10, <1>11 DEF n
<1>12. CASE ~(4 * (sent + 1) < F!Padded(n))
  <2>1. sent + 1 = W /\ pc' = "cmd"
    BY SMTT(30), <1>2, <1>4, <1>5, <1>6, <1>12
  <2> QED
    BY Zenon, <1>9, <1>10, <2>1 DEF n, W
<1> QED
  BY Zenon, <1>11, <1>12

\* Each word of the command is accepted, behind the ones before it.
LEMMA WordInv ==
  ASSUME FInv, SendWord PROVE FInv'
<1>1. IInv'
  BY Zenon, StepInv DEF FInv, SendWord, chainVars
<1>2. /\ c \in Option /\ sent \in Nat /\ got = <<>> /\ mode = "RECEIVING"
      /\ 4 * sent < F!Padded(Menu[c].len)
      /\ inq = [k \in 1 .. sent |-> CommandWord(c, k - 1)]
  BY Zenon DEF SendWord, FInv, Sending
<1>3. /\ mode' = "RECEIVING"
      /\ \/ /\ pc' = "data" /\ 4 * (sent + 1) < F!Padded(Menu[c].len)
            /\ inq' = [k \in 1 .. (sent + 1) |-> CommandWord(c, k - 1)]
         \/ /\ pc' = "cmd"
            /\ inq' = [k \in 1 .. (F!Padded(Menu[c].len) \div 4) |-> CommandWord(c, k - 1)]
  BY Zenon, <1>2, WordAccepted
<1>4. c' = c /\ sent' = sent + 1 /\ got' = <<>> /\ sent + 1 \in Nat
  BY <1>2 DEF SendWord
<1>5. Sending'
  BY Zenon, <1>2, <1>3, <1>4 DEF Sending, CommandArrives, CommandWord, F!Padded
<1> QED
  BY Zenon, <1>1, <1>3, <1>5 DEF FInv, Receiving, ReadingPc

\* The response is queued before the write of CMD_REG returns, whether the
\* window refuses the command or the command chain answers it.
LEMMA Executed ==
  ASSUME IInv, c \in Option, got = <<>>, mode = "RECEIVING", SendExecute,
         inq = [k \in 1 .. (F!Padded(Menu[c].len) \div 4) |-> CommandWord(c, k - 1)]
  PROVE  pc' = "poll" /\ IInv' /\ Reading' /\ Len(got)' = 0
<1>1. /\ c \in Option /\ got = <<>> /\ mode = "RECEIVING"
      /\ inq = [k \in 1 .. (F!Padded(Menu[c].len) \div 4) |-> CommandWord(c, k - 1)]
  BY Zenon
<1>2. pc' = "poll" /\ got' = <<>>
  BY Zenon, <1>1 DEF SendExecute
<1>3. F!Execute(rsp')
  BY Zenon, <1>1 DEF SendExecute
<1>4. IInv'
  <2>1. CASE F!Malformed(inq)
    <3>1. /\ rsp' = ErrorResponse("TPM_RC_COMMAND_SIZE")
          /\ UNCHANGED nvState /\ UNCHANGED <<primary, next_transient_handle>>
      BY Zenon, <1>1, <2>1 DEF SendExecute
    <3>2. ResponseFits'
      BY <3>1, SizeAssumption DEF ResponseFits, ErrorResponse
    <3> QED
      BY Zenon, <3>1, <3>2, NvUnchanged DEF IInv, TypeOK
  <2>2. CASE ~F!Malformed(inq)
    <3>1. command' = Menu[inq[1].option].command /\ tpm2_process_command(command')
      BY Zenon, <1>1, <2>2 DEF SendExecute
    <3>2. command' \in Command
      <4> DEFINE n == Menu[c].len
      <4>1. n \in Nat \ {0} /\ Menu[c].command \in Command
        BY Zenon, <1>1, MenuAssumption
      <4> HIDE DEF n
      <4>2. 1 \in 1 .. (F!Padded(n) \div 4)
        <5>1. PICK w : w = F!Padded(n) \div 4
          BY Zenon
        <5>2. n \in Nat /\ n >= 1
          BY <4>1
        <5>3. w \in Nat /\ n <= 4 * w
          BY Zenon, <5>1, <5>2, PaddedWords
        <5>4. w >= 1
          BY <5>2, <5>3
        <5> QED
          BY <5>1, <5>3, <5>4
      <4>3. inq[1] = CommandWord(c, 1 - 1)
        BY Zenon, <1>1, <4>2 DEF n
      <4>4. inq[1].option = c
        BY <4>3 DEF CommandWord
      <4> QED
        BY Zenon, <3>1, <4>1, <4>4
    <3>3. PICK d \in Command : d = command' /\ tpm2_process_command(d)
      BY <3>1, <3>2, Zenon
    <3> QED
      BY Zenon, <3>3, ProcessInv
  <2> QED
    BY Zenon, <2>1, <2>2
<1>5. Reading' /\ Len(got)' = 0
  BY Zenon, <1>2, <1>3, <1>4, QueuedIsReading DEF F!Execute
<1> QED
  BY Zenon, <1>2, <1>4, <1>5

\* Setting TPM_STS_EXECUTE preserves the invariant: the words the device executes
\* are the command the firmware sent.
LEMMA ExecuteInv ==
  ASSUME FInv, SendExecute PROVE FInv'
<1>1. /\ IInv /\ c \in Option /\ got = <<>> /\ mode = "RECEIVING"
      /\ inq = [k \in 1 .. (F!Padded(Menu[c].len) \div 4) |-> CommandWord(c, k - 1)]
  BY Zenon DEF SendExecute, FInv, Sending, CommandArrives
<1>2. pc' = "poll" /\ IInv' /\ Reading' /\ Len(got)' = 0
  BY Zenon, <1>1, Executed
<1> QED
  BY Zenon, <1>2 DEF FInv, Sending, Receiving, CommandArrives, ReadingPc

\* The device is sending by the time the firmware looks.
LEMMA PollInv ==
  ASSUME FInv, PollProcessing \/ CheckSending PROVE FInv'
<1>1. /\ pc \in {"poll", "check"} /\ Reading /\ Len(got) = 0 /\ mode = "SENDING"
      /\ UNCHANGED deviceVars /\ UNCHANGED got
  <2>1. pc \in {"poll", "check"} /\ UNCHANGED deviceVars /\ UNCHANGED got
    BY Zenon DEF PollProcessing, CheckSending
  <2>2. Reading /\ Len(got) = 0
    BY Zenon, <2>1 DEF FInv, Receiving, ReadingPc
  <2> QED
    BY <2>1, <2>2, WordsFacts DEF FInv, Reading
<1>2. pc' \in {"check", "header"}
  BY Zenon, <1>1 DEF PollProcessing, CheckSending
<1>3. IInv' /\ Reading' /\ Len(got)' = 0
  BY Zenon, <1>1, QuietStep DEF FInv
<1> QED
  BY <1>2, <1>3 DEF FInv, Sending, Receiving, CommandArrives, ReadingPc

\* The three words of the header are read one by one.
LEMMA HeaderInv ==
  ASSUME FInv, ReadHeader PROVE FInv'
<1>1. IInv /\ Reading /\ Len(got) < 3 /\ Len(got) < Words /\ Len(got) \in Nat /\ ReadData
  <2>1. IInv /\ Reading /\ Len(got) < 3 /\ ReadData
    BY Zenon DEF ReadHeader, FInv, Receiving, ReadingPc
  <2> QED
    BY <2>1, WordsFacts DEF Reading
<1>2. Reading' /\ Len(got') = Len(got) + 1 /\ UNCHANGED chainVars
  BY Zenon, <1>1, ReadOne
<1>3. IInv'
  BY Zenon, <1>1, <1>2, StepInv DEF chainVars
<1>4. pc' = IF Len(got) + 1 < 3 THEN "header" ELSE "size"
  BY Zenon, <1>2 DEF ReadHeader
<1>5. /\ pc' = "header" => Len(got)' < 3
      /\ pc' = "size" => Len(got)' = 3
      /\ pc' \in {"header", "size"}
  BY SMTT(30), <1>1, <1>2, <1>4
<1> QED
  BY Zenon, <1>2, <1>3, <1>5 DEF FInv, Sending, Receiving, CommandArrives, ReadingPc

\* The size passes both checks, and decides whether words are left.
LEMMA SizeInv ==
  ASSUME FInv, CheckSize PROVE FInv'
<1>1. IInv /\ Reading /\ Len(got) = 3 /\ UNCHANGED deviceVars /\ UNCHANGED got
  BY Zenon DEF CheckSize, FInv, Receiving, ReadingPc
<1>2. actual_size = rsp.size
  BY SMTT(30), <1>1, ActualSize
<1>3. ~(actual_size > RESPONSE_BUFFER \/ actual_size < 10)
  BY <1>1, <1>2, WordsFacts, MenuAssumption
<1>4. /\ resp_size' = rsp.size
      /\ pc' = IF 12 < 4 * Words THEN "status" ELSE "show"
  BY Zenon, <1>1, <1>2, <1>3, WordsFacts DEF CheckSize
<1>5. IInv' /\ Reading' /\ Words' = Words /\ Len(got)' = 3 /\ rsp' = rsp
  BY Zenon, <1>1, QuietStep
<1>6. \/ pc' = "status" /\ 3 < Words
      \/ pc' = "show" /\ Words = 3
  BY <1>1, <1>4, WordsFacts
<1> QED
  BY <1>4, <1>5, <1>6 DEF FInv, Sending, Receiving, CommandArrives, ReadingPc

\* The device does not stop sending early.
LEMMA StillInv ==
  ASSUME FInv, CheckStillSending PROVE FInv'
<1>1. /\ IInv /\ Reading /\ 3 <= Len(got) /\ Len(got) < Words /\ resp_size = rsp.size
      /\ UNCHANGED deviceVars /\ UNCHANGED got
  BY Zenon DEF CheckStillSending, FInv, Receiving, ReadingPc
<1>2. mode = "SENDING"
  BY Zenon, <1>1 DEF Reading
<1>3. pc' = "data2" /\ resp_size' = resp_size
  BY Zenon, <1>2 DEF CheckStillSending
<1>4. IInv' /\ Reading' /\ Words' = Words /\ Len(got)' = Len(got) /\ rsp' = rsp
  BY Zenon, <1>1, QuietStep
<1> QED
  BY Zenon, <1>1, <1>3, <1>4 DEF FInv, Sending, Receiving, CommandArrives, ReadingPc

\* The loop reads on until the padded size is reached, which is the last word.
LEMMA RestInv ==
  ASSUME FInv, ReadRest PROVE FInv'
<1>1. /\ IInv /\ Reading /\ 3 <= Len(got) /\ Len(got) < Words /\ resp_size = rsp.size
      /\ ReadData /\ Len(got) \in Nat
  BY DEF ReadRest, FInv, Receiving, ReadingPc, Reading
<1>2. Reading' /\ Len(got') = Len(got) + 1 /\ UNCHANGED chainVars
  BY Zenon, <1>1, ReadOne
<1>3. IInv'
  BY Zenon, <1>1, <1>2, StepInv DEF chainVars
<1>4. rsp' = rsp /\ Words' = Words /\ resp_size' = rsp.size
  BY Zenon, <1>1, <1>2 DEF ReadRest, chainVars, vars, Words, F!Padded
<1>5. actual_size = rsp.size
  BY Zenon, <1>1, ActualSize
<1>6. pc' = IF 4 * (Len(got) + 1) < 4 * Words THEN "status" ELSE "show"
  BY Zenon, <1>1, <1>2, <1>5, WordsFacts DEF ReadRest
<1>7. \/ pc' = "status" /\ 3 <= Len(got') /\ Len(got') < Words
      \/ pc' = "show" /\ Len(got') = Words
  BY <1>1, <1>2, <1>6, WordsFacts
<1> QED
  BY Zenon, <1>2, <1>3, <1>4, <1>7 DEF FInv, Sending, Receiving, CommandArrives, ReadingPc

\* Every step of the firmware, and every reset, keeps the invariant.
LEMMA FStep == FInv /\ [FirmwareNext]_allVars => FInv'
<1> SUFFICES ASSUME FInv, [FirmwareNext]_allVars PROVE FInv'
  BY Zenon
<1>1. ASSUME NEW o \in Option \cup {OtherKey}, Select(o) PROVE FInv'
  <2>1. /\ UNCHANGED vars /\ got' = <<>> /\ sent' = 0 /\ c' = o
        /\ pc' = IF o \in Option THEN "ctrl" ELSE "menu"
    BY Zenon, <1>1 DEF Select, deviceVars, chainVars
  <2>2. IInv'
    BY Zenon, <2>1, StepInv DEF FInv
  <2> QED
    BY Zenon, <2>1, <2>2 DEF FInv, Sending, Receiving, CommandArrives, ReadingPc
<1>2. CASE FirmwareStep
  <2>1. CASE Show
    <3>1. UNCHANGED vars /\ pc' = "menu"
      BY Zenon, <2>1 DEF Show, deviceVars, chainVars
    <3>2. IInv'
      BY Zenon, <3>1, StepInv DEF FInv
    <3> QED
      BY Zenon, <3>1, <3>2 DEF FInv, Sending, Receiving, CommandArrives, ReadingPc
  <2> QED
    BY Zenon, <1>2, <2>1, StartInv, WordInv, ExecuteInv, PollInv, HeaderInv, SizeInv,
       StillInv, RestInv DEF FirmwareStep
<1>3. CASE SystemReset
  <2>1. UNCHANGED vars /\ pc' = "menu"
    BY Zenon, <1>3 DEF SystemReset, chainVars
  <2>2. IInv'
    BY Zenon, <2>1, StepInv DEF FInv
  <2> QED
    BY Zenon, <2>1, <2>2 DEF FInv, Sending, Receiving, CommandArrives, ReadingPc
<1>4. CASE KeyTyped \/ UNCHANGED allVars
  <2>1. UNCHANGED deviceVars /\ UNCHANGED <<pc, c, sent, got, resp_size>>
    BY Zenon, <1>4 DEF KeyTyped, allVars, firmwareVars
  <2>2. IInv' /\ (Reading => Reading') /\ Words' = Words /\ Len(got)' = Len(got)
        /\ rsp' = rsp
    BY Zenon, <2>1, QuietStep DEF FInv
  <2>3. mode' = mode /\ inq' = inq
    BY Zenon, <2>1 DEF deviceVars
  <2>4. Sending'
    BY Zenon, <2>1, <2>3 DEF FInv, Sending, CommandArrives, CommandWord, F!Padded
  <2>5. Receiving'
    BY Zenon, <2>1, <2>2 DEF FInv, Receiving
  <2> QED
    BY Zenon, <2>1, <2>2, <2>4, <2>5 DEF FInv
<1> QED
  BY Zenon, <1>1, <1>2, <1>3, <1>4 DEF FirmwareNext

\* What the write of CMD_REG does to the command chain when the device has the
\* whole command.
LEMMA WholeExecuteEffect ==
  ASSUME c \in Option, mode = "RECEIVING", SendExecute,
         inq = [k \in 1 .. (F!Padded(Menu[c].len) \div 4) |-> CommandWord(c, k - 1)]
  PROVE  /\ Menu[c].command \in Command
         /\ \/ /\ TooShort(c) /\ UNCHANGED nvState /\ UNCHANGED primary
               /\ rsp' = ErrorResponse("TPM_RC_COMMAND_SIZE")
            \/ ~TooShort(c) /\ tpm2_process_command(Menu[c].command)
<1>1. /\ c \in Option /\ mode = "RECEIVING"
      /\ inq = [k \in 1 .. (F!Padded(Menu[c].len) \div 4) |-> CommandWord(c, k - 1)]
  BY Zenon
<1>2. F!Malformed(inq) <=> TooShort(c)
  BY Zenon, <1>1 DEF TooShort
<1>3. inq[1].option = c
  <2> DEFINE n == Menu[c].len
  <2>1. n \in Nat \ {0}
    BY Zenon, <1>1, MenuAssumption
  <2> HIDE DEF n
  <2>2. 1 \in 1 .. (F!Padded(n) \div 4)
    BY <2>1, PaddedWords
  <2>3. inq[1] = CommandWord(c, 1 - 1)
    BY Zenon, <1>1, <2>2 DEF n
  <2> QED
    BY <2>3 DEF CommandWord
<1>4. CASE F!Malformed(inq)
  BY Zenon, <1>1, <1>2, <1>4, MenuAssumption DEF SendExecute
<1>5. CASE ~F!Malformed(inq)
  <2>1. command' = Menu[c].command /\ tpm2_process_command(command')
    BY Zenon, <1>1, <1>3, <1>5 DEF SendExecute
  <2>2. Menu[c].command \in Command
    BY Zenon, <1>1, MenuAssumption
  <2>3. PICK d \in Command : d = command' /\ tpm2_process_command(d)
    BY <2>1, <2>2, Zenon
  <2> QED
    BY Zenon, <1>2, <1>5, <2>1, <2>2, <2>3
<1> QED
  BY Zenon, <1>4, <1>5

\* What it does in a machine that is not migrated.
LEMMA ExecuteEffect ==
  ASSUME FInv, SendExecute
  PROVE  /\ Menu[c].command \in Command
         /\ \/ /\ TooShort(c) /\ UNCHANGED nvState /\ UNCHANGED primary
               /\ rsp' = ErrorResponse("TPM_RC_COMMAND_SIZE")
            \/ ~TooShort(c) /\ tpm2_process_command(Menu[c].command)
<1>1. /\ c \in Option /\ mode = "RECEIVING"
      /\ inq = [k \in 1 .. (F!Padded(Menu[c].len) \div 4) |-> CommandWord(c, k - 1)]
  BY Zenon DEF SendExecute, FInv, Sending, CommandArrives
<1> QED
  BY Zenon, <1>1, WholeExecuteEffect

\* No other step touches the command chain, or begins to read a response.
LEMMA OnlyExecute ==
  ASSUME [FirmwareNext]_allVars
  PROVE  \/ SendExecute
         \/ /\ UNCHANGED vars
            /\ pc' \in ReadingPc => pc \in ReadingPc /\ c' = c
<1>1. ASSUME NEW o \in Option \cup {OtherKey}, Select(o)
      PROVE  UNCHANGED vars /\ pc' \notin ReadingPc
  BY Zenon, <1>1 DEF Select, deviceVars, chainVars, ReadingPc
<1>2. ASSUME SendStart \/ SendWord \/ SystemReset \/ Show
      PROVE  UNCHANGED vars /\ pc' \notin ReadingPc
  BY Zenon, <1>2 DEF SendStart, SendWord, SystemReset, Show, deviceVars, chainVars, ReadingPc
<1>3. ASSUME PollProcessing \/ CheckSending \/ CheckSize \/ CheckStillSending
      PROVE  UNCHANGED vars /\ pc \in ReadingPc /\ c' = c
  BY Zenon, <1>3 DEF PollProcessing, CheckSending, CheckSize, CheckStillSending, deviceVars,
     chainVars, ReadingPc
<1>4. ASSUME ReadHeader \/ ReadRest
      PROVE  UNCHANGED vars /\ pc \in ReadingPc /\ c' = c
  BY Zenon, <1>4 DEF ReadHeader, ReadRest, ReadData, chainVars, ReadingPc
<1>5. CASE KeyTyped \/ UNCHANGED allVars
  BY Zenon, <1>5 DEF KeyTyped, allVars, deviceVars, chainVars, firmwareVars
<1> QED
  BY Zenon, <1>1, <1>2, <1>3, <1>4, <1>5 DEF FirmwareNext, FirmwareStep

\* The invariant holds for every menu and every sequence of keys and resets.
THEOREM FirmwareInvariant == FirmwareSpec => []FInv
  BY FInit, FStep, PTL DEF FirmwareSpec

\* Commands reach the device whole, whatever a reset cut short before.
THEOREM CommandArrivesAlways == FirmwareSpec => []CommandArrives
<1>1. FInv => CommandArrives
  BY Zenon DEF FInv, Sending
<1> QED
  BY <1>1, FirmwareInvariant, PTL

\* Responses reach the firmware whole: none of the error exits of
\* tpm_read_response is taken, for every response the handlers can give.
THEOREM AnswerWholeAlways == FirmwareSpec => []AnswerWhole
<1>1. FInv => AnswerWhole
  <2> SUFFICES ASSUME FInv, pc = "show"
               PROVE /\ resp_size = rsp.size
                     /\ 4 * Len(got) = F!Padded(rsp.size)
                     /\ \A i \in 0 .. ((rsp.size - 1) \div 2) :
                          got[(i \div 2) + 1][(i % 2) + 1] = <<rsp, i>>
                     /\ mode = "IDLE" /\ outq = <<>>
    BY Zenon DEF AnswerWhole
  <2>1. IInv /\ Reading /\ Len(got) = Words /\ resp_size = rsp.size
    BY Zenon DEF FInv, Receiving, ReadingPc
  <2>2. /\ rsp.size \in Nat /\ Words \in Nat /\ F!Padded(rsp.size) = 4 * Words
        /\ rsp.size <= 4 * Words /\ 10 <= rsp.size
    BY Zenon, <2>1, WordsFacts
  <2>3. mode = "IDLE"
    BY <2>1, <2>2 DEF Reading
  <2>4. outq = <<>>
    <3>1. Words - Len(got) = 0
      BY SMTT(30), <2>1, <2>2
    <3>2. outq = [k \in 1 .. 0 |-> RespWord(Len(got) + k)]
      BY Zenon, <2>1, <3>1 DEF Reading
    <3> QED
      BY <3>2
  <2>5. ASSUME NEW i \in 0 .. ((rsp.size - 1) \div 2)
        PROVE got[(i \div 2) + 1][(i % 2) + 1] = <<rsp, i>>
    <3> DEFINE n == rsp.size
               k == (i \div 2) + 1
    <3>1. i \in Nat /\ 2 * i < n
      <4>1. n \in Nat /\ 10 <= n /\ i \in 0 .. ((n - 1) \div 2)
        BY Zenon, <2>2
      <4> HIDE DEF n
      <4> QED
        BY <4>1
    <3>2. k \in 1 .. Words
      <4>1. n <= 4 * Words /\ n \in Nat /\ Words \in Nat
        BY Zenon, <2>2
      <4> HIDE DEF n
      <4> QED
        BY <3>1, <4>1
    <3>3. got[k] = RespWord(k)
      <4> HIDE DEF k
      <4> QED
        BY Zenon, <2>1, <3>2 DEF Reading
    <3>4. F!RespHalf(rsp, i) = <<rsp, i>>
      BY Zenon, <3>1 DEF F!RespHalf
    <3>5. \/ i % 2 = 0 /\ 2 * k - 2 = i
          \/ i % 2 = 1 /\ 2 * k - 1 = i
      BY <3>1
    <3> HIDE DEF k
    <3>6. CASE i % 2 = 0 /\ 2 * k - 2 = i
      <4>1. got[k][1] = F!RespHalf(rsp, i)
        BY SMTT(30), <3>3, <3>6 DEF RespWord
      <4> QED
        BY SMTT(30), <3>4, <3>6, <4>1 DEF k
    <3>7. CASE i % 2 = 1 /\ 2 * k - 1 = i
      <4>1. got[k][2] = F!RespHalf(rsp, i)
        BY <3>3, <3>7 DEF RespWord
      <4> QED
        BY SMTT(30), <3>4, <3>7, <4>1 DEF k
    <3> QED
      BY Zenon, <3>5, <3>6, <3>7
  <2> QED
    BY Zenon, <2>1, <2>2, <2>3, <2>4, <2>5
<1> QED
  BY <1>1, FirmwareInvariant, PTL

\* What was written to NV can be read back, whatever is typed and wherever the
\* machine is reset.
THEOREM FirmwareReadBack == FirmwareSpec => []ReadBack
<1>1. FInv => ReadBack
  BY Zenon, InvReadBack DEF FInv
<1> QED
  BY <1>1, FirmwareInvariant, PTL

\* An index is permanent, whatever is typed and wherever the machine is reset.
THEOREM FirmwareNvPermanent == FirmwareSpec => NvPermanent
<1> DEFINE A == \A i \in DOMAIN nv_map : IndexKept(i)
<1>1. FInv /\ [FirmwareNext]_allVars => [A]_vars
  <2> SUFFICES ASSUME FInv, [FirmwareNext]_allVars, NEW j \in DOMAIN nv_map
               PROVE  IndexKept(j)
    BY Zenon
  <2>1. CASE SendExecute
    BY Zenon, <2>1, ExecuteEffect, ProcessKept, QuietKept DEF FInv
  <2>2. CASE UNCHANGED vars
    BY Zenon, <2>2, QuietKept DEF vars
  <2> QED
    BY Zenon, <2>1, <2>2, OnlyExecute
<1>2. NvPermanent <=> [][A]_vars
  BY Zenon DEF NvPermanent
<1> QED
  BY <1>1, <1>2, FirmwareInvariant, PTL DEF FirmwareSpec

-----------------------------------------------------------------------------
\* The write that option 4 makes.
TestWrite ==
  [index |-> Menu["4"].command.nvIndex, key |-> "TPM_RH_OWNER",
   offset |-> Menu["4"].command.offset, data |-> Menu["4"].command.data]

\* Option 8 reads beyond its index, if that is an index of m.
Oversize(m) ==
  LET k == Menu["8"].command
  IN k.nvIndex \in DOMAIN m => k.offset + k.sizeToRead > m[k.nvIndex].dataSize

\* What the menu does to the device: the key stays the owner's, nothing but
\* TestWrite is ever written, the index of option 8 is smaller than what that
\* reads, and the index of option b is never defined.
MenuEffect ==
  /\ primary = "TPM_RH_OWNER"
  /\ live \subseteq {TestWrite}
  /\ "8" \in Option => Oversize(nv_map)
  /\ "b" \in Option => Menu["b"].command.nvIndex \notin DOMAIN nv_map

\* What the response says, of TestReadsBack and NegativeTestsRefused.
Shown ==
  /\ c = "5" /\ live # {} =>
       /\ rsp.code = "TPM_RC_SUCCESS"
       /\ rsp.body = Menu["4"].command.data.buffer
  /\ c = "6" => rsp.code = "TPM_RC_COMMAND_SIZE"
  /\ c \in {"7", "c"} => rsp.code = "TPM_RC_SIZE"
  /\ c = "8" /\ live # {} => rsp.code = "TPM_RC_NV_RANGE"
  /\ c \in {"8", "9", "a", "b"} => rsp.code # "TPM_RC_SUCCESS"

TInv == FInv /\ MenuEffect /\ (pc \in ReadingPc => Shown)

\* Only NV_DefineSpace adds an index.
LEMMA NewIndex ==
  ASSUME NEW k, tpm2_process_command(k), DOMAIN nv_map' # DOMAIN nv_map
  PROVE  /\ k.code = "TPM_CC_NV_DefineSpace"
         /\ nv_entry_alloc(k.nvIndex, k.attributes, k.dataSize)
<1>1. Dispatch(k) /\ ~UNCHANGED nvState
  BY Zenon DEF tpm2_process_command, nvState
<1>2. k.code # "TPM_CC_GetRandom" /\ k.code # "TPM_CC_NV_Read"
  BY Zenon, <1>1 DEF Dispatch, handle_GetRandom, handle_NV_Read
<1>3. k.code # "TPM_CC_CreatePrimary"
  BY Zenon, <1>1 DEF Dispatch, handle_CreatePrimary, tpm2_CreatePrimary
<1>4. k.code # "TPM_CC_NV_Write"
  BY Zenon, <1>1 DEF Dispatch, handle_NV_Write, TPM2_NV_Write
<1>5. handle_NV_DefineSpace(k.authHandle, k.nvIndex, k.attributes, k.dataSize)
  BY Zenon, <1>1, <1>2, <1>3, <1>4 DEF Dispatch
<1> QED
  BY Zenon, <1>1, <1>2, <1>3, <1>4, <1>5 DEF Dispatch, handle_NV_DefineSpace

\* Option 8 reads beyond its index after a command as before it: indexes keep
\* their size, and no option defines a large one.
LEMMA OversizeStep ==
  ASSUME IInv, MenuEffect, "8" \in Option, c \in Option, Menu[c].command \in Command,
         tpm2_process_command(Menu[c].command)
  PROVE  Oversize(nv_map')
<1> DEFINE k == Menu[c].command
           e == Menu["8"].command
<1> SUFFICES ASSUME e.nvIndex \in DOMAIN nv_map'
             PROVE  e.offset + e.sizeToRead > nv_map'[e.nvIndex].dataSize
  BY Zenon DEF Oversize
<1>1. CASE e.nvIndex \in DOMAIN nv_map
  <2>1. nv_map'[e.nvIndex].dataSize = nv_map[e.nvIndex].dataSize
    BY Zenon, <1>1, ProcessKept DEF IndexKept
  <2> QED
    BY Zenon, <1>1, <2>1 DEF MenuEffect, Oversize
<1>2. CASE e.nvIndex \notin DOMAIN nv_map
  <2>1. /\ k.code = "TPM_CC_NV_DefineSpace"
        /\ nv_entry_alloc(k.nvIndex, k.attributes, k.dataSize)
    BY Zenon, <1>2, NewIndex
  <2>2. /\ nv_map'[k.nvIndex] = Entry(k.attributes, k.dataSize, nv_alloc_offset)
        /\ DOMAIN nv_map' = DOMAIN nv_map \cup {k.nvIndex}
    BY Zenon, <2>1 DEF nv_entry_alloc
  <2>3. e.nvIndex = k.nvIndex
    BY Zenon, <1>2, <2>2
  <2>4. nv_map'[e.nvIndex].dataSize = k.dataSize
    <3>1. Entry(k.attributes, k.dataSize, nv_alloc_offset).dataSize = k.dataSize
      BY Zenon DEF Entry
    <3> QED
      BY Zenon, <2>2, <2>3, <3>1
  <2>5. e.offset + e.sizeToRead > k.dataSize
    BY Zenon, <2>1, <2>3, TestAssumption
  <2> QED
    BY Zenon, <2>4, <2>5
<1> QED
  BY Zenon, <1>1, <1>2

\* The menu keeps MenuEffect.
LEMMA EffectStep ==
  ASSUME IInv, MenuEffect, c \in Option, ~TooShort(c), Menu[c].command \in Command,
         tpm2_process_command(Menu[c].command)
  PROVE  MenuEffect'
<1> DEFINE k == Menu[c].command
<1>3. "8" \in Option => Oversize(nv_map')
  BY Zenon, OversizeStep
<1>1. CASE UNCHANGED nvState /\ UNCHANGED primary
  BY Zenon, <1>1 DEF MenuEffect, Oversize, nvState, TestWrite
<1>2. CASE Dispatch(k)
  <2>1. CASE k.code = "TPM_CC_GetRandom"
    BY Zenon, <1>1, <1>2, <2>1 DEF Dispatch, handle_GetRandom
  <2>2. CASE k.code = "TPM_CC_NV_Read"
    BY Zenon, <1>1, <1>2, <2>2 DEF Dispatch, handle_NV_Read
  <2>3. CASE k.code = "TPM_CC_CreatePrimary"
    <3>1. k.primaryHandle = "TPM_RH_OWNER" /\ TypeIsEcc(k) = {TRUE}
      BY Zenon, <2>3, TestAssumption
    <3>2. handle_CreatePrimary("TPM_RH_OWNER", TRUE)
      <4>1. \E ecc \in TypeIsEcc(k) : handle_CreatePrimary(k.primaryHandle, ecc)
        BY Zenon, <1>2, <2>3 DEF Dispatch
      <4> QED
        BY Zenon, <3>1, <4>1
    <3>3. UNCHANGED nvState /\ primary' = "TPM_RH_OWNER"
      BY Zenon, <3>2 DEF handle_CreatePrimary, tpm2_CreatePrimary, Hierarchy
    <3> QED
      BY Zenon, <1>1, <3>3 DEF MenuEffect
  <2>4. CASE k.code = "TPM_CC_NV_DefineSpace"
    <3>1. handle_NV_DefineSpace(k.authHandle, k.nvIndex, k.attributes, k.dataSize)
      BY Zenon, <1>2, <2>4 DEF Dispatch
    <3>2. /\ live' = live /\ primary' = primary
          /\ DOMAIN nv_map' \subseteq DOMAIN nv_map \cup {k.nvIndex}
      BY Zenon, <3>1 DEF handle_NV_DefineSpace, nv_entry_alloc, nvState
    <3>3. "b" \in Option => Menu["b"].command.nvIndex # k.nvIndex
      BY Zenon, <2>4, TestAssumption
    <3> QED
      BY Zenon, <1>3, <3>2, <3>3 DEF MenuEffect, Oversize, TestWrite
  <2>5. CASE k.code = "TPM_CC_NV_Write"
    <3>1. c = "4"
      BY Zenon, <2>5, TestAssumption
    <3>2. handle_NV_Write(k.authHandle, k.nvIndex, k.data, k.offset)
      BY Zenon, <1>2, <2>5 DEF Dispatch
    <3>3. CASE ~Passes(WriteChecks(k.authHandle, k.nvIndex, k.data, k.offset))
      BY Zenon, <1>1, <3>2, <3>3 DEF handle_NV_Write
    <3>4. CASE Passes(WriteChecks(k.authHandle, k.nvIndex, k.data, k.offset))
      <4>1. /\ primary' = primary /\ DOMAIN nv_map' = DOMAIN nv_map
            /\ live' \subseteq live \cup
                 {[index |-> k.nvIndex, key |-> primary, offset |-> k.offset, data |-> k.data]}
        BY Zenon, <3>2, <3>4 DEF handle_NV_Write, TPM2_NV_Write
      <4>2. [index |-> k.nvIndex, key |-> primary, offset |-> k.offset, data |-> k.data]
              = TestWrite
        BY Zenon, <3>1 DEF MenuEffect, TestWrite
      <4> QED
        BY Zenon, <1>3, <4>1, <4>2 DEF MenuEffect, Oversize, TestWrite
    <3> QED
      BY Zenon, <3>3, <3>4
  <2> QED
    BY Zenon, <1>2, <2>1, <2>2, <2>3, <2>4, <2>5 DEF Dispatch
<1> QED
  BY Zenon, <1>1, <1>2 DEF tpm2_process_command

\* Option 5 answers what option 4 wrote.
LEMMA ReadShown ==
  ASSUME IInv, MenuEffect, c = "5", c \in Option, live' # {},
         Menu[c].command \in Command, tpm2_process_command(Menu[c].command)
  PROVE  rsp'.code = "TPM_RC_SUCCESS" /\ rsp'.body = Menu["4"].command.data.buffer
<1> DEFINE k == Menu["5"].command
           n == k.sizeToRead
           w == TestWrite
<1>1. /\ Passes(ChainChecks(k)) /\ k.code = "TPM_CC_NV_Read"
      /\ k.nvIndex = w.index /\ k.offset = w.offset /\ n = w.data.size
      /\ 12 + n <= BufSize
  BY Zenon, TestAssumption DEF WellFormed, TestWrite
<1>2. handle_NV_Read(k.nvIndex, n, k.offset)
  BY Zenon, <1>1 DEF tpm2_process_command, Dispatch
<1>3. rsp' = ReadResult("TPM_RH_OWNER", k.nvIndex, n, k.offset) /\ live' = live
  BY Zenon, <1>2 DEF handle_NV_Read, MenuEffect, nvState
<1>4. w \in live /\ w.key = "TPM_RH_OWNER"
  BY Zenon, <1>3 DEF MenuEffect, TestWrite
<1>5. /\ w.data \in Buffer /\ w.data.size >= 1 /\ w.data.size \in Nat
      /\ w.data.buffer \in [0 .. (w.data.size - 1) -> Byte]
  <2> HIDE DEF w
  <2>1. w.data \in Buffer /\ w.data.size >= 1
    BY Zenon, <1>4 DEF IInv, TypeOK, LiveCells
  <2> QED
    BY Zenon, <2>1, InputAssumption
<1>6. ReadResult(w.key, w.index, n, w.offset) = SuccessResponse(2 + n, FirstBytes(w.data.buffer, n))
  <2> HIDE DEF w
  <2>1. n \in 1 .. w.data.size
    BY <1>1, <1>5
  <2> HIDE DEF n
  <2> QED
    BY Zenon, <1>1, <1>4, <2>1, InvReadBack DEF ReadBack
<1>7. FirstBytes(w.data.buffer, n) = w.data.buffer
  <2> HIDE DEF w
  <2> QED
    BY Zenon, <1>1, <1>5 DEF FirstBytes
<1>8. rsp' = SuccessResponse(2 + n, w.data.buffer)
  BY Zenon, <1>1, <1>3, <1>4, <1>6, <1>7
<1>9. w.data.buffer = Menu["4"].command.data.buffer
  BY Zenon DEF TestWrite
<1> QED
  BY Zenon, <1>8, <1>9 DEF SuccessResponse

\* The chain and the handlers refuse the negative tests that pass the window.
LEMMA NegativeShown ==
  ASSUME IInv, MenuEffect, c \in Option, Menu[c].command \in Command,
         tpm2_process_command(Menu[c].command)
  PROVE  /\ c \in {"7", "c"} => rsp'.code = "TPM_RC_SIZE"
         /\ c = "8" /\ live' # {} => rsp'.code = "TPM_RC_NV_RANGE"
         /\ c \in {"8", "b"} => rsp'.code # "TPM_RC_SUCCESS"
<1> DEFINE k == Menu[c].command
<1>1. ASSUME c \in {"7", "c"} PROVE rsp'.code = "TPM_RC_SIZE"
  <2>1. /\ Passes(ChainChecks(k)) /\ k.code = "TPM_CC_GetRandom"
        /\ k.bytesRequested > RANDOM_SIZE
    BY Zenon, <1>1, TestAssumption DEF WellFormed
  <2>2. handle_GetRandom(k.bytesRequested)
    BY Zenon, <2>1 DEF tpm2_process_command, Dispatch
  <2> QED
    BY Zenon, <2>1, <2>2 DEF handle_GetRandom, ErrorResponse
<1>2. ASSUME c \in {"8", "b"}
      PROVE  /\ rsp'.code # "TPM_RC_SUCCESS"
             /\ c = "8" /\ live' # {} => rsp'.code = "TPM_RC_NV_RANGE"
  <2> DEFINE checks == ReadChecks(primary, k.nvIndex, k.sizeToRead, k.offset)
             S == {checks[x] : x \in 1 .. 6}
  <2>1. Passes(ChainChecks(k)) /\ k.code = "TPM_CC_NV_Read"
    BY Zenon, <1>2, TestAssumption DEF WellFormed
  <2>2. handle_NV_Read(k.nvIndex, k.sizeToRead, k.offset)
    BY Zenon, <2>1 DEF tpm2_process_command, Dispatch
  <2>3. live' = live
    BY Zenon, <2>2 DEF handle_NV_Read, nvState
  <2>4. k.nvIndex \in DOMAIN nv_map =>
          c = "8" /\ k.offset + k.sizeToRead > nv_map[k.nvIndex].dataSize
    BY Zenon, <1>2 DEF MenuEffect, Oversize
  <2>5. ~Passes(checks)
    BY Zenon, <2>4, ReadPasses
  <2>6. rsp' = ErrorResponse(FirstFailure(checks))
    BY Zenon, <2>2, <2>5 DEF handle_NV_Read, ReadResult
  <2>7. FirstFailure(checks) # "TPM_RC_SUCCESS"
    <3>1. checks \in [1 .. 6 -> S]
      BY DEF ReadChecks
    <3> HIDE DEF checks, S
    <3>2. PICK m \in Nat : checks \in [1 .. m -> S]
      BY Zenon, <3>1
    <3>3. checks \in Seq(S)
      BY SMTT(30), <3>2
    <3> QED
      BY Zenon, <2>5, <3>3, FirstFailureFails
  <2>8. ASSUME c = "8", live' # {} PROVE FirstFailure(checks) = "TPM_RC_NV_RANGE"
    <3>1. k.nvIndex \in DOMAIN nv_map /\ nv_map[k.nvIndex].written
      <4>1. k.nvIndex = TestWrite.index
        BY Zenon, <2>8, TestAssumption DEF TestWrite
      <4>2. TestWrite \in live
        BY Zenon, <2>3, <2>8 DEF MenuEffect
      <4> HIDE DEF k
      <4> QED
        BY Zenon, <4>1, <4>2 DEF IInv, LiveCells
    <3>2. /\ DOMAIN checks = 1 .. 6
          /\ checks[1] = Fail(k.nvIndex \notin DOMAIN nv_map, "TPM_RC_HANDLE")
          /\ checks[2] = Fail(~Lookup(k.nvIndex).written, "TPM_RC_NV_UNINITIALIZED")
          /\ checks[3] = Fail(k.offset + k.sizeToRead > Lookup(k.nvIndex).dataSize,
                              "TPM_RC_NV_RANGE")
      BY DEF ReadChecks
    <3> HIDE DEF checks
    <3>3. /\ checks[1] = "TPM_RC_SUCCESS" /\ checks[2] = "TPM_RC_SUCCESS"
          /\ checks[3] = "TPM_RC_NV_RANGE"
      BY Zenon, <2>4, <3>1, <3>2 DEF Fail, Lookup
    <3> DEFINE First(x) == /\ checks[x] # "TPM_RC_SUCCESS"
                           /\ \A j \in DOMAIN checks : checks[j] # "TPM_RC_SUCCESS" => x <= j
    <3>4. 3 \in DOMAIN checks /\ First(3) /\ \A x \in DOMAIN checks : First(x) => x = 3
      BY <3>2, <3>3
    <3>5. (CHOOSE x \in DOMAIN checks : First(x)) = 3
      <4> HIDE DEF First
      <4> QED
        BY Zenon, <3>4
    <3> QED
      BY Zenon, <3>3, <3>5 DEF FirstFailure
  <2> HIDE DEF checks, S
  <2> QED
    BY Zenon, <2>6, <2>7, <2>8 DEF ErrorResponse
<1> QED
  BY Zenon, <1>1, <1>2

\* The firmware starts with the owner's key and nothing written.
LEMMA TInit == FirmwareInit => TInv
<1> SUFFICES ASSUME FirmwareInit PROVE TInv
  BY Zenon
<1>1. MenuEffect
  BY Zenon, TestAssumption DEF FirmwareInit, Init, MenuEffect, Oversize
<1>2. pc = "menu"
  BY Zenon DEF FirmwareInit
<1> QED
  BY Zenon, <1>1, <1>2, FInit DEF TInv, ReadingPc

\* Every step keeps what the responses to the tests say.
LEMMA TStep == TInv /\ [FirmwareNext]_allVars => TInv'
<1> SUFFICES ASSUME TInv, [FirmwareNext]_allVars PROVE TInv'
  BY Zenon
<1>1. FInv'
  BY Zenon, FStep DEF TInv
<1>2. CASE SendExecute
  <2>1. /\ IInv /\ MenuEffect /\ c \in Option /\ c' = c
        /\ Menu[c].command \in Command
    BY Zenon, <1>2, MenuAssumption DEF TInv, FInv, Sending, SendExecute
  <2>2. CASE TooShort(c) /\ UNCHANGED nvState /\ UNCHANGED primary
             /\ rsp' = ErrorResponse("TPM_RC_COMMAND_SIZE")
    <3>1. MenuEffect'
      BY Zenon, <2>1, <2>2 DEF MenuEffect, Oversize, nvState, TestWrite
    <3>2. c \notin {"5", "7", "8", "c"}
      BY Zenon, <2>1, <2>2, TestAssumption DEF WellFormed
    <3>3. Shown'
      BY Zenon, <2>1, <2>2, <3>2 DEF Shown, ErrorResponse
    <3> QED
      BY Zenon, <1>1, <3>1, <3>3 DEF TInv
  <2>3. CASE ~TooShort(c) /\ tpm2_process_command(Menu[c].command)
    <3>1. MenuEffect'
      BY Zenon, <2>1, <2>3, EffectStep
    <3>2. c \notin {"6", "9", "a"}
      BY Zenon, <2>1, <2>3, TestAssumption
    <3>3. c = "5" /\ live' # {} =>
            rsp'.code = "TPM_RC_SUCCESS" /\ rsp'.body = Menu["4"].command.data.buffer
      BY Zenon, <2>1, <2>3, ReadShown
    <3>4. /\ c \in {"7", "c"} => rsp'.code = "TPM_RC_SIZE"
          /\ c = "8" /\ live' # {} => rsp'.code = "TPM_RC_NV_RANGE"
          /\ c \in {"8", "b"} => rsp'.code # "TPM_RC_SUCCESS"
      BY Zenon, <2>1, <2>3, NegativeShown
    <3>5. Shown'
      BY Zenon, <2>1, <3>2, <3>3, <3>4 DEF Shown
    <3> QED
      BY Zenon, <1>1, <3>1, <3>5 DEF TInv
  <2> QED
    BY Zenon, <1>2, <2>2, <2>3, ExecuteEffect DEF TInv
<1>3. CASE /\ UNCHANGED vars
           /\ pc' \in ReadingPc => pc \in ReadingPc /\ c' = c
  <2>1. MenuEffect'
    BY Zenon, <1>3 DEF TInv, MenuEffect, Oversize, vars, nvState, TestWrite
  <2>2. pc' \in ReadingPc => Shown'
    BY Zenon, <1>3 DEF TInv, Shown, vars, nvState
  <2> QED
    BY Zenon, <1>1, <2>1, <2>2 DEF TInv, ReadingPc
<1> QED
  BY Zenon, <1>2, <1>3, OnlyExecute DEF TInv

\* The responses to the tests of the menu say what they should, in every state
\* in which the firmware reads or shows one.
THEOREM TestInvariant == FirmwareSpec => []TInv
  BY TInit, TStep, PTL DEF FirmwareSpec

\* Once option 4 has written, option 5 shows it for ever: for every bank, block
\* and buffer size and every text, whatever is typed and wherever resets strike.
THEOREM TestReadsBackAlways == FirmwareSpec => []TestReadsBack
<1>1. TInv => TestReadsBack
  BY Zenon DEF TInv, Shown, TestReadsBack, ReadingPc
<1> QED
  BY <1>1, TestInvariant, PTL

\* The negative tests are refused for ever, and none of them has ever written to
\* the bank: the window and the handlers refuse them in every order of commands
\* and resets, for every bank, block and buffer size.
THEOREM NegativeTestsRefusedAlways == FirmwareSpec => []NegativeTestsRefused
<1>1. TInv => NegativeTestsRefused
  <2>1. TestWrite.data = Menu["4"].command.data
    BY Zenon DEF TestWrite
  <2>2. TInv => \A w \in live : w.data = Menu["4"].command.data
    BY Zenon, <2>1 DEF TInv, MenuEffect
  <2> QED
    BY Zenon, <2>2 DEF TInv, Shown, NegativeTestsRefused, ReadingPc
<1> QED
  BY <1>1, TestInvariant, PTL
=============================================================================
