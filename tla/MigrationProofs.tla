-------------------------- MODULE MigrationProofs ---------------------------
(***************************************************************************)
(* The machine of Migration: wherever migrations and resets strike, the    *)
(* device gets a command whole or ignores it, and what the firmware shows  *)
(* is the beginning of one answer.                                         *)
(***************************************************************************)
EXTENDS Migration, FirmwareProofs

\* The firmware has read n words of the response and zeros after them.
Got(n) ==
  /\ n \in Nat /\ Len(got) \in Nat /\ n <= Len(got) /\ n <= Words
  /\ got = [k \in 1 .. Len(got) |-> IF k <= n THEN RespWord(k) ELSE F!NoData]

\* A migration took the rest of the response away.
Cut(n) == Got(n) /\ mode = "IDLE" /\ outq = <<>>

MSending ==
  /\ pc \in {"ctrl", "data", "cmd"} => c \in Option /\ got = <<>> /\ resp_size = 0
  /\ pc = "ctrl" => sent = 0
  /\ pc = "data" => /\ sent \in Nat /\ 4 * sent < F!Padded(Menu[c].len)
                    /\ \/ /\ mode = "RECEIVING"
                          /\ inq = [k \in 1 .. sent |-> CommandWord(c, k - 1)]
                       \/ mode = "IDLE" /\ inq = <<>>
  /\ WholeOrIgnored

\* Between a look at the state and the next one the firmware reads at most one
\* word that is not there, after the header.
MReceiving ==
  /\ pc \in {"poll", "check"} => Len(got) = 0 /\ resp_size = 0
  /\ pc = "header" => Len(got) < 3
  /\ pc = "size" => Len(got) = 3
  /\ pc \in {"poll", "check", "header", "size"} => Reading \/ \E n : Cut(n)
  /\ pc \in {"status", "data2"} =>
       /\ 3 <= Len(got) /\ Len(got) < Words /\ resp_size = rsp.size
       /\ Reading \/ \E n : Cut(n) /\ n >= 2 /\ n >= Len(got) - 1
  /\ pc = "data2" => Reading \/ Cut(Len(got))
  /\ AnswerPrefix

\* The inductive invariant of the composition with migrations.
MInv ==
  /\ IInv
  /\ pc \in {"menu", "ctrl", "data", "cmd"} \cup ReadingPc
  /\ MSending
  /\ MReceiving

\* The s bytes of g that the firmware shows are the beginning of response r.
Begins(g, r, s) ==
  \E n \in 0 .. s :
    /\ s <= 12 \/ s - n <= 4
    /\ \A i \in 0 .. ((s - 1) \div 2) :
         g[(i \div 2) + 1][(i % 2) + 1] = IF 2 * i < n THEN <<r, i>> ELSE F!Stale

Half(g, i) == g[(i \div 2) + 1][(i % 2) + 1]

\* n words of response r, in L words.
Filled(g, r, n, L) ==
  g = [k \in 1 .. L |-> IF k <= n THEN <<F!RespHalf(r, 2 * k - 2), F!RespHalf(r, 2 * k - 1)>>
                                  ELSE F!NoData]

-----------------------------------------------------------------------------
\* Half i of the words read.
LEMMA HalfRead ==
  ASSUME NEW g, NEW r, NEW n \in Nat, NEW L \in Nat, Filled(g, r, n, L),
         NEW i \in Nat, 2 * i < 4 * L
  PROVE  Half(g, i) = IF 2 * i < 4 * n THEN F!RespHalf(r, i) ELSE F!Stale
<1> DEFINE k == (i \div 2) + 1
<1>1. /\ k \in 1 .. L /\ (k <= n <=> 2 * i < 4 * n)
      /\ \/ i % 2 = 0 /\ 2 * k - 2 = i
         \/ i % 2 = 1 /\ 2 * k - 1 = i
  OBVIOUS
<1> HIDE DEF k
<1>2. g[k] = IF k <= n THEN <<F!RespHalf(r, 2 * k - 2), F!RespHalf(r, 2 * k - 1)>>
                       ELSE F!NoData
  BY Zenon, <1>1 DEF Filled
<1>3. CASE 2 * i < 4 * n
  <2>1. g[k] = <<F!RespHalf(r, 2 * k - 2), F!RespHalf(r, 2 * k - 1)>>
    BY Zenon, <1>1, <1>2, <1>3
  <2>2. g[k][1] = F!RespHalf(r, 2 * k - 2) /\ g[k][2] = F!RespHalf(r, 2 * k - 1)
    BY <2>1
  <2>3. g[k][(i % 2) + 1] = F!RespHalf(r, i)
    BY <1>1, <2>2
  <2> QED
    BY Zenon, <1>3, <2>3 DEF k, Half
<1>4. CASE ~(2 * i < 4 * n)
  <2>1. g[k] = <<F!Stale, F!Stale>>
    BY Zenon, <1>1, <1>2, <1>4 DEF F!NoData
  <2>2. g[k][1] = F!Stale /\ g[k][2] = F!Stale
    BY <2>1
  <2>3. g[k][(i % 2) + 1] = F!Stale
    BY <1>1, <2>2
  <2> QED
    BY Zenon, <1>4, <2>3 DEF k, Half
<1> QED
  BY Zenon, <1>3, <1>4

\* What is shown of words that begin with n words of a response.
LEMMA ShownBegins ==
  ASSUME NEW g, NEW r, NEW n \in Nat, NEW L \in Nat, Filled(g, r, n, L),
         NEW s \in Nat, s >= 1, s <= 4 * L, r.size \in Nat,
         s <= r.size \/ 4 * n <= r.size,
         s <= 12 \/ s - 4 * n <= 4
  PROVE  Begins(g, r, s)
<1> DEFINE z == r.size
           m == IF 4 * n < s THEN 4 * n ELSE s
<1>1. z \in Nat /\ (s <= z \/ 4 * n <= z)
  BY Zenon
<1>2. \A i : F!RespHalf(r, i) = IF 2 * i < z THEN <<r, i>> ELSE F!Stale
  BY Zenon DEF F!RespHalf
<1> HIDE DEF z
<1>3. m \in 0 .. s /\ (s <= 12 \/ s - m <= 4)
  OBVIOUS
<1>4. ASSUME NEW i \in 0 .. ((s - 1) \div 2)
      PROVE  Half(g, i) = IF 2 * i < m THEN <<r, i>> ELSE F!Stale
  <2>1. i \in Nat /\ 2 * i < s /\ 2 * i < 4 * L
    OBVIOUS
  <2>2. Half(g, i) = IF 2 * i < 4 * n THEN F!RespHalf(r, i) ELSE F!Stale
    BY Zenon, <2>1, HalfRead
  <2>3. 2 * i < m <=> 2 * i < 4 * n
    BY <2>1
  <2>4. 2 * i < 4 * n => 2 * i < z
    BY <1>1, <2>1
  <2> HIDE DEF m
  <2> QED
    BY Zenon, <1>2, <2>2, <2>3, <2>4
<1> HIDE DEF m
<1> QED
  BY Zenon, <1>3, <1>4 DEF Begins, Half

\* A response in transit is a beginning of it.
LEMMA ReadingGot ==
  ASSUME IInv, Reading PROVE Got(Len(got)) /\ Len(got) \in Nat
<1>1. Len(got) \in Nat /\ Len(got) <= Words
  BY WordsFacts DEF Reading
<1>2. \A k \in 1 .. Len(got) : k <= Len(got)
  BY <1>1
<1>3. got = [k \in 1 .. Len(got) |-> IF k <= Len(got) THEN RespWord(k) ELSE F!NoData]
  BY Zenon, <1>2 DEF Reading
<1> QED
  BY <1>1, <1>3 DEF Got

\* The words the firmware has read: n of the response, then zeros.
LEMMA GotFilled ==
  ASSUME NEW n, Got(n) PROVE Filled(got, rsp, n, Len(got))
BY Zenon DEF Got, Filled, RespWord

\* The size in the header is the response's, or zero.
LEMMA CutSize ==
  ASSUME IInv, NEW n, Got(n), 3 <= Len(got)
  PROVE  actual_size = IF n >= 2 THEN rsp.size ELSE 0
<1> DEFINE z == rsp.size
<1>1. Len(got) \in Nat /\ n \in Nat /\ z \in Nat /\ 10 <= z
  BY Zenon, WordsFacts DEF Got
<1>2. Filled(got, rsp, n, Len(got))
  BY Zenon, GotFilled
<1>3. \A i \in {1, 2} : Half(got, i) = IF 2 * i < 4 * n THEN F!RespHalf(rsp, i) ELSE F!Stale
  <2>1. ASSUME NEW i \in {1, 2}
        PROVE  Half(got, i) = IF 2 * i < 4 * n THEN F!RespHalf(rsp, i) ELSE F!Stale
    <3>1. i \in Nat /\ 2 * i < 4 * Len(got)
      BY <1>1
    <3> QED
      BY Zenon, <1>1, <1>2, <3>1, HalfRead
  <2> QED
    BY Zenon, <2>1
<1>4. /\ (1 \div 2) + 1 = 1 /\ (1 % 2) + 1 = 2
      /\ (2 \div 2) + 1 = 2 /\ (2 % 2) + 1 = 1
  OBVIOUS
<1>5. /\ got[1][2] = IF 2 * 1 < 4 * n THEN F!RespHalf(rsp, 1) ELSE F!Stale
      /\ got[2][1] = IF 2 * 2 < 4 * n THEN F!RespHalf(rsp, 2) ELSE F!Stale
  BY Zenon, <1>3, <1>4 DEF Half
<1>6. F!RespHalf(rsp, 1) = <<rsp, 1>> /\ F!RespHalf(rsp, 2) = <<rsp, 2>>
  BY <1>1 DEF F!RespHalf
<1>7. <<rsp, 1>> # <<>> /\ <<rsp, 2>> # <<>>
  BY Zenon
<1>8. CASE n >= 2
  BY <1>1, <1>5, <1>6, <1>7, <1>8 DEF actual_size, F!Stale
<1>9. CASE ~(n >= 2)
  <2>1. ~(2 * 2 < 4 * n)
    BY <1>1, <1>9
  <2> QED
    BY Zenon, <1>5, <1>9, <2>1 DEF actual_size
<1> QED
  BY Zenon, <1>8, <1>9

\* AnswerPrefix, of the state after a step.
LEMMA PrefixNext ==
  ASSUME pc' = "show" /\ resp_size' > 0 => Begins(got', rsp', resp_size')
  PROVE  AnswerPrefix'
BY Zenon DEF AnswerPrefix, Begins, F!Stale

\* A read of DATA_REG from a device that holds nothing gives zeros.
LEMMA ReadNothing ==
  ASSUME NEW n, Cut(n), ReadData
  PROVE  Cut(n)' /\ Len(got') = Len(got) + 1 /\ UNCHANGED chainVars
<1> DEFINE L == Len(got)
           S == {RespWord(k) : k \in 1 .. L} \cup {F!NoData}
<1>1. L \in Nat /\ n \in Nat /\ n <= L /\ n <= Words
  BY Zenon DEF Cut, Got
<1>2. UNCHANGED chainVars /\ Words' = Words /\ \A k : RespWord(k)' = RespWord(k)
  BY Zenon DEF ReadData, chainVars, vars, Words, RespWord, F!RespHalf, F!Stale, F!Padded
<1>3. /\ rdata' = F!NoData /\ got' = Append(got, F!NoData)
      /\ mode' = "IDLE" /\ outq' = <<>>
  BY Zenon DEF ReadData, Cut, F!PopNothing
<1>4. got = [k \in 1 .. L |-> IF k <= n THEN RespWord(k) ELSE F!NoData]
  BY Zenon DEF Cut, Got
<1> HIDE DEF L
<1>5. got \in [1 .. L -> S] /\ F!NoData \in S
  BY Zenon, <1>1, <1>4
<1> HIDE DEF S
<1>6. /\ Len(Append(got, F!NoData)) = L + 1
      /\ Append(got, F!NoData) = [k \in 1 .. (L + 1) |-> IF k = L + 1 THEN F!NoData ELSE got[k]]
  BY <1>1, <1>5, IntervalAppend
<1>7. \A k \in 1 .. (L + 1) : (IF k = L + 1 THEN F!NoData ELSE got[k])
                                = IF k <= n THEN RespWord(k) ELSE F!NoData
  BY <1>1, <1>4
<1>8. got' = [k \in 1 .. (L + 1) |-> IF k <= n THEN RespWord(k) ELSE F!NoData]
  BY Zenon, <1>3, <1>6, <1>7
<1>9. Len(got') = L + 1 /\ L + 1 \in Nat /\ n <= L + 1
  BY <1>1, <1>3, <1>6
<1>10. got' = [k \in 1 .. Len(got') |-> IF k <= n THEN RespWord(k)' ELSE F!NoData]
  BY Zenon, <1>2, <1>8, <1>9
<1>11. Got(n)'
  BY Zenon, <1>1, <1>2, <1>9, <1>10 DEF Got, F!NoData, F!Stale
<1> QED
  BY Zenon, <1>2, <1>3, <1>9, <1>11 DEF Cut, L

\* Steps that leave the device alone.
LEMMA QuietCut ==
  ASSUME IInv, UNCHANGED deviceVars, UNCHANGED got
  PROVE  \A n : (Got(n) => Got(n)') /\ (Cut(n) => Cut(n)')
<1>1. /\ Words' = Words /\ \A k : RespWord(k)' = RespWord(k)
      /\ mode' = mode /\ outq' = outq
  BY Zenon DEF deviceVars, chainVars, vars, Words, RespWord, F!RespHalf, F!Stale, F!Padded
<1> QED
  BY Zenon, <1>1 DEF Got, Cut, F!NoData, F!Stale

-----------------------------------------------------------------------------
\* tpm2_realize leaves a device that satisfies the invariant of the handlers,
\* whatever is in the bank that the stream brings.
LEMMA MigrateInv ==
  ASSUME IInv, Migrate PROVE IInv'
<1>1. /\ nv_map' = [i \in {TEST_INDEX} |-> Entry(TestAttrs, TEST_SIZE, 0)]
      /\ nv_count' = 1 /\ nv_alloc_offset' = AES_BLOCK + TEST_SIZE /\ nv_dirty' = TRUE
      /\ primary' = "TPM_RH_OWNER" /\ next_transient_handle' = 1 /\ live' = {}
      /\ nv_bank' = nv_bank /\ rsp' = rsp
  BY Zenon DEF Migrate
<1>2. Entry(TestAttrs, TEST_SIZE, 0) \in EntryType
  BY Zenon, SizeAssumption DEF Entry, TestAttrs, EntryType, AttrBit, ReadBits, WriteBits,
     TPM_NT_ORDINARY
<1>3. TypeOK'
  <2>1. /\ DOMAIN nv_map' \subseteq NvIndex /\ nv_map' \in [DOMAIN nv_map' -> EntryType]
        /\ nv_count' \in Nat /\ nv_alloc_offset' \in Nat /\ nv_dirty' \in BOOLEAN
        /\ primary' \in Hierarchy \cup {NoKey}
        /\ next_transient_handle' \in 0 .. (HandleSpace - 1)
    BY <1>1, <1>2, SizeAssumption, InputAssumption DEF Hierarchy
  <2>2. nv_bank' = [a \in 0 .. (TPM2_NVSTORAGE_SIZE - 1) |-> nv_bank'[a]]
    BY Zenon, <1>1 DEF IInv, TypeOK
  <2> QED
    BY Zenon, <1>1, <2>1, <2>2 DEF TypeOK
<1>4. NvLayout'
  <2>1. DOMAIN nv_map' = {TEST_INDEX}
    BY Zenon, <1>1
  <2>2. IsFiniteSet(DOMAIN nv_map') /\ Cardinality(DOMAIN nv_map') = 1
    BY Zenon, <2>1, FS_Singleton
  <2> QED
    BY <1>1, <2>1, <2>2, SizeAssumption DEF NvLayout, data_ptr, Entry
<1>5. WrittenMirror' /\ NoLocks' /\ LiveCells'
  BY Zenon, <1>1 DEF WrittenMirror, NoLocks, LiveCells, Entry, TestAttrs
<1>6. ResponseFits'
  BY Zenon, <1>1 DEF IInv, ResponseFits
<1> QED
  BY Zenon, <1>3, <1>4, <1>5, <1>6 DEF IInv

\* A migration cuts what is in flight.
LEMMA MigrateStep ==
  ASSUME MInv, Migrate PROVE MInv'
<1>1. IInv'
  BY Zenon, MigrateInv DEF MInv
<1>2. /\ mode' = "IDLE" /\ inq' = <<>> /\ outq' = <<>> /\ rsp' = rsp
      /\ pc' = pc /\ c' = c /\ sent' = sent /\ got' = got /\ resp_size' = resp_size
  BY Zenon DEF Migrate, F!Reset, firmwareVars
<1>3. MSending'
  BY Zenon, <1>2 DEF MInv, MSending, WholeOrIgnored, CommandWord, F!Padded
<1>4. Words' = Words /\ \A k : RespWord(k)' = RespWord(k)
  BY Zenon, <1>2 DEF Words, RespWord, F!RespHalf, F!Stale, F!Padded
<1>5. \A n : Got(n) => Cut(n)'
  BY Zenon, <1>2, <1>4 DEF Got, Cut, F!NoData, F!Stale
<1>6. Reading => Cut(Len(got))' /\ Len(got) \in Nat
  BY Zenon, <1>5, ReadingGot, <1>2 DEF MInv
<1>7. \A n : Cut(n) => Cut(n)'
  BY Zenon, <1>5 DEF Cut
<1>8. AnswerPrefix'
  BY Zenon, <1>2 DEF MInv, MReceiving, AnswerPrefix, F!Stale
<1>9. MReceiving'
  BY <1>2, <1>4, <1>6, <1>7, <1>8 DEF MInv, MReceiving
<1> QED
  BY Zenon, <1>1, <1>2, <1>3, <1>9 DEF MInv

\* The firmware starts with an idle device.
LEMMA MInit == FirmwareInit => MInv
<1> SUFFICES ASSUME FirmwareInit PROVE MInv
  BY Zenon
<1>1. IInv
  BY Zenon, InitInv DEF FirmwareInit
<1> QED
  BY Zenon, <1>1 DEF FirmwareInit, MInv, MSending, MReceiving, WholeOrIgnored, AnswerPrefix,
     ReadingPc

\* A command starts with an empty buffer.
LEMMA MStart ==
  ASSUME MInv, SendStart PROVE MInv'
<1>1. IInv'
  BY Zenon, StepInv DEF MInv, SendStart, chainVars
<1>2. pc = "ctrl" /\ c \in Option /\ sent = 0 /\ got = <<>> /\ resp_size = 0
  BY Zenon DEF SendStart, MInv, MSending
<1>3. /\ pc' = "data" /\ c' = c /\ sent' = 0 /\ got' = <<>> /\ resp_size' = 0
      /\ mode' = "RECEIVING" /\ inq' = <<>>
  BY Zenon, <1>2 DEF SendStart, F!Start
<1>4. 4 * 0 < F!Padded(Menu[c].len)
  <2> DEFINE n == Menu[c].len
  <2>1. n \in Nat \ {0}
    BY Zenon, <1>2, MenuAssumption
  <2> HIDE DEF n
  <2>2. 4 * 0 < F!Padded(n)
    BY <2>1, PaddedWords
  <2> QED
    BY Zenon, <2>2 DEF n
<1>5. inq' = [k \in 1 .. 0 |-> CommandWord(c, k - 1)]
  BY <1>3
<1>6. MSending'
  BY Zenon, <1>2, <1>3, <1>4, <1>5 DEF MSending, WholeOrIgnored, CommandWord, F!Padded
<1> QED
  BY Zenon, <1>1, <1>3, <1>6 DEF MInv, MReceiving, AnswerPrefix, ReadingPc

\* A word is accepted behind the ones before it, or ignored like them.
LEMMA MWord ==
  ASSUME MInv, SendWord PROVE MInv'
<1>1. IInv'
  BY Zenon, StepInv DEF MInv, SendWord, chainVars
<1>2. /\ pc = "data" /\ c \in Option /\ sent \in Nat /\ got = <<>> /\ resp_size = 0
      /\ 4 * sent < F!Padded(Menu[c].len)
      /\ \/ /\ mode = "RECEIVING"
            /\ inq = [k \in 1 .. sent |-> CommandWord(c, k - 1)]
         \/ mode = "IDLE" /\ inq = <<>>
  BY Zenon DEF SendWord, MInv, MSending
<1>3. /\ c' = c /\ sent' = sent + 1 /\ got' = <<>> /\ resp_size' = 0 /\ sent + 1 \in Nat
      /\ pc' = IF 4 * (sent + 1) < F!Padded(Menu[c].len) THEN "data" ELSE "cmd"
  BY <1>2 DEF SendWord
<1>4. pc' \in {"data", "cmd"}
  BY Zenon, <1>3
<1>5. CASE /\ mode = "RECEIVING"
           /\ inq = [k \in 1 .. sent |-> CommandWord(c, k - 1)]
  <2>1. /\ mode' = "RECEIVING"
        /\ \/ /\ pc' = "data" /\ 4 * (sent + 1) < F!Padded(Menu[c].len)
              /\ inq' = [k \in 1 .. (sent + 1) |-> CommandWord(c, k - 1)]
           \/ /\ pc' = "cmd"
              /\ inq' = [k \in 1 .. (F!Padded(Menu[c].len) \div 4) |-> CommandWord(c, k - 1)]
    BY Zenon, <1>2, <1>5, WordAccepted
  <2>2. MSending'
    BY Zenon, <1>2, <1>3, <2>1 DEF MSending, WholeOrIgnored, CommandWord, F!Padded
  <2> QED
    BY Zenon, <1>1, <1>4, <2>2 DEF MInv, MReceiving, AnswerPrefix, ReadingPc
<1>6. CASE mode = "IDLE" /\ inq = <<>>
  <2>1. mode' = "IDLE" /\ inq' = <<>>
    BY Zenon, <1>6 DEF SendWord, WriteData
  <2>2. pc' = "data" => 4 * (sent + 1) < F!Padded(Menu[c].len)
    BY Zenon, <1>3
  <2>3. MSending'
    BY Zenon, <1>2, <1>3, <1>4, <2>1, <2>2 DEF MSending, WholeOrIgnored, CommandWord, F!Padded
  <2> QED
    BY Zenon, <1>1, <1>4, <2>3 DEF MInv, MReceiving, AnswerPrefix, ReadingPc
<1> QED
  BY Zenon, <1>2, <1>5, <1>6

\* The device answers a whole command and ignores CMD_REG otherwise.
LEMMA MExecute ==
  ASSUME MInv, SendExecute PROVE MInv'
<1>1. /\ IInv /\ pc = "cmd" /\ c \in Option /\ got = <<>> /\ resp_size = 0
      /\ \/ /\ mode = "RECEIVING"
            /\ inq = [k \in 1 .. (F!Padded(Menu[c].len) \div 4) |-> CommandWord(c, k - 1)]
         \/ mode = "IDLE" /\ inq = <<>>
  BY Zenon DEF SendExecute, MInv, MSending, WholeOrIgnored
<1>2. pc' = "poll" /\ got' = <<>> /\ resp_size' = 0
  BY Zenon, <1>1 DEF SendExecute
<1>3. CASE /\ mode = "RECEIVING"
           /\ inq = [k \in 1 .. (F!Padded(Menu[c].len) \div 4) |-> CommandWord(c, k - 1)]
  <2>1. IInv' /\ Reading' /\ Len(got)' = 0
    BY Zenon, <1>1, <1>3, Executed
  <2> QED
    BY Zenon, <1>2, <2>1 DEF MInv, MSending, MReceiving, WholeOrIgnored, AnswerPrefix, ReadingPc
<1>4. CASE mode = "IDLE" /\ inq = <<>>
  <2>1. UNCHANGED chainVars /\ mode' = "IDLE" /\ outq' = <<>>
    BY Zenon, <1>4 DEF SendExecute, F!ExecuteInvalid
  <2>2. IInv'
    BY Zenon, <1>1, <2>1, StepInv DEF chainVars
  <2>3. Words' = Words /\ Words \in Nat
    BY Zenon, <1>1, <2>1, WordsFacts DEF chainVars, vars, Words, F!Padded
  <2>4. Len(got)' = 0 /\ got' = [k \in 1 .. 0 |-> IF k <= 0 THEN RespWord(k)' ELSE F!NoData]
    BY <1>2
  <2>5. Cut(0)'
    BY SMTT(30), <2>1, <2>3, <2>4 DEF Cut, Got, F!NoData, F!Stale
  <2> QED
    BY Zenon, <1>2, <2>2, <2>4, <2>5
       DEF MInv, MSending, MReceiving, WholeOrIgnored, AnswerPrefix, ReadingPc
<1> QED
  BY Zenon, <1>1, <1>3, <1>4

\* A firmware that finds no answer shows none.
LEMMA MPoll ==
  ASSUME MInv, PollProcessing \/ CheckSending PROVE MInv'
<1>1. /\ IInv /\ pc \in {"poll", "check"} /\ Len(got) = 0 /\ resp_size = 0
      /\ UNCHANGED deviceVars /\ UNCHANGED got /\ resp_size' = 0
      /\ Reading \/ \E n : Cut(n)
      /\ pc' \in {"check", "header", "show"}
  BY Zenon DEF PollProcessing, CheckSending, MInv, MReceiving
<1>2. IInv' /\ (Reading => Reading') /\ Len(got)' = 0
  BY Zenon, <1>1, QuietStep
<1>3. \A n : Cut(n) => Cut(n)'
  BY Zenon, <1>1, QuietCut
<1>4. AnswerPrefix'
  BY <1>1 DEF AnswerPrefix
<1> QED
  BY <1>1, <1>2, <1>3, <1>4 DEF MInv, MSending, MReceiving, WholeOrIgnored, ReadingPc

\* Header words that are not there are read as zeros.
LEMMA MHeader ==
  ASSUME MInv, ReadHeader PROVE MInv'
<1>1. IInv /\ Len(got) < 3 /\ ReadData /\ (Reading \/ \E n : Cut(n))
  BY Zenon DEF ReadHeader, MInv, MReceiving
<1>2. /\ Reading' \/ \E n : Cut(n)'
      /\ Len(got') = Len(got) + 1 /\ UNCHANGED chainVars /\ Len(got) \in Nat
  <2>1. CASE Reading
    <3>1. Len(got) \in Nat /\ Len(got) < Words
      BY <1>1, <2>1, WordsFacts DEF Reading
    <3> QED
      BY Zenon, <1>1, <2>1, <3>1, ReadOne
  <2>2. ASSUME NEW n, Cut(n)
        PROVE  Cut(n)' /\ Len(got') = Len(got) + 1 /\ UNCHANGED chainVars /\ Len(got) \in Nat
    BY Zenon, <1>1, <2>2, ReadNothing DEF Cut, Got
  <2> QED
    BY Zenon, <1>1, <2>1, <2>2
<1>3. IInv'
  BY Zenon, <1>1, <1>2, StepInv DEF chainVars
<1>4. pc' = IF Len(got) + 1 < 3 THEN "header" ELSE "size"
  BY Zenon, <1>2 DEF ReadHeader
<1>5. /\ pc' = "header" => Len(got)' < 3
      /\ pc' = "size" => Len(got)' = 3
      /\ pc' \in {"header", "size"}
  BY <1>1, <1>2, <1>4
<1> QED
  BY Zenon, <1>2, <1>3, <1>5
     DEF MInv, MSending, MReceiving, WholeOrIgnored, AnswerPrefix, ReadingPc

\* The size decides what is shown: a header that lost its size field shows its
\* twelve bytes.
LEMMA MSize ==
  ASSUME MInv, CheckSize PROVE MInv'
<1>1. /\ IInv /\ Len(got) = 3 /\ UNCHANGED deviceVars /\ UNCHANGED got
      /\ Reading \/ \E n : Cut(n)
  BY Zenon DEF CheckSize, MInv, MReceiving
<1>2. PICK n : Got(n) /\ (Cut(n) \/ (Reading /\ n = 3))
  BY Zenon, <1>1, ReadingGot DEF Cut
<1>3. IInv' /\ (Reading => Reading') /\ Words' = Words /\ Len(got)' = 3 /\ rsp' = rsp
  BY Zenon, <1>1, QuietStep
<1>4. Cut(n) => Cut(n)'
  BY Zenon, <1>1, QuietCut
<1>5. actual_size = IF n >= 2 THEN rsp.size ELSE 0
  BY SMTT(30), <1>1, <1>2, CutSize
<1>6. /\ n \in Nat /\ n <= 3 /\ rsp.size \in Nat /\ 10 <= rsp.size /\ Words \in Nat
      /\ rsp.size <= RESPONSE_BUFFER /\ F!Padded(rsp.size) = 4 * Words
      /\ rsp.size <= 4 * Words /\ RESPONSE_BUFFER \in Nat
  BY <1>1, <1>2, WordsFacts, MenuAssumption DEF Got
<1>7. Filled(got, rsp, n, 3)
  BY Zenon, <1>1, <1>2, GotFilled
<1>8. CASE n < 2
  <2>1. actual_size = 0
    BY SMTT(30), <1>5, <1>6, <1>8
  <2>2. pc' = "show" /\ resp_size' = 12
    BY <1>6, <2>1 DEF CheckSize
  <2>3. 4 * n <= rsp.size
    BY <1>6, <1>8
  <2>4. Begins(got, rsp, 12)
    BY <1>6, <1>7, <2>3, ShownBegins
  <2>5. AnswerPrefix'
    BY Zenon, <1>1, <1>3, <2>2, <2>4, PrefixNext
  <2> QED
    BY Zenon, <1>3, <2>2, <2>5 DEF MInv, MSending, MReceiving, WholeOrIgnored, ReadingPc
<1>9. CASE n >= 2
  <2>1. actual_size = rsp.size
    BY Zenon, <1>5, <1>9
  <2>2. /\ resp_size' = rsp.size
        /\ pc' = IF 12 < 4 * Words THEN "status" ELSE "show"
    BY SMTT(30), <1>6, <2>1 DEF CheckSize
  <2>3. CASE 12 < 4 * Words
    <3>1. pc' = "status" /\ 3 < Words /\ n >= 3 - 1
      BY <1>6, <1>9, <2>2, <2>3
    <3> QED
      BY <1>2, <1>3, <1>4, <1>9, <2>2, <3>1
         DEF MInv, MSending, MReceiving, WholeOrIgnored, AnswerPrefix, ReadingPc
  <2>4. CASE ~(12 < 4 * Words)
    <3>1. pc' = "show" /\ rsp.size <= 12
      BY SMTT(30), <1>6, <2>2, <2>4
    <3>2. Begins(got, rsp, rsp.size)
      BY <1>6, <1>7, <3>1, ShownBegins
    <3>3. AnswerPrefix'
      BY Zenon, <1>1, <1>3, <2>2, <3>2, PrefixNext
    <3> QED
      BY Zenon, <1>3, <3>1, <3>3 DEF MInv, MSending, MReceiving, WholeOrIgnored, ReadingPc
  <2> QED
    BY Zenon, <2>3, <2>4
<1> QED
  BY <1>6, <1>8, <1>9

\* A device that stopped sending: the words read so far are shown.
LEMMA MStill ==
  ASSUME MInv, CheckStillSending PROVE MInv'
<1>1. /\ IInv /\ 3 <= Len(got) /\ Len(got) < Words /\ resp_size = rsp.size
      /\ UNCHANGED deviceVars /\ UNCHANGED got
      /\ Reading \/ \E n : Cut(n) /\ n >= 2 /\ n >= Len(got) - 1
  BY Zenon DEF CheckStillSending, MInv, MReceiving
<1>2. IInv' /\ (Reading => Reading') /\ Words' = Words /\ Len(got)' = Len(got) /\ rsp' = rsp
  BY Zenon, <1>1, QuietStep
<1>3. CASE Reading
  <2>1. mode = "SENDING"
    BY Zenon, <1>1, <1>3 DEF Reading
  <2>2. pc' = "data2" /\ resp_size' = resp_size
    BY Zenon, <2>1 DEF CheckStillSending
  <2> QED
    BY Zenon, <1>1, <1>2, <1>3, <2>2
       DEF MInv, MSending, MReceiving, WholeOrIgnored, AnswerPrefix, ReadingPc
<1>4. ASSUME NEW n, Cut(n), n >= 2, n >= Len(got) - 1
      PROVE  MInv'
  <2>1. mode = "IDLE" /\ Got(n)
    BY Zenon, <1>4 DEF Cut
  <2>2. actual_size = rsp.size
    BY Zenon, <1>1, <1>4, <2>1, CutSize
  <2>3. /\ n \in Nat /\ Len(got) \in Nat /\ rsp.size \in Nat /\ Words \in Nat
        /\ 4 * Words < rsp.size + 4
    BY Zenon, <1>1, <2>1, WordsFacts DEF Got
  <2> DEFINE s == 4 * Len(got)
  <2>4. s \in Nat /\ s >= 1 /\ s <= rsp.size /\ s - 4 * n <= 4
    BY SMTT(30), <1>1, <1>4, <2>3
  <2>5. pc' = "show" /\ resp_size' = s
    BY <2>1, <2>2, <2>3, <2>4 DEF CheckStillSending
  <2>6. Filled(got, rsp, n, Len(got))
    BY Zenon, <2>1, GotFilled
  <2>7. s <= 4 * Len(got)
    BY <2>3
  <2> HIDE DEF s
  <2>8. Begins(got, rsp, s)
    BY Zenon, <2>3, <2>4, <2>6, <2>7, ShownBegins
  <2>9. AnswerPrefix'
    BY Zenon, <1>1, <1>2, <2>5, <2>8, PrefixNext
  <2> QED
    BY Zenon, <1>2, <2>5, <2>9 DEF MInv, MSending, MReceiving, WholeOrIgnored, ReadingPc
<1> QED
  BY Zenon, <1>1, <1>3, <1>4

\* The last word shown may be a word that was not there.
LEMMA MRest ==
  ASSUME MInv, ReadRest PROVE MInv'
<1>1. /\ IInv /\ 3 <= Len(got) /\ Len(got) < Words /\ resp_size = rsp.size
      /\ ReadData /\ (Reading \/ Cut(Len(got)))
  BY Zenon DEF ReadRest, MInv, MReceiving
<1>0. PICK L : L = Len(got)
  BY Zenon
<1>2. Got(L) /\ L \in Nat /\ 3 <= L /\ L < Words
  BY Zenon, <1>0, <1>1, ReadingGot DEF Cut, Got
<1>3. /\ \/ Reading' /\ Len(got') = L + 1
         \/ Cut(L)' /\ Len(got') = L + 1
      /\ UNCHANGED chainVars
  <2>1. CASE Reading
    BY Zenon, <1>0, <1>1, <2>1, ReadOne
  <2>2. CASE Cut(L)
    BY Zenon, <1>0, <1>1, <2>2, ReadNothing
  <2> QED
    BY Zenon, <1>0, <1>1, <2>1, <2>2
<1>4. IInv'
  BY Zenon, <1>1, <1>3, StepInv DEF chainVars
<1>5. rsp' = rsp /\ Words' = Words /\ resp_size' = rsp.size
  BY Zenon, <1>1, <1>3 DEF ReadRest, chainVars, vars, Words, F!Padded
<1>6. /\ rsp.size \in Nat /\ 10 <= rsp.size /\ Words \in Nat
      /\ F!Padded(rsp.size) = 4 * Words
      /\ rsp.size <= 4 * Words /\ 4 * Words < rsp.size + 4
  BY Zenon, <1>1, WordsFacts
<1>7. actual_size = rsp.size
  <2>1. L >= 2 /\ 3 <= Len(got)
    BY <1>0, <1>2
  <2> QED
    BY Zenon, <1>1, <1>2, <2>1, CutSize
<1>8. pc' = IF 4 * (L + 1) < 4 * Words THEN "status" ELSE "show"
  BY Zenon, <1>3, <1>6, <1>7 DEF ReadRest
<1>9. CASE 4 * (L + 1) < 4 * Words
  <2>1. pc' = "status" /\ 3 <= L + 1 /\ L + 1 < Words /\ L >= 2 /\ L >= (L + 1) - 1
    BY <1>2, <1>6, <1>8, <1>9
  <2> QED
    BY Zenon, <1>3, <1>4, <1>5, <2>1
       DEF MInv, MSending, MReceiving, WholeOrIgnored, AnswerPrefix, ReadingPc
<1>10. CASE ~(4 * (L + 1) < 4 * Words)
  <2>1. pc' = "show" /\ L + 1 = Words
    BY <1>2, <1>6, <1>8, <1>10
  <2>2. PICK n \in {L, L + 1} : Got(n)'
    <3>1. CASE Cut(L)'
      BY Zenon, <3>1 DEF Cut
    <3>2. CASE Reading' /\ Len(got') = L + 1
      <4>1. Len(got') <= Words' /\ \A k \in 1 .. Len(got') : k <= Len(got')
        BY <1>2, <1>5, <2>1, <3>2
      <4>2. got' = [k \in 1 .. Len(got') |-> IF k <= Len(got') THEN RespWord(k)' ELSE F!NoData]
        BY Zenon, <3>2, <4>1 DEF Reading
      <4>3. Len(got') \in Nat
        BY <1>2, <3>2
      <4>4. Got(L + 1)'
        BY <3>2, <4>1, <4>2, <4>3 DEF Got, F!NoData, F!Stale
      <4> QED
        BY Zenon, <4>4
    <3> QED
      BY Zenon, <1>3, <3>1, <3>2
  <2>3. Filled(got', rsp', n, L + 1)
    BY Zenon, <1>3, <2>2 DEF Got, Filled, RespWord, F!RespHalf, F!NoData, F!Stale
  <2>4. n \in Nat /\ L + 1 \in Nat /\ rsp.size <= 4 * (L + 1) /\ rsp.size - 4 * n <= 4
    BY SMTT(30), <1>2, <1>6, <2>1
  <2>5. Begins(got', rsp', rsp.size)
    BY <1>5, <1>6, <2>3, <2>4, ShownBegins
  <2>6. AnswerPrefix'
    BY Zenon, <1>5, <2>1, <2>5, PrefixNext
  <2> QED
    BY Zenon, <1>4, <2>1, <2>6 DEF MInv, MSending, MReceiving, WholeOrIgnored, ReadingPc
<1> QED
  BY Zenon, <1>9, <1>10

\* Every step of the firmware, every reset and every migration keeps the
\* invariant.
LEMMA MStep == MInv /\ [MigrationNext]_allVars => MInv'
<1> SUFFICES ASSUME MInv, [MigrationNext]_allVars PROVE MInv'
  BY Zenon
<1>1. ASSUME NEW o \in Option \cup {OtherKey}, Select(o) PROVE MInv'
  <2>1. /\ UNCHANGED vars /\ got' = <<>> /\ sent' = 0 /\ c' = o /\ resp_size' = 0
        /\ pc' = IF o \in Option THEN "ctrl" ELSE "menu"
    BY Zenon, <1>1 DEF Select, deviceVars, chainVars
  <2>2. IInv'
    BY Zenon, <2>1, StepInv DEF MInv
  <2> QED
    BY Zenon, <2>1, <2>2 DEF MInv, MSending, MReceiving, WholeOrIgnored, AnswerPrefix, ReadingPc
<1>2. CASE FirmwareStep
  <2>1. CASE Show
    <3>1. UNCHANGED vars /\ pc' = "menu"
      BY Zenon, <2>1 DEF Show, deviceVars, chainVars
    <3>2. IInv'
      BY Zenon, <3>1, StepInv DEF MInv
    <3> QED
      BY Zenon, <3>1, <3>2 DEF MInv, MSending, MReceiving, WholeOrIgnored, AnswerPrefix, ReadingPc
  <2> QED
    BY Zenon, <1>2, <2>1, MStart, MWord, MExecute, MPoll, MHeader, MSize, MStill, MRest
       DEF FirmwareStep
<1>3. CASE SystemReset
  <2>1. UNCHANGED vars /\ pc' = "menu"
    BY Zenon, <1>3 DEF SystemReset, chainVars
  <2>2. IInv'
    BY Zenon, <2>1, StepInv DEF MInv
  <2> QED
    BY Zenon, <2>1, <2>2 DEF MInv, MSending, MReceiving, WholeOrIgnored, AnswerPrefix, ReadingPc
<1>4. CASE KeyTyped \/ UNCHANGED allVars
  <2>1. /\ UNCHANGED deviceVars /\ UNCHANGED <<pc, c, sent, got, resp_size>>
        /\ mode' = mode /\ inq' = inq
    BY Zenon, <1>4 DEF KeyTyped, allVars, firmwareVars, deviceVars
  <2>2. IInv' /\ (Reading => Reading') /\ Words' = Words /\ Len(got)' = Len(got)
        /\ rsp' = rsp
    BY Zenon, <2>1, QuietStep DEF MInv
  <2>3. \A n : Cut(n) => Cut(n)'
    BY Zenon, <2>1, QuietCut DEF MInv
  <2>4. MSending'
    BY Zenon, <2>1 DEF MInv, MSending, WholeOrIgnored, CommandWord, F!Padded
  <2>5. AnswerPrefix'
    BY Zenon, <2>1, <2>2 DEF MInv, MReceiving, AnswerPrefix, F!Stale
  <2>6. MReceiving'
    BY Zenon, <2>1, <2>2, <2>3, <2>5 DEF MInv, MReceiving
  <2> QED
    BY Zenon, <2>1, <2>2, <2>4, <2>6 DEF MInv
<1> QED
  BY Zenon, <1>1, <1>2, <1>3, <1>4, MigrateStep DEF MigrationNext, FirmwareNext

\* The invariant holds wherever migrations and resets strike.
THEOREM MigrationInvariant == MigrationSpec => []MInv
  BY MInit, MStep, PTL DEF MigrationSpec

\* A command that a migration cuts in two is never carried out, for every menu:
\* vmstate_tpm2 brings neither the state nor the buffer of the window.
THEOREM WholeOrIgnoredAlways == MigrationSpec => []WholeOrIgnored
<1>1. MInv => WholeOrIgnored
  BY Zenon DEF MInv, MSending
<1> QED
  BY <1>1, MigrationInvariant, PTL

\* What tpm_read_response returns is the beginning of one answer: a migration
\* puts zeros in the place of the header or of the last word, never of more.
THEOREM AnswerPrefixAlways == MigrationSpec => []AnswerPrefix
<1>1. MInv => AnswerPrefix
  BY Zenon DEF MInv, MReceiving
<1> QED
  BY <1>1, MigrationInvariant, PTL

\* After a migration too, what was written to NV can be read back, for every
\* write since the last migration, wherever that one struck: the new device's
\* indexes lie in a bank that is full of the old one's bytes.
THEOREM MigrationReadBack == MigrationSpec => []ReadBack
<1>1. MInv => ReadBack
  BY Zenon, InvReadBack DEF MInv
<1> QED
  BY <1>1, MigrationInvariant, PTL

\* The new device knows the index of the test alone, and forgets that it was
\* written; its slices do not overlap in the bank that came with the stream,
\* and nothing counts as written there that was not written since.
THEOREM MigrationNvSound == MigrationSpec => [](NvLayout /\ WrittenMirror)
<1>1. MInv => NvLayout /\ WrittenMirror
  BY Zenon DEF MInv, IInv
<1> QED
  BY <1>1, MigrationInvariant, PTL

\* A step of the machine that is no migration keeps the indexes, also if it
\* executes what a migration left of a command.
LEMMA MachineKept ==
  ASSUME MInv, [FirmwareNext]_allVars, NEW j \in DOMAIN nv_map
  PROVE  IndexKept(j)
<1>1. CASE SendExecute
  <2>1. /\ IInv /\ c \in Option
        /\ \/ /\ mode = "RECEIVING"
              /\ inq = [k \in 1 .. (F!Padded(Menu[c].len) \div 4) |-> CommandWord(c, k - 1)]
           \/ mode = "IDLE" /\ inq = <<>>
    BY Zenon, <1>1 DEF SendExecute, MInv, MSending, WholeOrIgnored
  <2>2. CASE /\ mode = "RECEIVING"
             /\ inq = [k \in 1 .. (F!Padded(Menu[c].len) \div 4) |-> CommandWord(c, k - 1)]
    BY Zenon, <1>1, <2>1, <2>2, WholeExecuteEffect, ProcessKept, QuietKept
  <2>3. CASE mode = "IDLE" /\ inq = <<>>
    <3>1. UNCHANGED nvState
      BY Zenon, <1>1, <2>3 DEF SendExecute, F!ExecuteInvalid, chainVars, vars, nvState
    <3> QED
      BY Zenon, <3>1, QuietKept
  <2> QED
    BY Zenon, <2>1, <2>2, <2>3
<1>2. CASE UNCHANGED vars
  BY Zenon, <1>2, QuietKept DEF vars, nvState
<1> QED
  BY Zenon, <1>1, <1>2, OnlyExecute

\* Only a migration takes an index away, moves it or makes it unwritten: the
\* commands keep it as they do in a machine that is never migrated, also those
\* that come after a migration in the middle of another.
THEOREM OnlyMigrationForgets ==
  MigrationSpec => [][Migrate \/ \A i \in DOMAIN nv_map : IndexKept(i)]_allVars
<1> DEFINE A == Migrate \/ \A i \in DOMAIN nv_map : IndexKept(i)
<1>1. MInv /\ [MigrationNext]_allVars => [A]_allVars
  BY Zenon, MachineKept DEF MigrationNext
<1> QED
  BY <1>1, MigrationInvariant, PTL DEF MigrationSpec
=============================================================================
