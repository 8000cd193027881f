--------------------------- MODULE ConsoleProofs ----------------------------
(***************************************************************************)
(* For every size of the multiplexer's buffer and any number of keys: no   *)
(* key is lost, doubled or overtaken on its way to the firmware.           *)
(***************************************************************************)
EXTENDS Console, NxpUartProofs

\* The keys h in order, which with the lost ones l are the first n.
Conserved(h, l, n) ==
  /\ \A i, j \in DOMAIN h : i < j => h[i] < h[j]
  /\ Range(h) \cup l = 1 .. n
  /\ Range(h) \cap l = {}

\* The inductive invariant: the FIFO stays off and holds one key; the firmware
\* reads DR only when there is one; and an answer of mux_chr_can_read that the
\* main loop still acts on is justified by now, if no longer by what it was
\* given for.
CInv ==
  /\ lcr = {} /\ cr = {}
  /\ Sound(Rx, 1, int_enabled) /\ read_count \in {0, 1}
  /\ typed \in Nat /\ taken \in Nat /\ taken <= typed /\ 1 .. typed \subseteq Byte
  /\ buffer \in Seq(Item) /\ seen \in Seq(Item)
  /\ pc = "data" => read_count > 0
  /\ max_size > 0 => Len(buffer) < MUX_BUFFER_SIZE \/ read_count = 0
  /\ Len(buffer) <= MUX_BUFFER_SIZE
  /\ Conserved(InHand, lost, taken)

\* The console runs with the FIFO off and no loopback: one key fits the receiver.
LEMMA FifoOff ==
  ASSUME lcr = {}, cr = {}
  PROVE  nxp_uart_get_fifo_depth = 1 /\ ~nxp_uart_loopback_enabled
BY Zenon DEF nxp_uart_get_fifo_depth, nxp_uart_loopback_enabled

\* The keys waiting in the receiver are the queue its registers stand for.
LEMMA WaitingIs == Waiting = QueueOf(Rx)
BY Zenon, RxFields DEF Waiting, QueueOf

\* A key for an empty receiver, and no key.
LEMMA Filled ==
  ASSUME lcr = {}, cr = {}, NEW s, Sound(s, 1, int_enabled), NEW x \in Item
  PROVE  /\ nxp_uart_receive(s, <<>>) = s
         /\ s.read_count = 0 =>
              /\ Sound(nxp_uart_receive(s, <<x>>), 1, int_enabled)
              /\ nxp_uart_receive(s, <<x>>).read_count = 1
              /\ QueueOf(nxp_uart_receive(s, <<x>>)) = <<x>>
<1>1. nxp_uart_get_fifo_depth = 1 /\ ~nxp_uart_loopback_enabled
  BY Zenon, FifoOff
<1>2. nxp_uart_receive(s, <<>>) = s
  <2>1. Len(<<>>) = 0
    BY Zenon
  <2>2. Puts(s, <<>>)[0] = s
    BY Zenon, <2>1, PutsDef
  <2> QED
    BY Zenon, <1>1, <2>1, <2>2 DEF nxp_uart_receive
<1>3. ASSUME s.read_count = 0
      PROVE  /\ Sound(nxp_uart_receive(s, <<x>>), 1, int_enabled)
             /\ nxp_uart_receive(s, <<x>>).read_count = 1
             /\ QueueOf(nxp_uart_receive(s, <<x>>)) = <<x>>
  <2> DEFINE buf == <<x>>
             t == nxp_uart_receive(s, buf)
             q == QueueOf(s)
  <2>1. buf \in Seq(Item) /\ Len(buf) = 1 /\ 1 \in 0 .. Len(buf) /\ 0 + 1 = 1
    OBVIOUS
  <2>2. t = Puts(s, buf)[1]
    BY Zenon, <1>1, <2>1 DEF nxp_uart_receive
  <2>3. Sound(s, nxp_uart_get_fifo_depth, int_enabled)
    BY Zenon, <1>1
  <2>4. q = <<>>
    BY Zenon, <1>3, <2>3, QueueOfRead
  <2>5. QueueOf(t) = Q!PutAll(q, buf)
    BY Zenon, <1>1, <2>1, <2>3, QueueOfReceive
  <2>6. Q!PutAll(q, buf) = Q!Put(q, x)
    BY Zenon, PutAllOne
  <2>7. Q!Put(<<>>, x) = <<x>>
    <3>1. Q!Put(<<>>, x) = [k \in 1 .. 1 |-> IF (1 - k) % 1 = 0 THEN x ELSE <<>>[k]]
      BY <1>1 DEF Q!Put
    <3> QED
      BY <3>1
  <2> HIDE DEF buf, q
  <2>8. Sound(t, 1, int_enabled) /\ t.read_count = 0 + 1
    BY Zenon, <1>1, <1>3, <2>1, <2>2, <2>3, PutsSound
  <2> QED
    BY Zenon, <2>1, <2>4, <2>5, <2>6, <2>7, <2>8 DEF buf
<1> QED
  BY Zenon, <1>2, <1>3

-----------------------------------------------------------------------------
\* mux_chr_accept_input passes a key on when there is one and room for it.
Left(s) == SubSeq(buffer, Moved(s) + 1, Len(buffer))

Passed(s) == nxp_uart_receive(s, mux_chr_accept_input(s))

\* mux_chr_accept_input passes on one key exactly when the receiver is empty and
\* the buffer is not, and leaves the buffer alone otherwise.
LEMMA MovedIs ==
  ASSUME lcr = {}, cr = {}, buffer \in Seq(Item), NEW s, s.read_count \in {0, 1}
  PROVE  /\ s.read_count = 1 \/ buffer = <<>> =>
              mux_chr_accept_input(s) = <<>> /\ Left(s) = buffer
         /\ s.read_count = 0 /\ buffer # <<>> =>
              mux_chr_accept_input(s) = <<buffer[1]>> /\ Left(s) = Tail(buffer)
<1>1. nxp_uart_can_receive(s) = 1 - s.read_count
  BY Zenon, FifoOff DEF nxp_uart_can_receive
<1>2. Len(buffer) \in Nat /\ (buffer = <<>> <=> Len(buffer) = 0)
  OBVIOUS
<1>3. CASE s.read_count = 1 \/ buffer = <<>>
  <2>1. Moved(s) = 0
    BY <1>1, <1>2, <1>3 DEF Moved
  <2>2. SubSeq(buffer, 1, 0) = <<>>
    OBVIOUS
  <2>3. SubSeq(buffer, 1, Len(buffer)) = buffer
    OBVIOUS
  <2>4. mux_chr_accept_input(s) = <<>>
    BY Zenon, <2>1, <2>2 DEF mux_chr_accept_input
  <2>5. Moved(s) + 1 = 1
    BY <2>1
  <2>6. Left(s) = buffer
    BY Zenon, <2>3, <2>5 DEF Left
  <2> QED
    BY <1>3, <2>4, <2>6
<1>4. CASE s.read_count = 0 /\ buffer # <<>>
  <2>1. Moved(s) = 1
    BY <1>1, <1>2, <1>4 DEF Moved
  <2>2. SubSeq(buffer, 1, 1) = <<buffer[1]>>
    <3> DEFINE r == SubSeq(buffer, 1, 1)
    <3>1. 1 \in Int /\ \A i \in 1 .. 1 : buffer[i] \in Item
      BY <1>2, <1>4
    <3>2. r \in Seq(Item) /\ Len(r) = 1
      BY <1>2, <1>4
    <3>3. r[1] = buffer[1]
      BY <1>2, <1>4
    <3> HIDE DEF r
    <3>4. r = <<r[1]>>
      BY <3>2
    <3> QED
      BY Zenon, <3>3, <3>4 DEF r
  <2>3. SubSeq(buffer, 2, Len(buffer)) = Tail(buffer)
    BY Zenon, <1>4, TailIsSubSeq
  <2>4. mux_chr_accept_input(s) = <<buffer[1]>>
    BY Zenon, <2>1, <2>2 DEF mux_chr_accept_input
  <2>5. Moved(s) + 1 = 2
    BY <2>1
  <2>6. Left(s) = Tail(buffer)
    BY Zenon, <2>3, <2>5 DEF Left
  <2> QED
    BY <1>4, <2>4, <2>6
<1> QED
  BY Zenon, <1>3, <1>4

\* What is passed on stays in order.
LEMMA PassedOn ==
  ASSUME lcr = {}, cr = {}, buffer \in Seq(Item),
         NEW s, Sound(s, 1, int_enabled), s.read_count \in {0, 1}
  PROVE  /\ Sound(Passed(s), 1, int_enabled) /\ Passed(s).read_count \in {0, 1}
         /\ Left(s) \in Seq(Item) /\ Len(Left(s)) <= Len(buffer)
         /\ QueueOf(Passed(s)) \in Seq(Item)
         /\ QueueOf(Passed(s)) \o Left(s) = QueueOf(s) \o buffer
         /\ s.read_count = 0 => Len(Left(s)) < Len(buffer) \/ buffer = <<>>
         /\ Passed(s).read_count = 0 => QueueOf(Passed(s)) = <<>> /\ Left(s) = <<>>
         /\ s.read_count = 1 => Passed(s).read_count = 1
<1>1. nxp_uart_get_fifo_depth = 1 /\ 0 \in Item
  BY Zenon, FifoOff DEF Item
<1>2. s.read_count = 0 => QueueOf(s) = <<>>
  BY Zenon, <1>1, QueueOfRead
<1>3. QueueOf(s) \in Seq(Item)
  <2>1. s.read_fifo \in [0 .. NXP_UART_FIFO_DEPTH - 1 -> Item] /\ s.read_pos = 0
    BY DEF Sound, RxState
  <2>2. \A k \in 1 .. s.read_count : (s.read_pos + k - 1) % 1 = 0
    BY <2>1
  <2>3. 0 \in 0 .. NXP_UART_FIFO_DEPTH - 1
    BY UartAssumption
  <2>4. QueueOf(s) = [k \in 1 .. s.read_count |-> s.read_fifo[0]]
    BY Zenon, <1>1, <2>2 DEF QueueOf
  <2>5. s.read_fifo[0] \in Item
    BY Zenon, <2>1, <2>3
  <2> QED
    BY <2>4, <2>5
<1>4. CASE s.read_count = 1 \/ buffer = <<>>
  <2>1. Passed(s) = s /\ Left(s) = buffer
    <3>1. mux_chr_accept_input(s) = <<>> /\ Left(s) = buffer
      BY <1>4, MovedIs
    <3>2. nxp_uart_receive(s, <<>>) = s
      BY Zenon, <1>1, Filled
    <3> QED
      BY Zenon, <3>1, <3>2 DEF Passed
  <2> QED
    BY <1>2, <1>3, <1>4, <2>1
<1>5. CASE s.read_count = 0 /\ buffer # <<>>
  <2> DEFINE x == buffer[1]
             t == Passed(s)
             l == Left(s)
  <2>1. x \in Item
    BY <1>5
  <2>2. t = nxp_uart_receive(s, <<x>>) /\ l = Tail(buffer)
    BY <1>5, MovedIs DEF Passed
  <2>3. Sound(t, 1, int_enabled) /\ t.read_count = 1 /\ QueueOf(t) = <<x>>
    BY Zenon, <1>5, <2>1, <2>2, Filled
  <2>4. l \in Seq(Item) /\ Len(l) = Len(buffer) - 1 /\ Len(buffer) \in Nat
    BY <1>5, <2>2, HeadTailProperties
  <2>5. <<x>> \o Tail(buffer) = buffer
    BY <1>5
  <2>6. QueueOf(s) \o buffer = buffer
    BY <1>2, <1>5
  <2>7. QueueOf(t) \o l = QueueOf(s) \o buffer
    BY Zenon, <2>2, <2>3, <2>5, <2>6
  <2>8. QueueOf(t) \in Seq(Item)
    BY <2>1, <2>3
  <2> HIDE DEF x, t, l
  <2>9. Len(l) < Len(buffer) /\ Len(l) <= Len(buffer)
    BY <2>4
  <2> QED
    BY <1>5, <2>3, <2>4, <2>7, <2>8, <2>9 DEF t, l
<1> QED
  BY Zenon, <1>4, <1>5

\* The next key at the end.
LEMMA OneMoreKey ==
  ASSUME NEW h \in Seq(Item), NEW l, NEW n \in Nat, Conserved(h, l, n)
  PROVE  Conserved(Append(h, n + 1), l, n + 1)
<1> DEFINE g == Append(h, n + 1)
           m == Len(h)
<1>1. /\ m \in Nat /\ DOMAIN h = 1 .. m /\ DOMAIN g = 1 .. (m + 1)
      /\ \A i \in 1 .. m : g[i] = h[i]
      /\ g[m + 1] = n + 1
  OBVIOUS
<1> HIDE DEF g, m
<1>2. \A i \in 1 .. m : h[i] \in 1 .. n
  BY Zenon, <1>1 DEF Conserved, Range
<1>3. \A i, j \in DOMAIN g : i < j => g[i] < g[j]
  <2> SUFFICES ASSUME NEW i \in 1 .. (m + 1), NEW j \in 1 .. (m + 1), i < j
               PROVE  g[i] < g[j]
    BY Zenon, <1>1
  <2>1. i \in 1 .. m
    BY <1>1
  <2>2. CASE j = m + 1
    BY <1>1, <1>2, <2>1, <2>2
  <2>3. CASE j \in 1 .. m
    BY Zenon, <1>1, <2>1, <2>3 DEF Conserved
  <2> QED
    BY <1>1, <2>2, <2>3
<1>4. Range(g) = Range(h) \cup {n + 1}
  <2>1. \A i \in 1 .. (m + 1) : i \in 1 .. m \/ i = m + 1
    BY <1>1
  <2>2. 1 .. m \subseteq 1 .. (m + 1) /\ m + 1 \in 1 .. (m + 1)
    BY <1>1
  <2> QED
    BY Zenon, <1>1, <2>1, <2>2 DEF Range
<1>5. (1 .. n) \cup {n + 1} = 1 .. (n + 1) /\ n + 1 \notin 1 .. n
  OBVIOUS
<1> QED
  BY Zenon, <1>3, <1>4, <1>5 DEF Conserved, g

\* A reset that loses the middle part.
LEMMA MiddleLost ==
  ASSUME NEW a \in Seq(Item), NEW w \in Seq(Item), NEW b \in Seq(Item),
         NEW l, NEW n \in Nat, Conserved((a \o w) \o b, l, n)
  PROVE  Conserved(a \o b, l \cup Range(w), n)
<1> DEFINE h == (a \o w) \o b
           g == a \o b
           p == Len(a)
           q == Len(w)
           r == Len(b)
           f(i) == IF i <= p THEN i ELSE i + q
<1>1. /\ p \in Nat /\ q \in Nat /\ r \in Nat
      /\ DOMAIN h = 1 .. (p + q + r) /\ DOMAIN g = 1 .. (p + r) /\ DOMAIN w = 1 .. q
  OBVIOUS
<1>2. \A i \in 1 .. (p + r) : g[i] = h[f(i)]
  OBVIOUS
<1>3. \A i \in 1 .. q : w[i] = h[p + i]
  OBVIOUS
<1> HIDE DEF h, g, p, q, r
<1>4. \A i \in 1 .. (p + r) : f(i) \in 1 .. (p + q + r)
  BY <1>1
<1>5. \A i, j \in 1 .. (p + r) : i < j => f(i) < f(j)
  BY <1>1
<1>6. \A i \in 1 .. (p + r), k \in 1 .. q : f(i) # p + k
  BY <1>1
<1>7. \A i \in 1 .. (p + q + r) :
        \/ \E k \in 1 .. (p + r) : i = f(k)
        \/ \E k \in 1 .. q : i = p + k
  <2> SUFFICES ASSUME NEW i \in 1 .. (p + q + r)
               PROVE  \/ \E k \in 1 .. (p + r) : i = f(k)
                      \/ \E k \in 1 .. q : i = p + k
    BY Zenon
  <2>1. CASE i <= p
    <3>1. i \in 1 .. (p + r) /\ i = f(i)
      BY <1>1, <2>1
    <3> QED
      BY Zenon, <3>1
  <2>2. CASE p < i /\ i <= p + q
    <3>1. i - p \in 1 .. q /\ i = p + (i - p)
      BY <1>1, <2>2
    <3> QED
      BY Zenon, <3>1
  <2>3. CASE p + q < i
    <3>1. i - q \in 1 .. (p + r) /\ i = f(i - q)
      BY <1>1, <2>3
    <3> QED
      BY Zenon, <3>1
  <2> QED
    BY <1>1, <2>1, <2>2, <2>3
<1>8. \A k \in 1 .. q : p + k \in 1 .. (p + q + r)
  BY <1>1
<1> HIDE DEF f
<1>9. /\ \A i, j \in 1 .. (p + q + r) : i < j => h[i] < h[j]
      /\ Range(h) \cup l = 1 .. n /\ Range(h) \cap l = {}
  BY Zenon, <1>1 DEF Conserved, h
<1>10. \A i \in 1 .. (p + q + r) : h[i] \in 1 .. n
  BY Zenon, <1>1, <1>9 DEF Range
<1>11. \A i, j \in 1 .. (p + q + r) : i # j => h[i] # h[j]
  <2> SUFFICES ASSUME NEW i \in 1 .. (p + q + r), NEW j \in 1 .. (p + q + r), i # j
               PROVE  h[i] # h[j]
    BY Zenon
  <2>1. i < j \/ j < i
    OBVIOUS
  <2>2. h[i] < h[j] \/ h[j] < h[i]
    BY Zenon, <1>9, <2>1
  <2> QED
    BY <1>10, <2>2
<1>12. \A i, j \in DOMAIN g : i < j => g[i] < g[j]
  BY Zenon, <1>1, <1>2, <1>4, <1>5, <1>9
<1>13. Range(h) = Range(g) \cup Range(w)
  <2>1. Range(g) \subseteq Range(h) /\ Range(w) \subseteq Range(h)
    <3>1. ASSUME NEW i \in 1 .. (p + r) PROVE g[i] \in Range(h)
      BY Zenon, <1>1, <1>2, <1>4 DEF Range
    <3>2. ASSUME NEW i \in 1 .. q PROVE w[i] \in Range(h)
      BY Zenon, <1>1, <1>3, <1>8 DEF Range
    <3> QED
      BY Zenon, <1>1, <3>1, <3>2 DEF Range
  <2>2. Range(h) \subseteq Range(g) \cup Range(w)
    <3>1. ASSUME NEW i \in 1 .. (p + q + r) PROVE h[i] \in Range(g) \cup Range(w)
      <4>1. CASE \E k \in 1 .. (p + r) : i = f(k)
        BY Zenon, <1>1, <1>2, <4>1 DEF Range
      <4>2. CASE \E k \in 1 .. q : i = p + k
        BY Zenon, <1>1, <1>3, <4>2 DEF Range
      <4> QED
        BY Zenon, <1>7, <4>1, <4>2
    <3> QED
      BY Zenon, <1>1, <3>1 DEF Range
  <2> QED
    BY Zenon, <2>1, <2>2
<1>14. Range(g) \cap Range(w) = {}
  <2>1. ASSUME NEW i \in 1 .. (p + r), NEW k \in 1 .. q PROVE g[i] # w[k]
    BY <1>2, <1>3, <1>4, <1>6, <1>8, <1>11
  <2> QED
    BY Zenon, <1>1, <2>1 DEF Range
<1>15. Range(g) \cup (l \cup Range(w)) = 1 .. n /\ Range(g) \cap (l \cup Range(w)) = {}
  BY Zenon, <1>9, <1>13, <1>14
<1> QED
  BY Zenon, <1>12, <1>15 DEF Conserved, g
-----------------------------------------------------------------------------
\* The UART's variables after a handler.
LEMMA UartNext ==
  ASSUME NEW t, Sound(t, 1, int_enabled'), SetRx(t), lcr' = lcr
  PROVE  /\ Rx' = t /\ Sound(Rx', 1, int_enabled')
         /\ read_count' = t.read_count /\ Waiting' = QueueOf(t)
<1>1. Rx' = t
  BY Zenon, SetRxIs DEF Sound
<1>2. Queue' = QueueOf(t)
  BY Zenon, QueueNext
<1>3. Waiting' = Queue'
  BY Zenon DEF Waiting, Queue
<1> QED
  BY Zenon, <1>1, <1>2, <1>3 DEF SetRx

\* The queue holds the keys that wait, at most one.
LEMMA WaitingFacts ==
  ASSUME CInv
  PROVE  /\ Waiting \in Seq(Item)
         /\ read_count = 0 => Waiting = <<>>
         /\ read_count = 1 => Waiting = <<read_fifo[read_pos]>> /\ read_fifo[read_pos] \in Item
<1>1. lcr = {} /\ cr = {} /\ Sound(Rx, 1, int_enabled) /\ read_count \in {0, 1}
  BY Zenon DEF CInv
<1>2. read_fifo \in [0 .. NXP_UART_FIFO_DEPTH - 1 -> Item] /\ read_pos = 0
  BY <1>1, RxFields DEF Sound, RxState
<1>3. read_fifo[read_pos] \in Item
  BY <1>2, UartAssumption
<1>4. \A k \in 1 .. read_count : (read_pos + k - 1) % 1 = 0
  BY <1>1, <1>2
<1>5. Waiting = [k \in 1 .. read_count |-> read_fifo[read_pos]]
  BY Zenon, <1>1, <1>2, <1>4, FifoOff DEF Waiting
<1> QED
  BY <1>1, <1>3, <1>5

\* Steps that leave the UART and the keys alone.
LEMMA SameKeys ==
  ASSUME CInv, UNCHANGED <<rxVars, int_enabled, lcr, cr, buffer, seen, lost, taken>>,
         typed' \in Nat, taken <= typed', 1 .. typed' \subseteq Byte,
         pc' = "data" => read_count > 0,
         max_size' > 0 => Len(buffer) < MUX_BUFFER_SIZE \/ read_count = 0
  PROVE  CInv'
<1>1. Rx' = Rx /\ read_count' = read_count
  BY Zenon DEF Rx, rxVars
<1>2. InHand' = InHand
  BY Zenon, SameDepth DEF InHand, Waiting, rxVars
<1> QED
  BY Zenon, <1>1, <1>2 DEF CInv

\* Typing another key preserves the invariant.
LEMMA TypeInv ==
  ASSUME CInv, Type
  PROVE  CInv'
<1>1. typed' = typed + 1 /\ typed + 1 \in Byte /\ typed \in Nat /\ taken \in Nat
      /\ taken <= typed /\ 1 .. typed \subseteq Byte
  BY Zenon DEF Type, CInv
<1>2. 1 .. typed' \subseteq Byte
  <2>1. 1 .. (typed + 1) = (1 .. typed) \cup {typed + 1}
    BY <1>1
  <2> QED
    BY Zenon, <1>1, <2>1
<1>3. typed' \in Nat /\ taken <= typed'
  BY <1>1
<1>4. UNCHANGED <<rxVars, int_enabled, lcr, cr, buffer, seen, lost, taken, pc, max_size>>
  BY Zenon DEF Type, vars
<1> QED
  BY Zenon, <1>2, <1>3, <1>4, SameKeys DEF CInv

\* The main loop's poll of mux_chr_can_read preserves the invariant: an answer
\* that is not zero is backed by room in the buffer or in the receiver.
LEMMA MainLoopPollInv ==
  ASSUME CInv, MainLoopPoll
  PROVE  CInv'
<1>1. UNCHANGED <<rxVars, int_enabled, lcr, cr, buffer, seen, lost, taken, pc, typed>>
  BY Zenon DEF MainLoopPoll
<1>2. nxp_uart_can_receive(Rx) = 1 - read_count /\ read_count \in {0, 1}
  BY Zenon, FifoOff, RxFields DEF nxp_uart_can_receive, CInv
<1>3. max_size' > 0 => Len(buffer) < MUX_BUFFER_SIZE \/ read_count = 0
  BY <1>2 DEF MainLoopPoll, mux_chr_can_read
<1> QED
  BY Zenon, <1>1, <1>3, SameKeys DEF CInv

\* RXFE is clear, so there is a key.
LEMMA GetcFlagInv ==
  ASSUME CInv, GetcFlag
  PROVE  CInv'
<1>1. UNCHANGED <<rxVars, int_enabled, lcr, cr, buffer, seen, lost, taken, typed, max_size>>
  BY Zenon DEF GetcFlag, vars
<1>2. read_count > 0
  <2>1. "RXFE" \in Rx.flags <=> Rx.read_count = 0
    BY Zenon DEF CInv, Sound
  <2> QED
    BY <2>1, RxFields DEF CInv, GetcFlag
<1> QED
  BY Zenon, <1>1, <1>2, SameKeys DEF CInv

\* With loopback off, output does not touch what was received.
LEMMA PutInv ==
  ASSUME CInv, Put
  PROVE  CInv'
<1> DEFINE lv == Rx.int_level \cup {"TX"}
           t == WithFlags(Rx, Rx.flags, lv, int_enabled)
           u == [Rx EXCEPT !.int_level = lv, !.irq = nxp_uart_update(lv, int_enabled)]
<1>1. lcr = {} /\ cr = {} /\ Sound(Rx, 1, int_enabled)
  BY Zenon DEF CInv
<1>2. nxp_uart_loopback_tx(Rx, 1) = Rx
  BY Zenon, <1>1, FifoOff DEF nxp_uart_loopback_tx
<1>3. SetRx(u) /\ UNCHANGED <<int_enabled, lcr, cr, max_size>>
  BY Zenon, <1>2 DEF Put, nxp_uart_write_txdata
<1>4. UNCHANGED <<typed, taken, buffer, seen, lost>> /\ pc' # "data"
  BY Zenon DEF Put
<1>5. Rx.flags \in SUBSET Flag /\ lv \in SUBSET Interrupt
  BY Zenon, <1>1 DEF Sound, RxState, Interrupt
<1>6. u = t
  <2> HIDE DEF lv
  <2> QED
    BY Zenon, <1>1 DEF Sound, RxState, WithFlags
<1> HIDE DEF lv
<1>7. Sound(t, 1, int_enabled) /\ t.read_count = Rx.read_count
  BY <1>1, <1>5, NewFlags
<1>8. t.read_fifo = read_fifo /\ t.read_pos = read_pos /\ t.read_count = read_count
  BY Zenon DEF WithFlags, Rx
<1> HIDE DEF t, u
<1>9. QueueOf(t) = Waiting
  BY Zenon, <1>8 DEF QueueOf, Waiting
<1>10. Sound(Rx', 1, int_enabled') /\ read_count' = read_count /\ Waiting' = Waiting
  BY Zenon, <1>3, <1>6, <1>7, <1>8, <1>9, UartNext
<1>11. InHand' = InHand
  BY Zenon, <1>4, <1>10 DEF InHand
<1> QED
  BY Zenon, <1>3, <1>4, <1>10, <1>11 DEF CInv

\* The poll of UART_putc changes no key.
LEMMA PutcFlagInv ==
  ASSUME CInv, PutcFlag
  PROVE  CInv'
<1>1. UNCHANGED <<rxVars, int_enabled, lcr, cr, buffer, seen, lost, taken, typed, max_size>>
  BY Zenon DEF PutcFlag, vars
<1>2. pc' # "data"
  BY Zenon DEF PutcFlag
<1> QED
  BY Zenon, <1>1, <1>2, SameKeys DEF CInv

\* Concatenation is associative.
LEMMA Assoc ==
  ASSUME NEW a \in Seq(Item), NEW b \in Seq(Item), NEW c \in Seq(Item)
  PROVE  (a \o b) \o c = a \o (b \o c)
OBVIOUS

\* The main loop reads a key: it goes to the end of what is in hand, directly
\* or through the buffer, and the buffer has room for it.
LEMMA MainLoopReadInv ==
  ASSUME CInv, MainLoopRead
  PROVE  CInv'
<1> DEFINE key == taken + 1
           s == Passed(Rx)
           l == Left(Rx)
           direct == l = <<>> /\ nxp_uart_can_receive(s) # 0
           t == IF direct THEN nxp_uart_receive(s, <<key>>) ELSE s
           w == QueueOf(Rx)
<1>1. /\ lcr = {} /\ cr = {} /\ Sound(Rx, 1, int_enabled) /\ Rx.read_count = read_count
      /\ read_count \in {0, 1} /\ buffer \in Seq(Item) /\ seen \in Seq(Item)
      /\ taken \in Nat /\ typed \in Nat /\ 1 .. typed \subseteq Byte
      /\ Len(buffer) <= MUX_BUFFER_SIZE
      /\ Len(buffer) < MUX_BUFFER_SIZE \/ read_count = 0
  BY Zenon, RxFields DEF CInv, MainLoopRead
<1>2. /\ taken' = key /\ taken < typed /\ SetRx(t) /\ max_size' = 0
      /\ buffer' = IF direct THEN l ELSE Append(l, key)
      /\ UNCHANGED <<int_enabled, lcr, cr, typed, pc, seen, lost>>
  BY Zenon DEF MainLoopRead, mux_chr_read, Passed, Left
<1>3. key \in Item /\ key \in Nat /\ key <= typed
  BY <1>1, <1>2 DEF Item
<1>4. /\ Sound(s, 1, int_enabled) /\ s.read_count \in {0, 1}
      /\ l \in Seq(Item) /\ Len(l) <= Len(buffer)
      /\ QueueOf(s) \in Seq(Item) /\ QueueOf(s) \o l = w \o buffer
      /\ read_count = 0 => Len(l) < Len(buffer) \/ buffer = <<>>
      /\ s.read_count = 0 => QueueOf(s) = <<>> /\ l = <<>>
      /\ read_count = 1 => s.read_count = 1
  BY Zenon, <1>1, PassedOn
<1>5. nxp_uart_can_receive(s) = 1 - s.read_count
  BY Zenon, <1>1, FifoOff DEF nxp_uart_can_receive
<1>6. w = Waiting /\ w \in Seq(Item)
  BY Zenon, WaitingIs, WaitingFacts
<1> HIDE DEF key, s, l, w
<1>7. /\ Sound(t, 1, int_enabled) /\ t.read_count \in {0, 1}
      /\ pc = "data" => t.read_count > 0
      /\ QueueOf(t) \in Seq(Item) /\ buffer' \in Seq(Item)
      /\ (seen \o QueueOf(t)) \o buffer' = Append((seen \o w) \o buffer, key)
      /\ Len(buffer') <= MUX_BUFFER_SIZE
  <2>1. CASE direct
    <3>1. l = <<>> /\ s.read_count = 0 /\ t = nxp_uart_receive(s, <<key>>) /\ buffer' = <<>>
      BY <1>2, <1>4, <1>5, <2>1
    <3>2. Sound(t, 1, int_enabled) /\ t.read_count = 1 /\ QueueOf(t) = <<key>>
      BY Zenon, <1>1, <1>3, <1>4, <3>1, Filled
    <3> HIDE DEF t
    <3>3. w \o buffer = <<>>
      BY <1>4, <3>1
    <3>4. (seen \o w) \o buffer = seen
      <4>1. (seen \o w) \o buffer = seen \o (w \o buffer)
        BY Zenon, <1>1, <1>6, Assoc
      <4> QED
        BY <1>1, <3>3, <4>1
    <3>5. (seen \o <<key>>) \o <<>> = Append(seen, key)
      BY <1>1, <1>3
    <3>6. (seen \o QueueOf(t)) \o buffer' = Append((seen \o w) \o buffer, key)
      BY Zenon, <3>1, <3>2, <3>4, <3>5
    <3>7. <<key>> \in Seq(Item) /\ <<>> \in Seq(Item) /\ Len(<<>>) <= MUX_BUFFER_SIZE
      BY <1>3, MuxAssumption
    <3> QED
      BY <3>1, <3>2, <3>6, <3>7
  <2>2. CASE ~direct
    <3> DEFINE q == QueueOf(s)
    <3>1. t = s /\ buffer' = Append(l, key)
      BY Zenon, <1>2, <2>2
    <3>2. s.read_count = 1
      BY <1>4, <1>5, <2>2
    <3>3. Len(l) < MUX_BUFFER_SIZE
      <4>1. Len(buffer) \in Nat /\ Len(l) \in Nat
        BY <1>1, <1>4
      <4>2. CASE read_count = 0
        <5>1. Len(l) < Len(buffer)
          <6>1. buffer # <<>>
            <7>1. SUFFICES ASSUME buffer = <<>> PROVE FALSE
              BY Zenon
            <7>2. w = <<>>
              BY Zenon, <1>6, <4>2, WaitingFacts
            <7>3. q \o l = <<>>
              BY <1>4, <7>1, <7>2
            <7>4. Len(q) = 1
              <8>1. s.read_count \in Nat
                BY <3>2
              <8> QED
                BY Zenon, <3>2, <8>1, QueueLen
            <7> HIDE DEF q
            <7> QED
              BY <1>4, <7>3, <7>4 DEF q
          <6> QED
            BY Zenon, <1>4, <4>2, <6>1
        <5> QED
          BY <1>1, <4>1, <5>1, MuxAssumption
      <4>3. CASE read_count = 1
        BY <1>1, <1>4, <4>1, <4>3, MuxAssumption
      <4> QED
        BY Zenon, <1>1, <4>2, <4>3
    <3>4. Append(l, key) \in Seq(Item) /\ Len(Append(l, key)) <= MUX_BUFFER_SIZE
      BY <1>3, <1>4, <3>3, MuxAssumption
    <3>5. (seen \o q) \o Append(l, key) = Append((seen \o w) \o buffer, key)
      <4>1. (seen \o q) \o l = seen \o (q \o l)
        BY Zenon, <1>1, <1>4, Assoc
      <4>2. (seen \o w) \o buffer = seen \o (w \o buffer)
        BY Zenon, <1>1, <1>6, Assoc
      <4>3. (seen \o q) \o Append(l, key) = Append((seen \o q) \o l, key)
        <5> DEFINE a == seen \o q
        <5>1. a \in Seq(Item)
          BY <1>1, <1>4
        <5> HIDE DEF a
        <5>2. a \o Append(l, key) = Append(a \o l, key)
          BY <1>3, <1>4, <5>1
        <5> QED
          BY Zenon, <5>2 DEF a
      <4> HIDE DEF q
      <4> QED
        BY Zenon, <1>4, <4>1, <4>2, <4>3 DEF q
    <3> HIDE DEF t
    <3> QED
      BY <1>4, <3>1, <3>2, <3>4, <3>5
  <2> QED
    BY Zenon, <2>1, <2>2
<1> HIDE DEF t
<1>8. Sound(Rx', 1, int_enabled') /\ read_count' = t.read_count /\ Waiting' = QueueOf(t)
  BY Zenon, <1>2, <1>7, UartNext
<1>9. InHand' = Append(InHand, key)
  BY Zenon, <1>2, <1>6, <1>7, <1>8 DEF InHand
<1>10. InHand \in Seq(Item)
  BY <1>1, <1>6 DEF InHand
<1>11. Conserved(InHand', lost', taken')
  BY Zenon, <1>1, <1>2, <1>9, <1>10, OneMoreKey DEF CInv, key
<1> QED
  BY <1>1, <1>2, <1>3, <1>7, <1>8, <1>11 DEF CInv

\* UART_getc takes the oldest key, and a stored one takes its place.
LEMMA GetcDataInv ==
  ASSUME CInv, GetcData
  PROVE  CInv'
<1> DEFINE s == DrRead(Rx)
           t == Passed(s)
           l == Left(s)
           x == read_fifo[read_pos]
           q == QueueOf(t)
<1>1. /\ lcr = {} /\ cr = {} /\ Sound(Rx, 1, int_enabled) /\ Rx.read_count = read_count
      /\ read_count = 1 /\ buffer \in Seq(Item) /\ seen \in Seq(Item)
      /\ Len(buffer) <= MUX_BUFFER_SIZE /\ (max_size > 0 => Len(buffer) < MUX_BUFFER_SIZE)
  BY RxFields DEF CInv, GetcData
<1>2. /\ SetRx(t) /\ buffer' = l /\ data' = x /\ seen' = Append(seen, x) /\ pc' = "print"
      /\ UNCHANGED <<int_enabled, lcr, cr, max_size, typed, taken, lost>>
  BY Zenon DEF GetcData, nxp_uart_read_rxdata, Passed, Left
<1>3. Waiting = <<x>> /\ x \in Item
  BY Zenon, <1>1, WaitingFacts
<1>4. Sound(s, 1, int_enabled) /\ s.read_count = 0
  BY <1>1, FifoOff, DrReadSound
<1>5. QueueOf(s) = <<>>
  BY Zenon, <1>1, <1>4, FifoOff, QueueOfRead
<1> HIDE DEF s, x
<1>6. /\ Sound(t, 1, int_enabled) /\ t.read_count \in {0, 1}
      /\ l \in Seq(Item) /\ Len(l) <= Len(buffer) /\ q \in Seq(Item)
      /\ q \o l = QueueOf(s) \o buffer
  BY Zenon, <1>1, <1>4, PassedOn
<1> HIDE DEF t, l, q
<1>7. Sound(Rx', 1, int_enabled') /\ read_count' = t.read_count /\ Waiting' = q
  BY Zenon, <1>2, <1>6, UartNext DEF q
<1>8. InHand' = InHand
  <2>1. q \o l = buffer
    BY <1>1, <1>5, <1>6
  <2>2. Append(seen, x) \in Seq(Item) /\ Append(seen, x) = seen \o <<x>>
    BY <1>1, <1>3
  <2>3. (Append(seen, x) \o q) \o l = Append(seen, x) \o (q \o l)
    BY Zenon, <1>6, <2>2, Assoc
  <2>4. InHand' = (Append(seen, x) \o q) \o l
    BY Zenon, <1>2, <1>7 DEF InHand
  <2>5. InHand = (seen \o <<x>>) \o buffer
    BY Zenon, <1>3 DEF InHand
  <2> QED
    BY Zenon, <2>1, <2>2, <2>3, <2>4, <2>5
<1>9. Len(l) <= MUX_BUFFER_SIZE /\ (max_size > 0 => Len(l) < MUX_BUFFER_SIZE)
  BY <1>1, <1>6, MuxAssumption
<1>10. Append(seen, x) \in Seq(Item)
  BY <1>1, <1>3
<1> QED
  BY Zenon, <1>1, <1>2, <1>6, <1>7, <1>8, <1>9, <1>10 DEF CInv

\* A reset of the machine loses the key in the UART, if there is one.
LEMMA MachineResetInv ==
  ASSUME CInv, MachineReset
  PROVE  CInv'
<1> DEFINE t == AfterReset
<1>1. /\ lcr = {} /\ cr = {} /\ Rx \in RxState(nxp_uart_get_fifo_depth)
      /\ buffer \in Seq(Item) /\ seen \in Seq(Item) /\ taken \in Nat
      /\ Conserved(InHand, lost, taken)
  BY Zenon, FifoOff DEF CInv, Sound
<1>2. /\ SetRx(t) /\ lcr' = {} /\ cr' = {} /\ int_enabled' = {} /\ pc' = "flag"
      /\ lost' = lost \cup Range(Waiting) /\ UNCHANGED <<typed, taken, buffer, seen, max_size>>
  BY Zenon DEF MachineReset, nxp_uart_reset, AfterReset
<1>3. Sound(t, 1, int_enabled') /\ t.read_count = 0
  BY Zenon, <1>1, <1>2, AfterResetSound
<1> HIDE DEF t
<1>4. Sound(Rx', 1, int_enabled') /\ read_count' = 0
  BY Zenon, <1>1, <1>2, <1>3, UartNext
<1>5. Waiting' = <<>>
  BY <1>4 DEF Waiting
<1>6. InHand' = seen \o buffer
  BY <1>1, <1>2, <1>5 DEF InHand
<1>7. Waiting \in Seq(Item)
  BY Zenon, WaitingFacts
<1>8. Conserved((seen \o Waiting) \o buffer, lost, taken)
  BY Zenon, <1>1 DEF InHand
<1>9. Conserved(InHand', lost', taken')
  <2> DEFINE w == Waiting
  <2> HIDE DEF w
  <2>1. Conserved(seen \o buffer, lost \cup Range(w), taken)
    BY Zenon, <1>1, <1>7, <1>8, MiddleLost DEF w
  <2> QED
    BY Zenon, <1>2, <1>6, <2>1 DEF w
<1> QED
  BY Zenon, <1>2, <1>4, <1>9 DEF CInv

\* Every step of the console preserves the invariant.
LEMMA CStep ==
  ASSUME CInv, [ConsoleNext]_consoleVars
  PROVE  CInv'
<1>1. CASE UNCHANGED consoleVars
  <2>1. UNCHANGED <<rxVars, int_enabled, lcr, cr, buffer, seen, lost, taken, typed, pc,
                    max_size>>
    BY Zenon, <1>1 DEF consoleVars, vars
  <2> QED
    BY Zenon, <2>1, SameKeys DEF CInv
<1> QED
  BY Zenon, <1>1, TypeInv, MainLoopPollInv, MainLoopReadInv, GetcFlagInv, GetcDataInv,
     PutInv, PutcFlagInv, MachineResetInv DEF ConsoleNext, Putstr, PutcData

\* The invariant holds when the machine is built.
LEMMA CInit == ConsoleInit => CInv
<1> SUFFICES ASSUME ConsoleInit PROVE CInv
  BY Zenon
<1>1. UInv /\ lcr = {} /\ cr = {} /\ max_size = 0 /\ read_count = 0
  BY Zenon, UInit DEF ConsoleInit, Init
<1>2. Sound(Rx, 1, int_enabled)
  BY Zenon, <1>1, FifoOff DEF UInv
<1>3. Waiting = <<>>
  BY <1>1 DEF Waiting
<1>4. InHand = <<>>
  BY <1>3 DEF InHand, ConsoleInit
<1>5. Conserved(InHand, lost, taken)
  BY <1>4 DEF Conserved, ConsoleInit, Range
<1> QED
  BY <1>1, <1>2, <1>5, MuxAssumption DEF CInv, ConsoleInit

\* The invariant always holds.
LEMMA ConsoleInvariant == ConsoleSpec => []CInv
<1>1. CInv /\ [ConsoleNext]_consoleVars => CInv'
  BY Zenon, CStep
<1> QED
  BY <1>1, CInit, PTL DEF ConsoleSpec

\* Between the terminal and UART_getc no key is lost, doubled or overtaken, and
\* mux_chr_read never stores beyond its buffer, whatever its size and however
\* many keys are typed, although the main loop acts on an answer of
\* mux_chr_can_read that the guest has made old; only a reset of the machine
\* takes the key that is in the UART.
THEOREM KeysConservedAlways == ConsoleSpec => []KeysConserved
<1>1. CInv => KeysConserved
  BY Zenon DEF CInv, Conserved, KeysConserved
<1> QED
  BY <1>1, ConsoleInvariant, PTL
=============================================================================
