--------------------------- MODULE NxpUartProofs ----------------------------
(***************************************************************************)
(* For every depth of the FIFO: its flags, its interrupt and its order.    *)
(***************************************************************************)
EXTENDS NxpUart, WellFoundedInduction, SequenceTheorems, TLAPS

\* A set of natural numbers that is not empty has a least element.
LEMMA LeastNumber ==
  ASSUME NEW T \in SUBSET Nat, T # {}
  PROVE  \E m \in T : \A k \in T : m <= k
<1> DEFINE R == {ss \in Nat \X Nat : ss[1] < ss[2]}
<1>1. IsWellFoundedOn(R, Nat)
  BY Zenon, NatLessThanWellFounded DEF OpToRel
<1>2. PICK m \in T : \A k \in T : ~(<<k, m>> \in R)
  <2> HIDE DEF R
  <2> QED
    BY Zenon, <1>1, WFMin
<1>3. ASSUME NEW k \in T PROVE m <= k
  <2>1. k \in Nat /\ m \in Nat
    BY Zenon
  <2>2. ~(<<k, m>> \in R)
    BY Zenon, <1>2
  <2>3. ~(k < m)
    BY Zenon, <2>1, <2>2
  <2> QED
    BY <2>1, <2>3
<1> QED
  BY Zenon, <1>3

\* Induction up to n, for a set of numbers.
LEMMA UpTo ==
  ASSUME NEW n \in Nat, NEW T, 0 \in T, \A i \in 0 .. (n - 1) : i \in T => i + 1 \in T
  PROVE  \A i \in 0 .. n : i \in T
<1> SUFFICES ASSUME (0 .. n) \ T # {} PROVE FALSE
  BY Zenon
<1> DEFINE U == (0 .. n) \ T
<1>0. U \in SUBSET Nat
  OBVIOUS
<1>1. PICK m \in U : \A k \in U : m <= k
  <2> HIDE DEF U
  <2> QED
    BY Zenon, <1>0, LeastNumber DEF U
<1>2. m # 0 /\ m - 1 \in 0 .. (n - 1)
  BY <1>1
<1>3. m - 1 \in T
  BY <1>1, <1>2
<1> QED
  BY <1>1, <1>2, <1>3

-----------------------------------------------------------------------------
\* Arithmetic of the ring buffer.
LEMMA DivMod ==
  ASSUME NEW a \in Int, NEW d \in Nat \ {0}
  PROVE  /\ a % d \in 0 .. (d - 1) /\ a \div d \in Int
         /\ a = d * (a \div d) + (a % d)
<1>1. a % d \in 0 .. (d - 1)
  OBVIOUS
<1>2. a \div d \in Int
  OBVIOUS
<1>3. a = d * (a \div d) + (a % d)
  OBVIOUS
<1> QED
  BY Zenon, <1>1, <1>2, <1>3

\* The remainder of d * q + r by d is r.
LEMMA ModUnique ==
  ASSUME NEW q \in Int, NEW d \in Nat \ {0}, NEW r \in 0 .. (d - 1)
  PROVE  (d * q + r) % d = r
OBVIOUS

\* Two positions share a slot when their distance is a multiple of the depth.
LEMMA SameSlot ==
  ASSUME NEW a \in Int, NEW b \in Int, NEW d \in Nat \ {0}
  PROVE  a % d = b % d <=> (a - b) % d = 0
<1> DEFINE qa == a \div d  ra == a % d  qb == b \div d  rb == b % d
<1>1. /\ qa \in Int /\ ra \in 0 .. (d - 1) /\ a = d * qa + ra
      /\ qb \in Int /\ rb \in 0 .. (d - 1) /\ b = d * qb + rb
  BY Zenon, DivMod
<1> HIDE DEF qa, ra, qb, rb
<1>2. a - b = d * (qa - qb) + (ra - rb)
  BY <1>1
<1>3. CASE ra >= rb
  <2>1. ra - rb \in 0 .. (d - 1) /\ qa - qb \in Int
    BY <1>1, <1>3
  <2>2. (d * (qa - qb) + (ra - rb)) % d = ra - rb
    BY Zenon, <2>1, ModUnique
  <2> QED
    BY <1>1, <1>2, <2>1, <2>2 DEF ra, rb
<1>4. CASE ra < rb
  <2>1. d + ra - rb \in 1 .. (d - 1) /\ (qa - qb) - 1 \in Int
    BY <1>1, <1>4
  <2>2. a - b = d * ((qa - qb) - 1) + (d + ra - rb)
    BY <1>1, <1>2
  <2>3. (d * ((qa - qb) - 1) + (d + ra - rb)) % d = d + ra - rb
    BY <2>1, ModUnique
  <2> QED
    BY <1>1, <1>4, <2>1, <2>2, <2>3 DEF ra, rb
<1> QED
  BY <1>1, <1>3, <1>4

\* A position may be reduced before an offset is added.
LEMMA ModAdd ==
  ASSUME NEW a \in Int, NEW b \in Int, NEW d \in Nat \ {0}
  PROVE  ((a % d) + b) % d = (a + b) % d
<1> DEFINE q == a \div d  r == a % d
<1>1. q \in Int /\ r \in Int /\ a = d * q + r
  BY DivMod
<1> HIDE DEF q, r
<1>2. (a + b) - (r + b) = d * q + 0
  BY <1>1
<1>3. (d * q + 0) % d = 0
  BY <1>1, ModUnique
<1>4. a + b \in Int /\ r + b \in Int
  BY <1>1
<1>5. (a + b) % d = (r + b) % d
  <2> DEFINE x == a + b  y == r + b
  <2>1. x \in Int /\ y \in Int /\ (x - y) % d = 0
    BY Zenon, <1>2, <1>3, <1>4
  <2> HIDE DEF x, y
  <2>2. x % d = y % d
    BY ZenonT(30), <2>1, SameSlot
  <2> QED
    BY Zenon, <2>2 DEF x, y
<1> QED
  BY Zenon, <1>5 DEF r

\* A position within the depth is its own slot.
LEMMA ModSmall ==
  ASSUME NEW d \in Nat \ {0}, NEW r \in 0 .. (d - 1)
  PROVE  r % d = r
OBVIOUS
-----------------------------------------------------------------------------
\* The loop of nxp_uart_receive goes through the buffer item by item.
LEMMA PutsDef ==
  ASSUME NEW s, NEW buf, Len(buf) \in Nat
  PROVE  /\ Puts(s, buf)[0] = s
         /\ \A i \in 1 .. Len(buf) :
              Puts(s, buf)[i] = nxp_uart_fifo_rx_put(Puts(s, buf)[i - 1], buf[i])
<1> DEFINE n == Len(buf)
           Step(t, i) == nxp_uart_fifo_rx_put(t, buf[i])
           Runs(g, m) == g = [i \in 0 .. m |-> IF i = 0 THEN s ELSE Step(g[i - 1], i)]
           T == {m \in 0 .. n : \E g : Runs(g, m)}
<1> HIDE DEF Step
<1>1. 0 \in T
  <2>1. Runs([i \in 0 .. 0 |-> s], 0)
    OBVIOUS
  <2> HIDE DEF Runs
  <2>2. 0 \in 0 .. n
    OBVIOUS
  <2> QED
    BY Zenon, <2>1, <2>2
<1>2. ASSUME NEW m \in 0 .. (n - 1), m \in T PROVE m + 1 \in T
  <2>1. PICK g : Runs(g, m)
    BY Zenon, <1>2
  <2> DEFINE h == [i \in 0 .. (m + 1) |-> IF i = 0 THEN s ELSE Step(g[i - 1], i)]
  <2>2. \A i \in 0 .. m : h[i] = g[i]
    BY <2>1
  <2>3. \A i \in 0 .. (m + 1) : i # 0 => h[i - 1] = g[i - 1]
    BY <2>2
  <2>4. h = [i \in 0 .. (m + 1) |-> IF i = 0 THEN s ELSE Step(h[i - 1], i)]
    <3> HIDE DEF h
    <3> QED
      BY Zenon, <2>3 DEF h
  <2>5. m + 1 \in 0 .. n /\ Runs(h, m + 1)
    BY <2>4
  <2> HIDE DEF Runs, h
  <2> QED
    BY Zenon, <2>5
<1>3. n \in T
  <2>1. \A m \in 0 .. (n - 1) : m \in T => m + 1 \in T
    BY Zenon, <1>2
  <2>2. n \in Nat /\ n \in 0 .. n
    OBVIOUS
  <2> HIDE DEF T, n
  <2> QED
    BY Zenon, <1>1, <2>1, <2>2, UpTo
<1>4. \E g : Runs(g, n)
  BY Zenon, <1>3
<1>5. Runs(CHOOSE g : Runs(g, n), n)
  <2> HIDE DEF Runs
  <2> QED
    BY <1>4, Zenon
<1>6. Puts(s, buf) = CHOOSE g : Runs(g, n)
  BY Zenon DEF Puts, Step
<1>7. Runs(Puts(s, buf), n)
  BY Zenon, <1>5, <1>6
<1> QED
  BY <1>7 DEF Step
-----------------------------------------------------------------------------
Flag == {"RXFE", "RXFF", "TXFE"} \cup ModemInputs(ModemOutput)

\* The states of the receiver when the FIFO has depth d.
RxState(d) ==
  [read_fifo : [0 .. NXP_UART_FIFO_DEPTH - 1 -> Item],
   read_pos : 0 .. (d - 1), read_count : Nat,
   flags : SUBSET Flag, int_level : SUBSET Interrupt, irq : BOOLEAN]

\* What holds of them between any two puts.
Sound(s, d, enabled) ==
  /\ s \in RxState(d)
  /\ "RXFE" \in s.flags <=> s.read_count = 0
  /\ ~({"RXFE", "RXFF"} \subseteq s.flags)
  /\ s.int_level \cap enabled # {} => s.irq

\* nxp_uart_get_fifo_depth is one or the whole FIFO.
LEMMA DepthFacts ==
  /\ nxp_uart_get_fifo_depth \in Nat \ {0}
  /\ nxp_uart_get_fifo_depth <= NXP_UART_FIFO_DEPTH
  /\ NXP_UART_FIFO_DEPTH \in Nat \ {0}
BY UartAssumption DEF nxp_uart_get_fifo_depth

\* The fields of a receiver t after a put of x into s.
AfterPut(t, s, x) ==
  /\ t \in RxState(nxp_uart_get_fifo_depth)
  /\ t.read_fifo = [s.read_fifo EXCEPT
       ![(s.read_pos + s.read_count) % nxp_uart_get_fifo_depth] = x]
  /\ t.read_pos = s.read_pos /\ t.read_count = s.read_count + 1
  /\ t.flags = (s.flags \ {"RXFE"}) \cup
       (IF t.read_count = nxp_uart_get_fifo_depth THEN {"RXFF"} ELSE {})
  /\ t.int_level = IF s.read_count = 0 THEN s.int_level \cup {"RX"} ELSE s.int_level
  /\ t.irq = IF s.read_count = 0 THEN t.int_level \cap int_enabled # {} ELSE s.irq

\* What nxp_uart_fifo_rx_put leaves in each field of the receiver.
LEMMA PutFields ==
  ASSUME NEW s \in RxState(nxp_uart_get_fifo_depth), NEW x \in Item
  PROVE  AfterPut(nxp_uart_fifo_rx_put(s, x), s, x)
<1> DEFINE t == nxp_uart_fifo_rx_put(s, x)
<1> DEFINE d == nxp_uart_get_fifo_depth
           slot == (s.read_pos + s.read_count) % d
<1>1. d \in Nat \ {0} /\ d <= NXP_UART_FIFO_DEPTH /\ NXP_UART_FIFO_DEPTH \in Nat
  BY Zenon, DepthFacts
<1>2. s.read_pos \in Nat /\ s.read_count \in Nat
  BY <1>1 DEF RxState
<1>3. slot \in 0 .. (NXP_UART_FIFO_DEPTH - 1)
  <2> DEFINE p == s.read_pos + s.read_count
  <2>1. p \in Int
    BY <1>2
  <2> HIDE DEF p, d
  <2>2. p % d \in 0 .. (d - 1)
    BY Zenon, <1>1, <2>1, DivMod
  <2> QED
    BY <1>1, <2>2 DEF p
<1>4. "RX" \in Interrupt /\ {"RXFF"} \subseteq Flag
  BY Zenon DEF Interrupt, Flag
<1> HIDE DEF d
<1>5. /\ t.read_fifo = [s.read_fifo EXCEPT ![slot] = x]
      /\ t.read_pos = s.read_pos /\ t.read_count = s.read_count + 1
      /\ t.flags = (s.flags \ {"RXFE"}) \cup (IF s.read_count + 1 = d THEN {"RXFF"} ELSE {})
      /\ t.int_level = IF s.read_count + 1 = 1 THEN s.int_level \cup {"RX"} ELSE s.int_level
      /\ t.irq = IF s.read_count + 1 = 1
                   THEN (s.int_level \cup {"RX"}) \cap int_enabled # {} ELSE s.irq
  BY Zenon DEF nxp_uart_fifo_rx_put, RxState, read_trigger, nxp_uart_update, d
<1>6. t \in RxState(d)
  <2>1. /\ s.read_fifo \in [0 .. NXP_UART_FIFO_DEPTH - 1 -> Item]
        /\ s.read_pos \in 0 .. (d - 1) /\ s.flags \subseteq Flag
        /\ s.int_level \subseteq Interrupt /\ s.irq \in BOOLEAN
    BY Zenon DEF RxState, d
  <2>2. t.read_fifo \in [0 .. NXP_UART_FIFO_DEPTH - 1 -> Item]
    BY Zenon, <1>3, <1>5, <2>1
  <2>3. t.read_pos \in 0 .. (d - 1) /\ t.read_count \in Nat
    BY <1>2, <1>5, <2>1
  <2>4. t.flags \subseteq Flag /\ t.int_level \subseteq Interrupt
    BY Zenon, <1>4, <1>5, <2>1
  <2>5. t.irq \in BOOLEAN
    BY Zenon, <1>5, <2>1
  <2>6. t = [read_fifo |-> t.read_fifo, read_pos |-> t.read_pos,
             read_count |-> t.read_count, flags |-> t.flags,
             int_level |-> t.int_level, irq |-> t.irq]
    BY Zenon DEF nxp_uart_fifo_rx_put, RxState, read_trigger
  <2> QED
    BY Zenon, <2>2, <2>3, <2>4, <2>5, <2>6 DEF RxState, d
<1> HIDE DEF t
<1> QED
  BY <1>2, <1>5, <1>6 DEF AfterPut, d, t

\* A put leaves the receiver sound.
LEMMA PutSound ==
  ASSUME NEW s, Sound(s, nxp_uart_get_fifo_depth, int_enabled), NEW x \in Item
  PROVE  Sound(nxp_uart_fifo_rx_put(s, x), nxp_uart_get_fifo_depth, int_enabled)
<1> DEFINE t == nxp_uart_fifo_rx_put(s, x)
           d == nxp_uart_get_fifo_depth
<1>1. s \in RxState(d) /\ s.read_count \in Nat
  BY Zenon DEF Sound, RxState
<1>2. AfterPut(t, s, x)
  BY Zenon, <1>1, PutFields
<1> HIDE DEF t
<1> HIDE DEF d
<1>3. t.int_level \cap int_enabled # {} => t.irq
  BY Zenon, <1>2 DEF Sound, AfterPut
<1>4. "RXFE" \notin t.flags /\ t.read_count # 0
  BY <1>1, <1>2 DEF AfterPut
<1> QED
  BY Zenon, <1>2, <1>3, <1>4 DEF Sound, AfterPut, t, d

\* The receiver in the course of the loop: the items are counted, and the
\* interrupt is pending once the FIFO is no longer empty.
LEMMA PutsSound ==
  ASSUME NEW s, Sound(s, nxp_uart_get_fifo_depth, int_enabled),
         NEW buf \in Seq(Item), NEW i \in 0 .. Len(buf)
  PROVE  /\ Sound(Puts(s, buf)[i], nxp_uart_get_fifo_depth, int_enabled)
         /\ Puts(s, buf)[i].read_count = s.read_count + i
         /\ Puts(s, buf)[i].read_pos = s.read_pos
         /\ "RX" \in s.int_level \/ (s.read_count = 0 /\ i > 0)
              => "RX" \in Puts(s, buf)[i].int_level
<1> DEFINE n == Len(buf)
           d == nxp_uart_get_fifo_depth
           P(t, k) == /\ Sound(t, d, int_enabled)
                      /\ t.read_count = s.read_count + k /\ t.read_pos = s.read_pos
                      /\ "RX" \in s.int_level \/ (s.read_count = 0 /\ k > 0)
                           => "RX" \in t.int_level
           T == {k \in 0 .. n : P(Puts(s, buf)[k], k)}
<1>1. n \in Nat /\ s.read_count \in Nat
  BY DEF Sound, RxState
<1>2. 0 \in T
  BY <1>1, PutsDef
<1>3. ASSUME NEW k \in 0 .. (n - 1), k \in T PROVE k + 1 \in T
  <2> DEFINE t == Puts(s, buf)[k]
             u == nxp_uart_fifo_rx_put(t, buf[k + 1])
  <2>1. P(t, k)
    BY Zenon, <1>3
  <2>2. k + 1 \in 1 .. n /\ (k + 1) - 1 = k /\ buf[k + 1] \in Item
    BY <1>1
  <2>3. Puts(s, buf)[k + 1] = u
    BY <1>1, <2>2, PutsDef
  <2> HIDE DEF t
  <2>4. t \in RxState(d)
    BY Zenon, <2>1 DEF Sound
  <2>5. AfterPut(u, t, buf[k + 1])
    BY Zenon, <2>2, <2>4, PutFields
  <2>6. Sound(u, d, int_enabled)
    BY Zenon, <2>1, <2>2, PutSound
  <2> HIDE DEF u, d
  <2>7. P(u, k + 1)
    <3>1. u.read_count = s.read_count + (k + 1) /\ u.read_pos = s.read_pos
      BY <1>1, <2>1, <2>5 DEF AfterPut
    <3>2. "RX" \in t.int_level \/ t.read_count = 0 => "RX" \in u.int_level
      BY Zenon, <2>5 DEF AfterPut
    <3>3. "RX" \in s.int_level \/ s.read_count = 0 => "RX" \in u.int_level
      BY <1>1, <2>1, <3>2
    <3> QED
      BY Zenon, <2>6, <3>1, <3>3
  <2> HIDE DEF P
  <2> QED
    BY <2>2, <2>3, <2>7
<1>4. \A k \in 0 .. n : k \in T
  <2>1. \A k \in 0 .. (n - 1) : k \in T => k + 1 \in T
    BY Zenon, <1>3
  <2> HIDE DEF T, n
  <2> QED
    BY Zenon, <1>1, <1>2, <2>1, UpTo
<1> QED
  BY Zenon, <1>4
-----------------------------------------------------------------------------
\* The inductive invariant.
Others ==
  /\ int_enabled \subseteq Interrupt /\ rsr \subseteq {BE}
  /\ lcr \subseteq {"FEN", "BRK"} /\ cr \subseteq {"LBE"} \cup ModemOutput
  /\ max_size \in -MaxCount .. NXP_UART_FIFO_DEPTH
  /\ data \in Item \cup {NoItem}

UInv ==
  /\ Sound(Rx, nxp_uart_get_fifo_depth, int_enabled)
  /\ read_count <= MaxCount
  /\ Others

\* Data without its interrupt was there before.
Kept(s, t) ==
  t.read_count > 0 /\ "RX" \notin t.int_level => s.read_count > 0 /\ "RX" \notin s.int_level

\* The variables of the receiver are the fields of Rx.
LEMMA RxFields ==
  /\ Rx.read_fifo = read_fifo /\ Rx.read_pos = read_pos /\ Rx.read_count = read_count
  /\ Rx.flags = flags /\ Rx.int_level = int_level /\ Rx.irq = irq
BY Zenon DEF Rx

\* After SetRx the receiver is the record it was set to.
LEMMA SetRxIs ==
  ASSUME NEW t, NEW d, t \in RxState(d), SetRx(t)
  PROVE  Rx' = t
BY Zenon DEF SetRx, Rx, RxState

\* The invariant is what the runs check, and that the interrupt is not lost.
LEMMA InvImplies == UInv => FlagsTellFifo /\ NoLostInterrupt
<1> SUFFICES ASSUME UInv PROVE FlagsTellFifo /\ NoLostInterrupt
  BY Zenon
<1>1. Sound(Rx, nxp_uart_get_fifo_depth, int_enabled)
  BY Zenon DEF UInv
<1>2. /\ read_fifo \in [0 .. NXP_UART_FIFO_DEPTH - 1 -> Item]
      /\ read_pos \in 0 .. nxp_uart_get_fifo_depth - 1 /\ read_count \in Nat
      /\ flags \subseteq Flag /\ int_level \subseteq Interrupt /\ irq \in BOOLEAN
  BY Zenon, <1>1, RxFields DEF Sound, RxState
<1>3. read_count \in 0 .. MaxCount
  BY <1>2, UartAssumption DEF UInv
<1>4. TypeOK
  BY Zenon, <1>2, <1>3 DEF TypeOK, UInv, Others, Flag
<1>5. ("RXFE" \in flags <=> read_count = 0) /\ ~({"RXFE", "RXFF"} \subseteq flags)
  BY Zenon, <1>1, RxFields DEF Sound
<1>6. NoLostInterrupt
  BY Zenon, <1>1, RxFields DEF Sound, NoLostInterrupt
<1> QED
  BY Zenon, <1>4, <1>5, <1>6 DEF FlagsTellFifo

\* A buffer of bytes, received at once.
LEMMA ReceiveSound ==
  ASSUME NEW s, Sound(s, nxp_uart_get_fifo_depth, int_enabled),
         NEW buf \in Seq(Item)
  PROVE  /\ Sound(nxp_uart_receive(s, buf), nxp_uart_get_fifo_depth, int_enabled)
         /\ nxp_uart_receive(s, buf).read_count <= s.read_count + Len(buf)
         /\ nxp_uart_receive(s, buf).read_pos = s.read_pos
         /\ Kept(s, nxp_uart_receive(s, buf))
<1> DEFINE n == Len(buf)
           t == Puts(s, buf)[n]
<1>1. n \in Nat /\ n \in 0 .. n /\ s.read_count \in Nat
  BY DEF Sound, RxState
<1>2. CASE nxp_uart_loopback_enabled
  <2>1. nxp_uart_receive(s, buf) = s
    BY Zenon, <1>2 DEF nxp_uart_receive
  <2> QED
    BY <1>1, <2>1 DEF Kept
<1>3. CASE ~nxp_uart_loopback_enabled
  <2>1. nxp_uart_receive(s, buf) = t
    BY Zenon, <1>3 DEF nxp_uart_receive
  <2>2. /\ Sound(t, nxp_uart_get_fifo_depth, int_enabled)
        /\ t.read_count = s.read_count + n /\ t.read_pos = s.read_pos
        /\ "RX" \in s.int_level \/ (s.read_count = 0 /\ n > 0) => "RX" \in t.int_level
    BY Zenon, <1>1, PutsSound
  <2> HIDE DEF t
  <2>3. Kept(s, t)
    BY <1>1, <2>2 DEF Kept
  <2> QED
    BY <1>1, <2>1, <2>2, <2>3
<1> QED
  BY Zenon, <1>2, <1>3

\* Loopback puts one item.
LEMMA LoopbackSound ==
  ASSUME NEW s, Sound(s, nxp_uart_get_fifo_depth, int_enabled), NEW x \in Item
  PROVE  /\ Sound(nxp_uart_loopback_tx(s, x), nxp_uart_get_fifo_depth, int_enabled)
         /\ nxp_uart_loopback_tx(s, x).read_pos = s.read_pos
         /\ Kept(s, nxp_uart_loopback_tx(s, x))
<1> DEFINE t == nxp_uart_fifo_rx_put(s, x)
<1>1. s \in RxState(nxp_uart_get_fifo_depth) /\ s.read_count \in Nat
  BY Zenon DEF Sound, RxState
<1>2. Sound(t, nxp_uart_get_fifo_depth, int_enabled) /\ AfterPut(t, s, x)
  BY Zenon, <1>1, PutSound, PutFields
<1> HIDE DEF t
<1>3. t.read_pos = s.read_pos /\ Kept(s, t)
  BY <1>1, <1>2 DEF Kept, AfterPut
<1>4. Kept(s, s)
  BY Zenon DEF Kept
<1> QED
  BY Zenon, <1>2, <1>3, <1>4 DEF nxp_uart_loopback_tx, t

\* New fields of the right type.
LEMMA Rebuild ==
  ASSUME NEW d, NEW s \in RxState(d), NEW a \in Nat, NEW b \in 0 .. (d - 1),
         NEW c \in SUBSET Flag, NEW e \in SUBSET Interrupt, NEW f \in BOOLEAN
  PROVE  [s EXCEPT !.read_count = a, !.read_pos = b, !.flags = c,
                   !.int_level = e, !.irq = f] \in RxState(d)
BY Zenon DEF RxState

\* A read of DR.
LEMMA DrReadSound ==
  ASSUME NEW s, Sound(s, nxp_uart_get_fifo_depth, int_enabled)
  PROVE  /\ Sound(DrRead(s), nxp_uart_get_fifo_depth, int_enabled)
         /\ DrRead(s).read_fifo = s.read_fifo
         /\ DrRead(s).read_count = IF s.read_count > 0 THEN s.read_count - 1 ELSE 0
         /\ DrRead(s).read_pos =
              IF s.read_count > 0 THEN (s.read_pos + 1) % nxp_uart_get_fifo_depth
                                  ELSE s.read_pos
         /\ Kept(s, DrRead(s))
<1> DEFINE d == nxp_uart_get_fifo_depth
           t == DrRead(s)
<1>1. /\ d \in Nat \ {0}
      /\ s \in RxState(d) /\ s.read_count \in Nat /\ s.read_pos \in 0 .. (d - 1)
      /\ s.read_fifo \in [0 .. NXP_UART_FIFO_DEPTH - 1 -> Item]
      /\ s.flags \subseteq Flag /\ s.int_level \subseteq Interrupt
  BY Zenon, DepthFacts DEF Sound, RxState
<1> HIDE DEF d
<1>2. /\ t.read_fifo = s.read_fifo
      /\ t.read_count = IF s.read_count > 0 THEN s.read_count - 1 ELSE 0
      /\ t.read_pos = IF s.read_count > 0 THEN (s.read_pos + 1) % d ELSE s.read_pos
      /\ t.flags = (s.flags \ {"RXFF"}) \cup (IF t.read_count = 0 THEN {"RXFE"} ELSE {})
      /\ t.int_level = IF t.read_count = 0 THEN s.int_level \ {"RX"} ELSE s.int_level
      /\ t.irq = (t.int_level \cap int_enabled # {})
  BY <1>1 DEF DrRead, RxState, read_trigger, nxp_uart_update, d
<1>3. t = [s EXCEPT !.read_count = t.read_count, !.read_pos = t.read_pos,
                    !.flags = t.flags, !.int_level = t.int_level, !.irq = t.irq]
  <2> DEFINE count == IF s.read_count > 0 THEN s.read_count - 1 ELSE 0
             level == IF count = read_trigger - 1 THEN s.int_level \ {"RX"} ELSE s.int_level
             pos == IF s.read_count > 0 THEN (s.read_pos + 1) % d ELSE s.read_pos
             fl == (s.flags \ {"RXFF"}) \cup (IF count = 0 THEN {"RXFE"} ELSE {})
             line == nxp_uart_update(level, int_enabled)
  <2>1. t = [s EXCEPT !.read_count = count, !.read_pos = pos, !.flags = fl,
                      !.int_level = level, !.irq = line]
    BY Zenon DEF DrRead, d
  <2> HIDE DEF count, level, pos, fl, line, t
  <2>2. /\ t.read_count = count /\ t.read_pos = pos /\ t.flags = fl
        /\ t.int_level = level /\ t.irq = line
    BY Zenon, <1>1, <2>1 DEF RxState
  <2> QED
    BY <2>1, <2>2, Zenon
<1> HIDE DEF t
<1>4. t.read_count \in Nat
  BY <1>1, <1>2
<1>5. t.read_pos \in 0 .. (d - 1)
  <2> DEFINE p == s.read_pos + 1
  <2>1. p \in Int
    BY <1>1
  <2> HIDE DEF p
  <2>2. p % d \in 0 .. (d - 1)
    BY Zenon, <1>1, <2>1, DivMod
  <2> QED
    BY Zenon, <1>1, <1>2, <2>2 DEF p
<1>6. t.flags \subseteq Flag /\ t.int_level \subseteq Interrupt /\ t.irq \in BOOLEAN
  BY Zenon, <1>1, <1>2 DEF Flag
<1>7. t \in RxState(d)
  <2>1. t.flags \in SUBSET Flag /\ t.int_level \in SUBSET Interrupt
    BY Zenon, <1>6
  <2>2. [s EXCEPT !.read_count = t.read_count, !.read_pos = t.read_pos, !.flags = t.flags,
                  !.int_level = t.int_level, !.irq = t.irq] \in RxState(d)
    BY <1>1, <1>4, <1>5, <1>6, <2>1, Rebuild, ZenonT(30)
  <2> QED
    BY <1>3, <2>2, Zenon
<1>8. "RXFE" \in t.flags <=> t.read_count = 0
  BY <1>1, <1>2 DEF Sound
<1>9. Kept(s, t)
  BY <1>1, <1>2 DEF Kept
<1> QED
  BY Zenon, <1>2, <1>7, <1>8, <1>9 DEF Sound, t, d

\* A handler that is done with the receiver t.
LEMMA NewRx ==
  ASSUME NEW t, Sound(t, nxp_uart_get_fifo_depth', int_enabled'),
         t.read_count <= MaxCount, SetRx(t), Others'
  PROVE  UInv' /\ Rx' = t
<1>1. Rx' = t
  BY Zenon, SetRxIs DEF Sound
<1>2. read_count' = t.read_count
  BY Zenon DEF SetRx
<1> QED
  BY Zenon, <1>1, <1>2 DEF UInv

\* The depth changes only with LCR.
LEMMA SameDepth == lcr' = lcr => nxp_uart_get_fifo_depth' = nxp_uart_get_fifo_depth
BY Zenon DEF nxp_uart_get_fifo_depth

\* Other flags, interrupts or enables, and the line that goes with them.
WithFlags(s, fl, lv, en) ==
  [s EXCEPT !.flags = fl, !.int_level = lv, !.irq = nxp_uart_update(lv, en)]

RxBits(fl) == fl \cap {"RXFE", "RXFF"}

\* Flags that agree on RXFE and RXFF, with any interrupts and their line, keep the
\* receiver sound.
LEMMA NewFlags ==
  ASSUME NEW d, NEW e, NEW s, Sound(s, d, e),
         NEW fl \in SUBSET Flag, NEW lv \in SUBSET Interrupt, NEW en,
         RxBits(fl) = RxBits(s.flags)
  PROVE  /\ Sound(WithFlags(s, fl, lv, en), d, en)
         /\ WithFlags(s, fl, lv, en).read_count = s.read_count
         /\ WithFlags(s, fl, lv, en).int_level = lv
<1> DEFINE iq == nxp_uart_update(lv, en)
           t == [s EXCEPT !.flags = fl, !.int_level = lv, !.irq = iq]
<1>1. s \in RxState(d)
  BY Zenon DEF Sound
<1>2. iq \in BOOLEAN /\ (lv \cap en # {} => iq)
  BY Zenon DEF nxp_uart_update
<1> HIDE DEF iq
<1>3. t.read_count = s.read_count /\ t.flags = fl /\ t.int_level = lv /\ t.irq = iq
  BY Zenon, <1>1 DEF RxState
<1>4. t \in RxState(d)
  BY Zenon, <1>1, <1>2 DEF RxState
<1> HIDE DEF t
<1>5. Sound(t, d, en)
  BY Zenon, <1>2, <1>3, <1>4 DEF Sound, RxBits
<1> QED
  BY <1>3, <1>5, Zenon DEF WithFlags, t, iq

\* What can arrive at once is made of items.
LEMMA BurstItems == \A b \in Burst \cup {<<>>} : b \in Seq(Item) /\ Len(b) \in Nat
<1> SUFFICES ASSUME NEW b \in Burst \cup {<<>>} PROVE b \in Seq(Item)
  OBVIOUS
<1>1. CASE b \in Burst
  <2>1. PICK m \in 1 .. NXP_UART_FIFO_DEPTH : b \in [1 .. m -> Byte]
    BY Zenon, <1>1 DEF Burst
  <2>2. m \in Nat /\ Byte \subseteq Item
    BY UartAssumption DEF Item
  <2>3. b \in [1 .. m -> Item]
    BY Zenon, <2>1, <2>2
  <2> QED
    BY <2>2, <2>3
<1> QED
  BY Zenon, <1>1, EmptySeq

\* A write of DR.
LEMMA WriteTxInv ==
  ASSUME UInv, NEW b \in Byte, nxp_uart_write_txdata(b)
  PROVE  UInv' /\ Kept(Rx, Rx')
<1> DEFINE d == nxp_uart_get_fifo_depth
           s == nxp_uart_loopback_tx(Rx, b)
           lv == s.int_level \cup {"TX"}
           t == WithFlags(s, s.flags, lv, int_enabled)
           u == [s EXCEPT !.int_level = lv, !.irq = nxp_uart_update(lv, int_enabled)]
<1>1. b \in Item /\ Sound(Rx, d, int_enabled)
  BY Zenon DEF Item, UInv
<1>2. Sound(s, d, int_enabled) /\ Kept(Rx, s)
  BY Zenon, <1>1, LoopbackSound
<1>3. s.read_count <= MaxCount /\ SetRx(u) /\ UNCHANGED <<int_enabled, lcr>>
  BY Zenon DEF nxp_uart_write_txdata
<1>4. Others'
  BY Zenon DEF nxp_uart_write_txdata, UInv, Others
<1>5. s.flags \in SUBSET Flag /\ lv \in SUBSET Interrupt
  BY Zenon, <1>2 DEF Sound, RxState, Interrupt
<1> HIDE DEF s, d
<1>6. u = t
  BY Zenon, <1>2 DEF Sound, RxState, WithFlags
<1> HIDE DEF lv
<1>7. Sound(t, d, int_enabled) /\ t.read_count = s.read_count /\ t.int_level = lv
  BY <1>2, <1>5, NewFlags
<1> HIDE DEF t, u
<1>8. d' = d
  BY Zenon, <1>3, SameDepth DEF d
<1>9. UInv' /\ Rx' = t
  BY Zenon, <1>3, <1>4, <1>6, <1>7, <1>8, NewRx DEF d
<1>10. Kept(Rx, t)
  BY Zenon, <1>2, <1>7 DEF Kept, lv
<1> QED
  BY Zenon, <1>9, <1>10

\* A read of DR, and what the backend delivers at its end.
LEMMA ReadRxInv ==
  ASSUME UInv, NEW refill \in Seq(Item), nxp_uart_read_rxdata(refill)
  PROVE  UInv' /\ Kept(Rx, Rx')
<1> DEFINE d == nxp_uart_get_fifo_depth
           s == DrRead(Rx)
           t == nxp_uart_receive(s, refill)
<1>1. Sound(Rx, d, int_enabled)
  BY Zenon DEF UInv
<1>2. Sound(s, d, int_enabled) /\ Kept(Rx, s)
  BY Zenon, <1>1, DrReadSound
<1>3. s.read_count + Len(refill) <= MaxCount /\ SetRx(t) /\ UNCHANGED <<int_enabled, lcr>>
  BY Zenon DEF nxp_uart_read_rxdata, Accepts
<1>4. Others'
  <2>1. read_fifo[read_pos] \in Item
    BY <1>1, RxFields, DepthFacts DEF Sound, RxState
  <2> QED
    BY Zenon, <2>1 DEF nxp_uart_read_rxdata, UInv, Others
<1> HIDE DEF s
<1>5. /\ Sound(t, d, int_enabled) /\ t.read_count <= s.read_count + Len(refill)
      /\ Kept(s, t)
  BY Zenon, <1>2, ReceiveSound
<1> HIDE DEF t
<1>6. t.read_count <= MaxCount
  BY SMTT(30), <1>2, <1>3, <1>5, UartAssumption DEF Sound, RxState
<1> HIDE DEF d
<1>7. d' = d
  BY Zenon, <1>3, SameDepth DEF d
<1>8. UInv' /\ Rx' = t
  BY Zenon, <1>3, <1>4, <1>5, <1>6, <1>7, NewRx DEF d
<1>9. Kept(Rx, t)
  BY Zenon, <1>2, <1>5 DEF Kept
<1> QED
  BY Zenon, <1>8, <1>9

\* A handler that leaves the receiver alone.
LEMMA SameRx ==
  ASSUME UInv, UNCHANGED <<rxVars, int_enabled, lcr>>, Others'
  PROVE  UInv' /\ Kept(Rx, Rx')
<1>1. Rx' = Rx
  BY Zenon DEF rxVars, Rx
<1>2. nxp_uart_get_fifo_depth' = nxp_uart_get_fifo_depth
  BY Zenon, SameDepth
<1>3. UInv'
  BY Zenon, <1>1, <1>2 DEF UInv, rxVars
<1> QED
  BY Zenon, <1>1, <1>3 DEF Kept

\* A write of ECR preserves the invariant and loses no interrupt.
LEMMA WriteECRInv ==
  ASSUME UInv, WriteECR
  PROVE  UInv' /\ Kept(Rx, Rx')
<1>1. Others'
  BY Zenon DEF WriteECR, UInv, Others
<1> QED
  BY Zenon, <1>1, SameRx DEF WriteECR

\* nxp_uart_can_receive preserves the invariant and loses no interrupt.
LEMMA PollInv ==
  ASSUME UInv, Poll
  PROVE  UInv' /\ Kept(Rx, Rx')
<1>1. read_count \in Nat /\ read_count <= MaxCount
  BY Zenon, RxFields DEF UInv, Sound, RxState
<1>2. max_size' = nxp_uart_get_fifo_depth - read_count
  BY Zenon, RxFields DEF Poll, nxp_uart_can_receive
<1>3. max_size' \in -MaxCount .. NXP_UART_FIFO_DEPTH
  BY SMTT(30), <1>1, <1>2, DepthFacts, UartAssumption
<1>4. Others'
  BY Zenon, <1>3 DEF Poll, UInv, Others
<1> QED
  BY Zenon, <1>4, SameRx DEF Poll

\* The backend delivers.
LEMMA DeliverInv ==
  ASSUME UInv, NEW buf \in Seq(Item), read_count + Len(buf) <= MaxCount,
         SetRx(nxp_uart_receive(Rx, buf)), UNCHANGED <<int_enabled, lcr>>, Others'
  PROVE  UInv' /\ Kept(Rx, Rx')
<1> DEFINE d == nxp_uart_get_fifo_depth
           t == nxp_uart_receive(Rx, buf)
<1>1. Sound(Rx, d, int_enabled)
  BY Zenon DEF UInv
<1>2. Sound(t, d, int_enabled) /\ t.read_count <= Rx.read_count + Len(buf) /\ Kept(Rx, t)
  BY Zenon, <1>1, ReceiveSound
<1> HIDE DEF t
<1>3. t.read_count <= MaxCount
  BY SMTT(30), <1>1, <1>2, RxFields, UartAssumption DEF Sound, RxState
<1>4. d' = d
  BY Zenon, SameDepth
<1>5. UInv' /\ Rx' = t
  <2> HIDE DEF d
  <2> QED
    BY Zenon, <1>2, <1>3, <1>4, NewRx DEF t, d
<1> QED
  BY Zenon, <1>2, <1>5

\* A delivery by nxp_uart_receive preserves the invariant and loses no interrupt.
LEMMA ReceiveInv ==
  ASSUME UInv, NEW buf \in Seq(Item), Receive(buf) \/ MuxReceive(buf)
  PROVE  UInv' /\ Kept(Rx, Rx')
<1>1. /\ read_count + Len(buf) <= MaxCount /\ SetRx(nxp_uart_receive(Rx, buf))
      /\ UNCHANGED <<int_enabled, lcr>>
  BY Zenon, RxFields DEF Receive, MuxReceive, Accepts
<1>2. 0 \in -MaxCount .. NXP_UART_FIFO_DEPTH
  BY UartAssumption
<1>3. Others'
  BY Zenon, <1>2 DEF Receive, MuxReceive, UInv, Others
<1> QED
  BY Zenon, <1>1, <1>3, DeliverInv

\* A BREAK from the backend.
LEMMA EventInv ==
  ASSUME UInv, nxp_uart_event
  PROVE  UInv' /\ Kept(Rx, Rx')
<1> DEFINE d == nxp_uart_get_fifo_depth
           p == nxp_uart_fifo_rx_put(Rx, BE)
           t == IF nxp_uart_loopback_enabled THEN Rx ELSE p
<1>1. Sound(Rx, d, int_enabled) /\ Rx \in RxState(d) /\ read_count \in Nat
  BY Zenon, RxFields DEF UInv, Sound, RxState
<1>2. BE \in Item
  BY Zenon DEF Item
<1>3. Sound(p, d, int_enabled) /\ AfterPut(p, Rx, BE)
  BY Zenon, <1>1, <1>2, PutSound, PutFields
<1> HIDE DEF p
<1>4. p.read_count = read_count + 1 /\ Kept(Rx, p)
  BY SMTT(30), <1>1, <1>3, RxFields DEF AfterPut, Kept
<1>5. Sound(t, d, int_enabled) /\ t.read_count <= MaxCount /\ Kept(Rx, t)
  BY SMTT(30), <1>1, <1>3, <1>4, RxFields, UartAssumption DEF nxp_uart_event, Kept
<1>6. SetRx(t) /\ UNCHANGED <<int_enabled, lcr>>
  BY Zenon DEF nxp_uart_event, p
<1>7. Others'
  BY Zenon DEF nxp_uart_event, UInv, Others
<1>8. d' = d
  BY Zenon, <1>6, SameDepth
<1> HIDE DEF t, d
<1>9. UInv' /\ Rx' = t
  BY Zenon, <1>5, <1>6, <1>7, <1>8, NewRx DEF d
<1> QED
  BY Zenon, <1>5, <1>9

\* A handler that changes only flags, interrupts or enables.
LEMMA FlagsInv ==
  ASSUME UInv, NEW fl \in SUBSET Flag, NEW lv \in SUBSET Interrupt, NEW en,
         RxBits(fl) = RxBits(flags),
         flags' = fl, int_level' = lv, int_enabled' = en, irq' = nxp_uart_update(lv, en),
         UNCHANGED <<read_fifo, read_pos, read_count, lcr>>, Others'
  PROVE  UInv'
<1> DEFINE d == nxp_uart_get_fifo_depth
           t == WithFlags(Rx, fl, lv, en)
<1>1. Sound(Rx, d, int_enabled) /\ RxBits(fl) = RxBits(Rx.flags)
  BY Zenon, RxFields DEF UInv
<1>2. Sound(t, d, en) /\ t.read_count = Rx.read_count
  <2> HIDE DEF d
  <2> QED
    BY <1>1, NewFlags
<1>3. SetRx(t)
  BY Zenon DEF SetRx, WithFlags, Rx
<1>4. d' = d
  BY Zenon, SameDepth
<1> HIDE DEF t, d
<1>5. t.read_count <= MaxCount
  BY Zenon, <1>2, RxFields DEF UInv
<1> QED
  BY Zenon, <1>2, <1>3, <1>4, <1>5, NewRx DEF d

\* The enables, and the acknowledgement.
LEMMA WriteIMSCInv ==
  ASSUME UInv, NEW v \in Mask, WriteIMSC(v)
  PROVE  UInv' /\ Kept(Rx, Rx')
<1>1. flags \in SUBSET Flag /\ int_level \in SUBSET Interrupt
  BY Zenon, RxFields DEF UInv, Sound, RxState
<1>2. Others'
  BY Zenon, MaskAssumption DEF WriteIMSC, UInv, Others
<1>3. UInv'
  BY Zenon, <1>1, <1>2, FlagsInv DEF WriteIMSC
<1>4. Kept(Rx, Rx')
  BY Zenon DEF Rx, Kept, WriteIMSC
<1> QED
  BY Zenon, <1>3, <1>4

\* A write of ICR, which clears interrupts, preserves the invariant.
LEMMA WriteICRInv ==
  ASSUME UInv, NEW v \in Mask, WriteICR(v)
  PROVE  UInv'
<1> DEFINE lv == int_level \ v
<1>1. flags \in SUBSET Flag /\ lv \in SUBSET Interrupt
  BY Zenon, RxFields DEF UInv, Sound, RxState
<1>2. Others'
  BY Zenon DEF WriteICR, UInv, Others
<1>3. int_level' = lv /\ irq' = nxp_uart_update(lv, int_enabled)
  BY Zenon DEF WriteICR
<1> HIDE DEF lv
<1> QED
  BY Zenon, <1>1, <1>2, <1>3, FlagsInv DEF WriteICR

\* The names of the modem inputs are no flags of the receiver.
LEMMA ModemNames ==
  /\ ModemInputs(ModemOutput) \subseteq {"RI", "DCD", "CTS", "DSR"}
  /\ \A v : ModemInputs(v) \subseteq ModemInputs(ModemOutput)
BY Zenon, UartAssumption DEF ModemInputs, ModemInput

\* Loopback of the modem outputs.
LEMMA WriteCRInv ==
  ASSUME UInv, NEW v \in SUBSET ({"LBE"} \cup ModemOutput), WriteCR(v)
  PROVE  UInv' /\ Kept(Rx, Rx')
<1> DEFINE m == ModemInputs(ModemOutput)
           Looped(bits) == (bits \ m) \cup ModemInputs(v)
           fl == Looped(flags)
           lv == Looped(int_level)
<1>1. Others'
  BY Zenon DEF WriteCR, UInv, Others
<1>2. CASE "LBE" \in v
  <2>1. flags \in SUBSET Flag /\ int_level \in SUBSET Interrupt
    BY Zenon, RxFields DEF UInv, Sound, RxState
  <2>2. fl \in SUBSET Flag /\ lv \in SUBSET Interrupt
    BY Zenon, <2>1, ModemNames DEF Flag, Interrupt
  <2>3. RxBits(fl) = RxBits(flags)
    BY Zenon, ModemNames DEF RxBits
  <2>4. flags' = fl /\ int_level' = lv /\ irq' = nxp_uart_update(lv, int_enabled)
    BY Zenon, <1>2 DEF WriteCR
  <2>5. "RX" \in int_level => "RX" \in lv
    BY Zenon, ModemNames
  <2> HIDE DEF fl, lv
  <2>6. UInv'
    BY Zenon, <1>1, <2>2, <2>3, <2>4, FlagsInv DEF WriteCR
  <2>7. Kept(Rx, Rx')
    BY Zenon, <2>4, <2>5 DEF Rx, Kept, WriteCR
  <2> QED
    BY Zenon, <2>6, <2>7
<1>3. CASE "LBE" \notin v
  BY Zenon, <1>1, <1>3, SameRx DEF WriteCR, rxVars
<1> QED
  BY Zenon, <1>2, <1>3

\* An emptied receiver.
Emptied(s) == nxp_uart_reset_tx_fifo(nxp_uart_reset_rx_fifo(s))

\* Resetting the two FIFOs leaves a sound, empty receiver.
LEMMA ResetSound ==
  ASSUME NEW d \in Nat \ {0}, NEW e, NEW s, Sound(s, d, e)
  PROVE  /\ Sound(Emptied(s), d, e)
         /\ Emptied(s).read_pos = 0 /\ Emptied(s).read_count = 0
<1> DEFINE fl == (s.flags \ {"RXFF"}) \cup {"RXFE"}
           r == nxp_uart_reset_rx_fifo(s)
           t == nxp_uart_reset_tx_fifo(r)
<1>1. s \in RxState(d) /\ s.flags \subseteq Flag
  BY Zenon DEF Sound, RxState
<1>2. 0 \in Nat /\ 0 \in 0 .. (d - 1) /\ fl \in SUBSET Flag
  BY <1>1 DEF Flag
<1>3. /\ r.read_pos = 0 /\ r.read_count = 0 /\ r.flags = fl /\ r.irq = s.irq
      /\ r.int_level = s.int_level /\ r.read_fifo = s.read_fifo
  BY Zenon, <1>1 DEF RxState, nxp_uart_reset_rx_fifo
<1>4. r \in RxState(d)
  <2> HIDE DEF fl
  <2>1. r = [s EXCEPT !.read_count = 0, !.read_pos = 0, !.flags = fl]
    BY Zenon DEF nxp_uart_reset_rx_fifo, fl
  <2> QED
    BY Zenon, <1>1, <1>2, <2>1 DEF RxState
<1> HIDE DEF r
<1>5. /\ t.read_pos = 0 /\ t.read_count = 0 /\ t.flags = (fl \ {"TXFF"}) \cup {"TXFE"}
      /\ t.irq = s.irq /\ t.int_level = s.int_level /\ t.read_fifo = s.read_fifo
  BY Zenon, <1>3, <1>4 DEF RxState, nxp_uart_reset_tx_fifo
<1>6. t \in RxState(d)
  <2>1. (r.flags \ {"TXFF"}) \cup {"TXFE"} \in SUBSET Flag
    BY Zenon, <1>2, <1>3 DEF Flag
  <2> QED
    BY Zenon, <1>4, <2>1 DEF RxState, nxp_uart_reset_tx_fifo
<1> HIDE DEF t
<1>7. Sound(t, d, e)
  BY Zenon, <1>5, <1>6 DEF Sound
<1> QED
  BY Zenon, <1>5, <1>7 DEF t, r, Emptied

\* An emptied receiver is sound at any depth.
LEMMA OtherDepth ==
  ASSUME NEW d, NEW c \in Nat \ {0}, NEW e, NEW s, Sound(s, d, e), s.read_pos = 0
  PROVE  Sound(s, c, e)
<1>1. 0 \in 0 .. (c - 1)
  OBVIOUS
<1> QED
  BY Zenon, <1>1 DEF Sound, RxState

\* The FIFO on or off, and a BREAK.  The BREAK is put at the old depth.
LEMMA WriteLCRInv ==
  ASSUME UInv, NEW v \in SUBSET {"FEN", "BRK"}, WriteLCR(v)
  PROVE  UInv' /\ Kept(Rx, Rx')
<1> DEFINE d == nxp_uart_get_fifo_depth
           s == IF ("FEN" \in lcr) # ("FEN" \in v) THEN Emptied(Rx) ELSE Rx
           t == IF "BRK" \in v \ lcr THEN nxp_uart_loopback_tx(s, BE) ELSE s
<1>1. Sound(Rx, d, int_enabled) /\ d \in Nat \ {0} /\ d' \in Nat \ {0}
  BY UartAssumption DEF UInv, nxp_uart_get_fifo_depth
<1>2. /\ t.read_count <= MaxCount /\ SetRx(t)
      /\ lcr' = v /\ UNCHANGED <<int_enabled, cr, rsr, max_size, data>>
  BY Zenon DEF WriteLCR, Emptied
<1>3. Others'
  BY Zenon, <1>2 DEF UInv, Others
<1>4. /\ Sound(s, d, int_enabled) /\ Kept(Rx, s)
      /\ ("FEN" \in lcr) # ("FEN" \in v) => s.read_pos = 0
  <2>1. CASE ("FEN" \in lcr) # ("FEN" \in v)
    <3> HIDE DEF d
    <3>1. s = Emptied(Rx)
      BY Zenon, <2>1
    <3>2. Sound(s, d, int_enabled) /\ s.read_pos = 0 /\ s.read_count = 0
      BY SMTT(30), <1>1, <3>1, ResetSound
    <3> QED
      BY <3>2 DEF Kept
  <2>2. CASE ~(("FEN" \in lcr) # ("FEN" \in v))
    BY Zenon, <1>1, <2>2 DEF Kept
  <2> QED
    BY Zenon, <2>1, <2>2
<1> HIDE DEF s
<1>5. Sound(t, d, int_enabled) /\ Kept(s, t) /\ t.read_pos = s.read_pos
  <2>1. BE \in Item
    BY Zenon DEF Item
  <2>2. CASE "BRK" \in v \ lcr
    BY Zenon, <1>4, <2>1, <2>2, LoopbackSound
  <2>3. CASE "BRK" \notin v \ lcr
    BY Zenon, <1>4, <2>3 DEF Kept
  <2> QED
    BY Zenon, <2>2, <2>3
<1> HIDE DEF t
<1>6. Sound(t, d', int_enabled)
  <2>1. CASE ("FEN" \in lcr) # ("FEN" \in v)
    <3>1. t.read_pos = 0
      BY Zenon, <1>4, <1>5, <2>1
    <3> HIDE DEF d
    <3> QED
      BY Zenon, <1>1, <1>5, <3>1, OtherDepth
  <2>2. CASE ~(("FEN" \in lcr) # ("FEN" \in v))
    <3>1. d' = d
      BY Zenon, <1>2, <2>2 DEF nxp_uart_get_fifo_depth
    <3> QED
      BY Zenon, <1>5, <3>1
  <2> QED
    BY Zenon, <2>1, <2>2
<1>7. UInv' /\ Rx' = t
  BY Zenon, <1>2, <1>3, <1>6, NewRx
<1>8. Kept(Rx, t)
  BY Zenon, <1>4, <1>5 DEF Kept
<1> QED
  BY Zenon, <1>7, <1>8

\* A reset leaves the line as it is, but nothing is pending or enabled.
AfterReset ==
  nxp_uart_reset_tx_fifo(nxp_uart_reset_rx_fifo([Rx EXCEPT !.flags = {}, !.int_level = {}]))

\* The receiver is sound and empty after nxp_uart_reset.
LEMMA AfterResetSound ==
  ASSUME Rx \in RxState(nxp_uart_get_fifo_depth)
  PROVE  Sound(AfterReset, 1, {}) /\ AfterReset.read_count = 0
<1> DEFINE r == [Rx EXCEPT !.flags = {}, !.int_level = {}]
           q == nxp_uart_reset_rx_fifo(r)
           t == nxp_uart_reset_tx_fifo(q)
<1>1. /\ t.read_pos = 0 /\ t.read_count = 0 /\ t.flags = {"RXFE", "TXFE"}
      /\ t.int_level = {}
  BY Zenon DEF Rx, nxp_uart_reset_rx_fifo, nxp_uart_reset_tx_fifo
<1>2. t \in RxState(1)
  <2>1. r \in RxState(nxp_uart_get_fifo_depth) /\ r.flags = {}
    BY Zenon DEF RxState
  <2> HIDE DEF r
  <2>2. q \in RxState(1) /\ q.flags = {"RXFE"}
    <3>1. 0 \in 0 .. (1 - 1) /\ {"RXFE"} \in SUBSET Flag
      BY DEF Flag
    <3>2. (r.flags \ {"RXFF"}) \cup {"RXFE"} = {"RXFE"}
      BY Zenon, <2>1
    <3>3. q = [r EXCEPT !.read_count = 0, !.read_pos = 0, !.flags = {"RXFE"}]
      BY <3>2, Zenon DEF nxp_uart_reset_rx_fifo
    <3> DEFINE d == nxp_uart_get_fifo_depth
    <3>4. 0 \in 0 .. (d - 1)
      BY DepthFacts
    <3> HIDE DEF d, q
    <3>5. q \in RxState(d) /\ q.read_pos = 0 /\ q.flags = {"RXFE"}
      BY Zenon, <2>1, <3>1, <3>3, <3>4 DEF RxState, d
    <3>6. q \in RxState(1)
      BY Zenon, <3>1, <3>5 DEF RxState
    <3> QED
      BY Zenon, <3>5, <3>6
  <2> HIDE DEF q
  <2> QED
    BY Zenon, <2>2 DEF RxState, nxp_uart_reset_tx_fifo, Flag
<1> HIDE DEF t
<1>3. Sound(t, 1, {})
  BY Zenon, <1>1, <1>2 DEF Sound
<1> QED
  BY Zenon, <1>1, <1>3 DEF AfterReset, t

\* nxp_uart_reset preserves the invariant and loses no interrupt.
LEMMA ResetInv ==
  ASSUME UInv, nxp_uart_reset
  PROVE  UInv' /\ Kept(Rx, Rx')
<1> DEFINE t == AfterReset
<1>1. Rx \in RxState(nxp_uart_get_fifo_depth)
  BY Zenon DEF UInv, Sound
<1>2. lcr' = {} /\ int_enabled' = {} /\ SetRx(t)
  BY Zenon DEF nxp_uart_reset, AfterReset
<1>3. Others'
  BY Zenon DEF nxp_uart_reset, UInv, Others
<1>4. nxp_uart_get_fifo_depth' = 1
  BY Zenon, <1>2 DEF nxp_uart_get_fifo_depth
<1>5. Sound(t, nxp_uart_get_fifo_depth', int_enabled') /\ t.read_count = 0
  BY Zenon, <1>1, <1>2, <1>4, AfterResetSound
<1> HIDE DEF t
<1>6. t.read_count <= MaxCount
  BY <1>5, UartAssumption
<1>7. UInv' /\ Rx' = t
  BY Zenon, <1>2, <1>3, <1>5, <1>6, NewRx
<1>8. Kept(Rx, t)
  BY <1>5 DEF Kept
<1> QED
  BY Zenon, <1>7, <1>8

\* Every step preserves the invariant, and only a write of ICR takes the
\* interrupt from data that is there.
LEMMA UStep ==
  ASSUME UInv, [Next]_vars
  PROVE  UInv' /\ (Kept(Rx, Rx') \/ UNCHANGED <<read_fifo, read_pos, read_count>>)
<1>1. ASSUME NEW b \in Byte, nxp_uart_write_txdata(b) PROVE UInv' /\ Kept(Rx, Rx')
  BY Zenon, <1>1, WriteTxInv
<1>2. ASSUME NEW b \in Burst \cup {<<>>}, nxp_uart_read_rxdata(b)
      PROVE  UInv' /\ Kept(Rx, Rx')
  BY Zenon, <1>2, ReadRxInv, BurstItems
<1>3. CASE WriteECR
  BY Zenon, <1>3, WriteECRInv
<1>4. ASSUME NEW v \in SUBSET {"FEN", "BRK"}, WriteLCR(v) PROVE UInv' /\ Kept(Rx, Rx')
  BY Zenon, <1>4, WriteLCRInv
<1>5. ASSUME NEW v \in SUBSET ({"LBE"} \cup ModemOutput), WriteCR(v)
      PROVE  UInv' /\ Kept(Rx, Rx')
  BY Zenon, <1>5, WriteCRInv
<1>6. ASSUME NEW v \in Mask, WriteIMSC(v) \/ WriteICR(v)
      PROVE  UInv' /\ (Kept(Rx, Rx') \/ UNCHANGED <<read_fifo, read_pos, read_count>>)
  <2>1. CASE WriteIMSC(v)
    BY Zenon, <2>1, WriteIMSCInv
  <2>2. CASE WriteICR(v)
    BY Zenon, <2>2, WriteICRInv DEF WriteICR
  <2> QED
    BY Zenon, <1>6, <2>1, <2>2
<1>7. CASE Poll
  BY Zenon, <1>7, PollInv
<1>8. ASSUME NEW b \in Burst, Receive(b) \/ MuxReceive(b) PROVE UInv' /\ Kept(Rx, Rx')
  BY Zenon, <1>8, ReceiveInv, BurstItems
<1>9. CASE nxp_uart_event
  BY Zenon, <1>9, EventInv
<1>10. CASE nxp_uart_reset
  BY Zenon, <1>10, ResetInv
<1>11. CASE UNCHANGED vars
  <2>1. Others' /\ UNCHANGED <<rxVars, int_enabled, lcr>>
    BY Zenon, <1>11 DEF vars, UInv, Others
  <2> QED
    BY Zenon, <2>1, SameRx
<1> QED
  BY Zenon, <1>1, <1>2, <1>3, <1>4, <1>5, <1>6, <1>7, <1>8, <1>9, <1>10, <1>11 DEF Next

\* The invariant holds initially.
LEMMA UInit == Init => UInv
<1> SUFFICES ASSUME Init PROVE UInv
  BY Zenon
<1>1. nxp_uart_get_fifo_depth = 1
  BY Zenon DEF Init, nxp_uart_get_fifo_depth
<1>2. Rx \in RxState(1)
  <2>1. read_fifo \in [0 .. NXP_UART_FIFO_DEPTH - 1 -> Item]
    BY Zenon DEF Init, Item
  <2>2. flags \in SUBSET Flag /\ int_level \in SUBSET Interrupt /\ irq \in BOOLEAN
    BY Zenon DEF Init, Flag
  <2>3. read_pos \in 0 .. (1 - 1) /\ read_count \in Nat
    BY DEF Init
  <2> QED
    BY Zenon, <2>1, <2>2, <2>3 DEF Rx, RxState
<1>3. Sound(Rx, 1, int_enabled)
  BY <1>2, RxFields DEF Init, Sound
<1>4. Others
  BY UartAssumption DEF Init, Others
<1> QED
  BY <1>1, <1>3, <1>4, UartAssumption DEF UInv, Init

\* The invariant always holds.
LEMMA UartInvariant == Spec => []UInv
<1>1. UInv /\ [Next]_vars => UInv'
  BY Zenon, UStep
<1> QED
  BY <1>1, UInit, PTL DEF Spec

\* The flags of nxps32k3x8evb_uart.c tell UART_getc the truth: FR.RXFE is set
\* exactly while the FIFO is empty and never together with RXFF, and the index
\* of the next item stays in the part of read_fifo in use, for every depth of
\* the FIFO, through overruns, loopback, resets and changes of the depth.
THEOREM FlagsTellFifoAlways == Spec => []FlagsTellFifo
BY UartInvariant, InvImplies, PTL

\* A pending and enabled interrupt has its line raised in every state: no
\* register handler leaves nxp_uart_update out where it is needed.
THEOREM NoLostInterruptAlways == Spec => []NoLostInterrupt
BY UartInvariant, InvImplies, PTL

\* Received data has its interrupt pending until a write of ICR or a read that
\* empties the FIFO: no delivery, however long, and no reset or change of the
\* depth leaves data behind without it.
THEOREM RxPendingAlways == Spec => RxPending
<1> DEFINE Step == read_count' > 0 /\ "RX" \notin int_level' =>
                     \/ read_count > 0 /\ "RX" \notin int_level
                     \/ UNCHANGED <<read_fifo, read_pos, read_count>>
<1>1. UInv /\ [Next]_vars => Step
  <2> SUFFICES ASSUME UInv, [Next]_vars PROVE Step
    BY Zenon
  <2>1. Kept(Rx, Rx') \/ UNCHANGED <<read_fifo, read_pos, read_count>>
    BY Zenon, UStep
  <2> QED
    BY Zenon, <2>1 DEF Kept, Rx
<1>2. UInv /\ [Next]_vars => [Step]_vars
  BY Zenon, <1>1
<1> HIDE DEF Step
<1>3. Spec => [][Step]_vars
  BY <1>2, UartInvariant, PTL DEF Spec
<1> QED
  BY Zenon, <1>3 DEF RxPending, Step
-----------------------------------------------------------------------------
(***************************************************************************)
(* The ring buffer implements the queue.                                   *)
(***************************************************************************)
\* The items of a receiver, the oldest one first.
QueueOf(s) == [k \in 1 .. s.read_count |->
                 s.read_fifo[(s.read_pos + k - 1) % nxp_uart_get_fifo_depth]]

\* The queue after each item, for the recursive function of UartQueue.
LEMMA QueuePutsDef ==
  ASSUME NEW q, NEW buf, Len(buf) \in Nat
  PROVE  /\ Q!Puts(q, buf)[0] = q
         /\ \A i \in 1 .. Len(buf) :
              Q!Puts(q, buf)[i] = Q!Put(Q!Puts(q, buf)[i - 1], buf[i])
<1> DEFINE n == Len(buf)
           Step(t, i) == Q!Put(t, buf[i])
           Runs(g, m) == g = [i \in 0 .. m |-> IF i = 0 THEN q ELSE Step(g[i - 1], i)]
           T == {m \in 0 .. n : \E g : Runs(g, m)}
<1> HIDE DEF Step
<1>1. 0 \in T
  <2>1. Runs([i \in 0 .. 0 |-> q], 0)
    OBVIOUS
  <2> HIDE DEF Runs
  <2>2. 0 \in 0 .. n
    OBVIOUS
  <2> QED
    BY Zenon, <2>1, <2>2
<1>2. ASSUME NEW m \in 0 .. (n - 1), m \in T PROVE m + 1 \in T
  <2>1. PICK g : Runs(g, m)
    BY Zenon, <1>2
  <2> DEFINE h == [i \in 0 .. (m + 1) |-> IF i = 0 THEN q ELSE Step(g[i - 1], i)]
  <2>2. \A i \in 0 .. m : h[i] = g[i]
    BY <2>1
  <2>3. \A i \in 0 .. (m + 1) : i # 0 => h[i - 1] = g[i - 1]
    BY <2>2
  <2>4. h = [i \in 0 .. (m + 1) |-> IF i = 0 THEN q ELSE Step(h[i - 1], i)]
    <3> HIDE DEF h
    <3> QED
      BY Zenon, <2>3 DEF h
  <2>5. m + 1 \in 0 .. n /\ Runs(h, m + 1)
    BY <2>4
  <2> HIDE DEF Runs, h
  <2> QED
    BY Zenon, <2>5
<1>3. n \in T
  <2>1. \A m \in 0 .. (n - 1) : m \in T => m + 1 \in T
    BY Zenon, <1>2
  <2>2. n \in Nat /\ n \in 0 .. n
    OBVIOUS
  <2> HIDE DEF T, n
  <2> QED
    BY Zenon, <1>1, <2>1, <2>2, UpTo
<1>4. \E g : Runs(g, n)
  BY Zenon, <1>3
<1>5. Runs(CHOOSE g : Runs(g, n), n)
  <2> HIDE DEF Runs
  <2> QED
    BY <1>4, Zenon
<1>6. Q!Puts(q, buf) = CHOOSE g : Runs(g, n)
  BY Zenon DEF Q!Puts, Step
<1>7. Runs(Q!Puts(q, buf), n)
  BY Zenon, <1>5, <1>6
<1> QED
  BY <1>7 DEF Step

\* The length of the queue.
LEMMA QueueLen ==
  ASSUME NEW s, s.read_count \in Nat
  PROVE  Len(QueueOf(s)) = s.read_count /\ DOMAIN QueueOf(s) = 1 .. s.read_count
BY DEF QueueOf

\* The slot of a new item is that of the items a multiple of the depth ahead.
LEMMA QueueOfPut ==
  ASSUME NEW s \in RxState(nxp_uart_get_fifo_depth), NEW x \in Item
  PROVE  QueueOf(nxp_uart_fifo_rx_put(s, x)) = Q!Put(QueueOf(s), x)
<1> DEFINE d == nxp_uart_get_fifo_depth
           t == nxp_uart_fifo_rx_put(s, x)
           c == s.read_count
           slot == (s.read_pos + c) % d
           At(k) == (s.read_pos + k - 1) % d
<1>1. d \in Nat \ {0} /\ s.read_pos \in Nat /\ c \in Nat
  BY DepthFacts DEF RxState
<1>2. AfterPut(t, s, x)
  BY Zenon, PutFields
<1> HIDE DEF t
<1>3. t.read_count = c + 1 /\ t.read_pos = s.read_pos
      /\ t.read_fifo = [s.read_fifo EXCEPT ![slot] = x]
  BY Zenon, <1>2 DEF AfterPut
<1>4. DOMAIN s.read_fifo = 0 .. NXP_UART_FIFO_DEPTH - 1
  BY Zenon DEF RxState
<1>5. QueueOf(t) = [k \in 1 .. (c + 1) |-> t.read_fifo[At(k)]]
  BY Zenon, <1>3 DEF QueueOf
<1>6. QueueOf(s) = [k \in 1 .. c |-> s.read_fifo[At(k)]] /\ Len(QueueOf(s)) = c
  BY Zenon, <1>1, QueueLen DEF QueueOf
<1>7. Q!Put(QueueOf(s), x) =
        [k \in 1 .. (c + 1) |-> IF (c + 1 - k) % d = 0 THEN x ELSE QueueOf(s)[k]]
  BY Zenon, <1>6 DEF Q!Put
<1>8. ASSUME NEW k \in 1 .. (c + 1)
      PROVE  t.read_fifo[At(k)] =
               IF (c + 1 - k) % d = 0 THEN x ELSE QueueOf(s)[k]
  <2> DEFINE a == s.read_pos + c
             b == s.read_pos + k - 1
  <2>1. a \in Int /\ b \in Int /\ a - b = c + 1 - k
    BY <1>1
  <2> HIDE DEF a, b
  <2>2. a % d = b % d <=> (a - b) % d = 0
    BY Zenon, <1>1, <2>1, SameSlot
  <2>3. b % d \in 0 .. (d - 1)
    BY Zenon, <1>1, <2>1, DivMod
  <2>4. b % d \in DOMAIN s.read_fifo
    BY <1>1, <1>4, <2>3, DepthFacts
  <2>5. t.read_fifo[b % d] = IF b % d = a % d THEN x ELSE s.read_fifo[b % d]
    BY Zenon, <1>3, <2>4 DEF a
  <2>6. CASE (c + 1 - k) % d = 0
    BY Zenon, <2>1, <2>2, <2>5, <2>6 DEF b
  <2>7. CASE (c + 1 - k) % d # 0
    <3>1. c + 1 - k # 0
      BY <1>1, <2>7
    <3>2. k \in 1 .. c
      BY <1>1, <3>1
    <3>3. QueueOf(s)[k] = s.read_fifo[b % d]
      BY Zenon, <1>6, <3>2 DEF b
    <3> QED
      BY Zenon, <2>1, <2>2, <2>5, <2>7, <3>3 DEF b
  <2> QED
    BY Zenon, <2>6, <2>7
<1> HIDE DEF At
<1> QED
  BY Zenon, <1>5, <1>7, <1>8 DEF t

\* The loop of nxp_uart_receive keeps step with the queue.
LEMMA QueueOfPuts ==
  ASSUME NEW s, Sound(s, nxp_uart_get_fifo_depth, int_enabled), NEW buf \in Seq(Item)
  PROVE  QueueOf(Puts(s, buf)[Len(buf)]) = Q!PutAll(QueueOf(s), buf)
<1> DEFINE n == Len(buf)
           q == QueueOf(s)
           T == {k \in 0 .. n : QueueOf(Puts(s, buf)[k]) = Q!Puts(q, buf)[k]}
<1> HIDE DEF q
<1>1. n \in Nat
  OBVIOUS
<1>2. 0 \in T
  BY <1>1, PutsDef, QueuePutsDef DEF q
<1>3. ASSUME NEW k \in 0 .. (n - 1), k \in T PROVE k + 1 \in T
  <2> DEFINE t == Puts(s, buf)[k]
             r == Q!Puts(q, buf)[k]
  <2>1. k + 1 \in 1 .. n /\ (k + 1) - 1 = k /\ buf[k + 1] \in Item /\ k \in 0 .. n
    BY <1>1
  <2>2. Puts(s, buf)[k + 1] = nxp_uart_fifo_rx_put(t, buf[k + 1])
    BY <1>1, <2>1, PutsDef
  <2>3. Q!Puts(q, buf)[k + 1] = Q!Put(r, buf[k + 1])
    BY <1>1, <2>1, QueuePutsDef
  <2>4. t \in RxState(nxp_uart_get_fifo_depth)
    BY Zenon, <2>1, PutsSound DEF Sound
  <2>5. QueueOf(t) = r
    BY Zenon, <1>3
  <2> HIDE DEF t, r
  <2>6. QueueOf(nxp_uart_fifo_rx_put(t, buf[k + 1])) = Q!Put(r, buf[k + 1])
    BY Zenon, <2>1, <2>4, <2>5, QueueOfPut
  <2> QED
    BY <2>1, <2>2, <2>3, <2>6
<1>4. \A k \in 0 .. n : k \in T
  <2>1. \A k \in 0 .. (n - 1) : k \in T => k + 1 \in T
    BY Zenon, <1>3
  <2> HIDE DEF T, n
  <2> QED
    BY Zenon, <1>1, <1>2, <2>1, UpTo
<1>5. QueueOf(Puts(s, buf)[n]) = Q!Puts(q, buf)[n]
  BY <1>1, <1>4
<1> QED
  BY Zenon, <1>5 DEF Q!PutAll, q

\* Putting a sequence of one item is putting it, and putting none changes nothing.
LEMMA PutAllOne ==
  ASSUME NEW q, NEW x
  PROVE  Q!PutAll(q, <<x>>) = Q!Put(q, x) /\ Q!PutAll(q, <<>>) = q
<1>1. Len(<<x>>) = 1 /\ <<x>>[1] = x /\ 1 \in 1 .. 1 /\ 1 - 1 = 0 /\ 1 \in Nat
  OBVIOUS
<1>2. Q!Puts(q, <<x>>)[1] = Q!Put(q, x)
  <2> DEFINE buf == <<x>>
  <2>1. Len(buf) = 1 /\ buf[1] = x
    BY Zenon
  <2> HIDE DEF buf
  <2>2. /\ Q!Puts(q, buf)[0] = q
        /\ \A i \in 1 .. 1 : Q!Puts(q, buf)[i] = Q!Put(Q!Puts(q, buf)[i - 1], buf[i])
    BY <2>1, QueuePutsDef
  <2>3. Q!Puts(q, buf)[1] = Q!Put(Q!Puts(q, buf)[1 - 1], buf[1])
    BY <2>2
  <2>4. Q!Puts(q, buf)[1 - 1] = q
    BY <2>2
  <2> QED
    BY Zenon, <2>1, <2>3, <2>4 DEF buf
<1>3. Q!Puts(q, <<>>)[0] = q
  <2>1. Len(<<>>) = 0
    BY Zenon
  <2> QED
    BY Zenon, <2>1, QueuePutsDef
<1> QED
  BY Zenon, <1>1, <1>2, <1>3 DEF Q!PutAll

\* A delivery, with what loopback does to it.
LEMMA QueueOfReceive ==
  ASSUME NEW s, Sound(s, nxp_uart_get_fifo_depth, int_enabled), NEW buf \in Seq(Item)
  PROVE  QueueOf(nxp_uart_receive(s, buf)) =
           Q!PutAll(QueueOf(s), IF nxp_uart_loopback_enabled THEN <<>> ELSE buf)
<1>1. CASE nxp_uart_loopback_enabled
  BY Zenon, <1>1, PutAllOne DEF nxp_uart_receive
<1>2. CASE ~nxp_uart_loopback_enabled
  BY Zenon, <1>2, QueueOfPuts DEF nxp_uart_receive
<1> QED
  BY Zenon, <1>1, <1>2

\* A read takes the oldest item.
LEMMA QueueOfRead ==
  ASSUME NEW s, Sound(s, nxp_uart_get_fifo_depth, int_enabled)
  PROVE  /\ s.read_count = 0 => QueueOf(s) = <<>> /\ QueueOf(DrRead(s)) = <<>>
         /\ s.read_count > 0 => /\ QueueOf(s) # <<>>
                                /\ Head(QueueOf(s)) = s.read_fifo[s.read_pos]
                                /\ QueueOf(DrRead(s)) = Tail(QueueOf(s))
<1> DEFINE d == nxp_uart_get_fifo_depth
           c == s.read_count
           p == s.read_pos
           t == DrRead(s)
           q == QueueOf(s)
<1>1. d \in Nat \ {0} /\ c \in Nat /\ p \in 0 .. (d - 1)
  BY Zenon, DepthFacts DEF Sound, RxState
<1>2. /\ t.read_fifo = s.read_fifo
      /\ t.read_count = IF c > 0 THEN c - 1 ELSE 0
      /\ t.read_pos = IF c > 0 THEN (p + 1) % d ELSE p
  BY Zenon, DrReadSound
<1> HIDE DEF t
<1>3. q = [k \in 1 .. c |-> s.read_fifo[(p + k - 1) % d]]
  BY Zenon DEF QueueOf
<1>4. Len(q) = c /\ Len(QueueOf(t)) = t.read_count
  BY <1>1, <1>2, QueueLen
<1>5. CASE c = 0
  <2>1. 1 .. c = {} /\ 1 .. t.read_count = {}
    BY <1>2, <1>5
  <2>2. q = <<>> /\ QueueOf(t) = <<>>
    BY SMTT(30), <1>2, <1>3, <1>5, <2>1 DEF QueueOf
  <2> QED
    BY <1>5, <2>2 DEF t
<1>6. CASE c > 0
  <2>1. q # <<>>
    BY <1>1, <1>4, <1>6
  <2>2. Head(q) = s.read_fifo[p]
    <3>1. p % d = p
      BY Zenon, <1>1, ModSmall
    <3>2. p + 1 - 1 = p /\ 1 \in 1 .. c
      BY <1>1, <1>6
    <3>3. q[1] = s.read_fifo[p]
      BY SMTT(30), <1>3, <3>1, <3>2
    <3>4. Head(q) = q[1]
      OBVIOUS
    <3> QED
      BY Zenon, <3>3, <3>4
  <2>3. Tail(q) = [k \in 1 .. (c - 1) |-> q[k + 1]]
    <3> DEFINE S == {s.read_fifo[(p + k - 1) % d] : k \in 1 .. c}
               u == Tail(q)
    <3>0. q \in [1 .. c -> S]
      BY Zenon, <1>3
    <3> HIDE DEF q, S
    <3>1. q \in Seq(S)
      BY <1>1, <3>0
    <3>2. u \in Seq(S) /\ Len(u) = c - 1 /\ \A k \in 1 .. Len(u) : u[k] = q[k + 1]
      BY Zenon, <1>1, <1>4, <2>1, <3>1, HeadTailProperties
    <3> HIDE DEF u
    <3>3. u = [k \in 1 .. Len(u) |-> u[k]]
      BY <3>2
    <3> QED
      BY Zenon, <3>2, <3>3 DEF u
  <2>4. ASSUME NEW k \in 1 .. (c - 1)
        PROVE  q[k + 1] = t.read_fifo[(t.read_pos + k - 1) % d]
    <3> DEFINE a == p + 1
               b == k - 1
    <3>1. a \in Int /\ b \in Int /\ k + 1 \in 1 .. c /\ a + b = p + (k + 1) - 1
      BY <1>1
    <3>2. q[k + 1] = s.read_fifo[(a + b) % d]
      BY Zenon, <1>3, <3>1
    <3> HIDE DEF a, b
    <3>3. ((a % d) + b) % d = (a + b) % d
      BY Zenon, <1>1, <3>1, ModAdd
    <3>4. a % d \in Int /\ (a % d) + b = (a % d) + k - 1
      BY <1>1, <3>1, DivMod DEF b
    <3> QED
      BY Zenon, <1>2, <1>6, <3>2, <3>3, <3>4 DEF a
  <2>5. QueueOf(t) = [k \in 1 .. (c - 1) |-> t.read_fifo[(t.read_pos + k - 1) % d]]
    BY Zenon, <1>2, <1>6 DEF QueueOf
  <2>6. QueueOf(t) = Tail(q)
    <3> HIDE DEF q, d
    <3> QED
      BY Zenon, <2>3, <2>4, <2>5
  <2> QED
    BY SMTT(30), <1>6, <2>1, <2>2, <2>6 DEF t
<1> QED
  BY Zenon, <1>1, <1>5, <1>6

\* The queue that Q sees.
Queue == [k \in 1 .. read_count |-> read_fifo[(read_pos + k - 1) % nxp_uart_get_fifo_depth]]

\* The queue that Q sees is the one the receiver's registers stand for.
LEMMA QueueNow == Queue = QueueOf(Rx)
BY Zenon, RxFields DEF Queue, QueueOf

\* The same after a step that sets the receiver and keeps the depth.
LEMMA QueueNext ==
  ASSUME NEW t, SetRx(t), lcr' = lcr
  PROVE  Queue' = QueueOf(t)
BY Zenon, SameDepth DEF SetRx, Queue, QueueOf

\* A step that leaves the receiver, LCR and the data read alone is a stutter of Q.
LEMMA Stutters ==
  ASSUME UNCHANGED <<read_fifo, read_pos, read_count, lcr, data>>
  PROVE  UNCHANGED Q!vars
BY Zenon, SameDepth DEF Q!vars

\* A single byte is a burst.
LEMMA OneItem == \A b \in Byte : <<b>> \in Burst
<1> SUFFICES ASSUME NEW b \in Byte PROVE <<b>> \in Burst
  BY Zenon
<1>1. 1 \in 1 .. NXP_UART_FIFO_DEPTH
  BY UartAssumption
<1>2. <<b>> \in [1 .. 1 -> Byte]
  OBVIOUS
<1> QED
  BY Zenon, <1>1, <1>2 DEF Burst

\* Items that arrive.
LEMMA ReceiveQ ==
  ASSUME NEW buf \in Burst \cup {<<>>, <<BE>>}, Queue' = Q!PutAll(Queue, buf),
         nxp_uart_get_fifo_depth' = nxp_uart_get_fifo_depth, data' = data
  PROVE  Q!Next
<1>1. Q!Receive(buf)
  BY Zenon DEF Q!Receive, Queue
<1> QED
  BY Zenon, <1>1 DEF Q!Next

\* Taking the head, or reading an empty queue, then putting, is a step of Q.
LEMMA GetQ ==
  ASSUME NEW buf \in Burst \cup {<<>>, <<BE>>}, lcr' = lcr,
         \/ Queue # <<>> /\ data' = Head(Queue) /\ Queue' = Q!PutAll(Tail(Queue), buf)
         \/ Queue = <<>> /\ data' \in Item /\ Queue' = Q!PutAll(<<>>, buf)
  PROVE  Q!Next
<1>1. Q!Get(buf) \/ Q!GetNothing(buf)
  BY Zenon, SameDepth DEF Q!Get, Q!GetNothing, Queue
<1> QED
  BY Zenon, <1>1 DEF Q!Next

\* nxp_uart_loopback_tx puts its item in loopback mode, and nothing otherwise.
LEMMA LoopbackQ ==
  ASSUME NEW s, Sound(s, nxp_uart_get_fifo_depth, int_enabled), NEW x \in Item
  PROVE  QueueOf(nxp_uart_loopback_tx(s, x)) =
           Q!PutAll(QueueOf(s), IF nxp_uart_loopback_enabled THEN <<x>> ELSE <<>>)
<1>1. s \in RxState(nxp_uart_get_fifo_depth)
  BY Zenon DEF Sound
<1> QED
  BY <1>1, PutAllOne, QueueOfPut DEF nxp_uart_loopback_tx

\* A write of DR is a step of Q.
LEMMA WriteTxQ ==
  ASSUME UInv, NEW b \in Byte, nxp_uart_write_txdata(b)
  PROVE  Q!Next
<1> DEFINE s == nxp_uart_loopback_tx(Rx, b)
           lv == s.int_level \cup {"TX"}
           t == [s EXCEPT !.int_level = lv, !.irq = nxp_uart_update(lv, int_enabled)]
           buf == IF nxp_uart_loopback_enabled THEN <<b>> ELSE <<>>
<1>1. b \in Item /\ Sound(Rx, nxp_uart_get_fifo_depth, int_enabled)
  BY Zenon DEF Item, UInv
<1>2. s \in RxState(nxp_uart_get_fifo_depth)
  BY Zenon, <1>1, LoopbackSound DEF Sound
<1>3. QueueOf(s) = Q!PutAll(Queue, buf)
  BY Zenon, <1>1, LoopbackQ, QueueNow
<1>4. SetRx(t) /\ UNCHANGED <<lcr, data>>
  BY Zenon DEF nxp_uart_write_txdata
<1>5. QueueOf(t) = QueueOf(s)
  <2> HIDE DEF s, lv
  <2>1. t.read_fifo = s.read_fifo /\ t.read_pos = s.read_pos /\ t.read_count = s.read_count
    BY Zenon, <1>2 DEF RxState
  <2> HIDE DEF t
  <2> QED
    BY Zenon, <2>1 DEF QueueOf
<1>6. buf \in Burst \cup {<<>>, <<BE>>}
  BY Zenon, OneItem
<1> HIDE DEF s, t, buf
<1> QED
  BY Zenon, <1>3, <1>4, <1>5, <1>6, QueueNext, ReceiveQ, SameDepth

\* A BREAK from the back end is a step of Q.
LEMMA EventQ ==
  ASSUME UInv, nxp_uart_event
  PROVE  Q!Next
<1> DEFINE t == IF nxp_uart_loopback_enabled THEN Rx ELSE nxp_uart_fifo_rx_put(Rx, BE)
           buf == IF nxp_uart_loopback_enabled THEN <<>> ELSE <<BE>>
<1>1. BE \in Item /\ Rx \in RxState(nxp_uart_get_fifo_depth)
  BY Zenon DEF Item, UInv, Sound
<1>2. QueueOf(t) = Q!PutAll(Queue, buf)
  BY <1>1, PutAllOne, QueueOfPut, QueueNow
<1>3. SetRx(t) /\ UNCHANGED <<lcr, data>>
  BY Zenon DEF nxp_uart_event
<1>4. buf \in Burst \cup {<<>>, <<BE>>}
  BY Zenon
<1> HIDE DEF t, buf
<1> QED
  BY Zenon, <1>2, <1>3, <1>4, QueueNext, ReceiveQ, SameDepth

\* A delivery of characters is a step of Q.
LEMMA DeliverQ ==
  ASSUME UInv, NEW b \in Burst, Receive(b) \/ MuxReceive(b)
  PROVE  Q!Next
<1> DEFINE t == nxp_uart_receive(Rx, b)
           buf == IF nxp_uart_loopback_enabled THEN <<>> ELSE b
<1>1. b \in Seq(Item) /\ Sound(Rx, nxp_uart_get_fifo_depth, int_enabled)
  BY Zenon, BurstItems DEF UInv
<1>2. QueueOf(t) = Q!PutAll(Queue, buf)
  BY Zenon, <1>1, QueueOfReceive, QueueNow
<1>3. SetRx(t) /\ UNCHANGED <<lcr, data>>
  BY Zenon DEF Receive, MuxReceive
<1>4. buf \in Burst \cup {<<>>, <<BE>>}
  BY Zenon
<1> HIDE DEF t, buf
<1> QED
  BY Zenon, <1>2, <1>3, <1>4, QueueNext, ReceiveQ, SameDepth

\* A read of DR, with the delivery it may cause, is a step of Q.
LEMMA ReadRxQ ==
  ASSUME UInv, NEW b \in Burst \cup {<<>>}, nxp_uart_read_rxdata(b)
  PROVE  Q!Next
<1> DEFINE s == DrRead(Rx)
           t == nxp_uart_receive(s, b)
           buf == IF nxp_uart_loopback_enabled THEN <<>> ELSE b
<1>1. b \in Seq(Item) /\ Sound(Rx, nxp_uart_get_fifo_depth, int_enabled)
  BY Zenon, BurstItems DEF UInv
<1>2. Sound(s, nxp_uart_get_fifo_depth, int_enabled)
  BY Zenon, <1>1, DrReadSound
<1>3. QueueOf(t) = Q!PutAll(QueueOf(s), buf)
  BY Zenon, <1>1, <1>2, QueueOfReceive
<1>4. SetRx(t) /\ lcr' = lcr /\ data' = read_fifo[read_pos]
  BY Zenon DEF nxp_uart_read_rxdata
<1>5. buf \in Burst \cup {<<>>, <<BE>>}
  BY Zenon
<1>6. read_count \in Nat /\ read_fifo[read_pos] \in Item
  BY <1>1, RxFields, DepthFacts DEF Sound, RxState
<1>7. /\ read_count = 0 => Queue = <<>> /\ QueueOf(s) = <<>>
      /\ read_count > 0 => /\ Queue # <<>> /\ Head(Queue) = read_fifo[read_pos]
                           /\ QueueOf(s) = Tail(Queue)
  BY Zenon, <1>1, QueueOfRead, QueueNow, RxFields
<1> HIDE DEF t, buf, s
<1>8. Queue' = Q!PutAll(QueueOf(s), buf)
  BY Zenon, <1>3, <1>4, QueueNext
<1>9. CASE read_count = 0
  <2>1. Queue = <<>> /\ data' \in Item /\ Queue' = Q!PutAll(<<>>, buf)
    BY Zenon, <1>4, <1>6, <1>7, <1>8, <1>9
  <2> QED
    BY Zenon, <1>4, <1>5, <2>1, GetQ
<1>10. CASE read_count > 0
  <2>1. Queue # <<>> /\ data' = Head(Queue) /\ Queue' = Q!PutAll(Tail(Queue), buf)
    BY Zenon, <1>4, <1>7, <1>8, <1>10
  <2> QED
    BY Zenon, <1>4, <1>5, <2>1, GetQ
<1> QED
  BY <1>6, <1>9, <1>10

\* A write of LCR, which may empty the queue and loop back a BREAK, is a step of Q.
LEMMA WriteLCRQ ==
  ASSUME UInv, NEW v \in SUBSET {"FEN", "BRK"}, WriteLCR(v)
  PROVE  Q!Next
<1> DEFINE d == nxp_uart_get_fifo_depth
           s == IF ("FEN" \in lcr) # ("FEN" \in v) THEN Emptied(Rx) ELSE Rx
           t == IF "BRK" \in v \ lcr THEN nxp_uart_loopback_tx(s, BE) ELSE s
           buf == IF "BRK" \in v \ lcr
                    THEN IF nxp_uart_loopback_enabled THEN <<BE>> ELSE <<>>
                    ELSE <<>>
<1>1. Sound(Rx, d, int_enabled) /\ d \in Nat \ {0} /\ BE \in Item
  BY UartAssumption DEF UInv, nxp_uart_get_fifo_depth, Item
<1>2. SetRx(t) /\ lcr' = v /\ data' = data
  BY Zenon DEF WriteLCR, Emptied
<1>3. ASSUME Sound(s, d, int_enabled) PROVE QueueOf(t) = Q!PutAll(QueueOf(s), buf)
  <2> HIDE DEF s
  <2> QED
    BY Zenon, <1>1, <1>3, LoopbackQ, PutAllOne
<1>4. buf \in {<<>>, <<BE>>}
  BY Zenon
<1>5. CASE ("FEN" \in lcr) # ("FEN" \in v)
  <2>1. Sound(s, d, int_enabled) /\ s.read_pos = 0 /\ s.read_count = 0
    <3> HIDE DEF d
    <3>1. s = Emptied(Rx)
      BY Zenon, <1>5
    <3> QED
      BY Zenon, <1>1, <3>1, ResetSound
  <2> HIDE DEF s
  <2>2. t.read_pos = 0 /\ t.read_count \in {0, 1}
        /\ (t.read_count = 0 <=> buf = <<>>)
        /\ (t.read_count = 1 => t.read_fifo[0] = BE)
    <3>1. CASE buf = <<>>
      BY <2>1, <3>1 DEF nxp_uart_loopback_tx
    <3>2. CASE buf = <<BE>>
      <4> DEFINE u == nxp_uart_fifo_rx_put(s, BE)
      <4>1. t = u
        BY Zenon, <3>2 DEF nxp_uart_loopback_tx
      <4>2. AfterPut(u, s, BE) /\ s \in RxState(d)
        BY Zenon, <1>1, <2>1, PutFields DEF Sound
      <4>3. 0 % d = 0
        BY <1>1
      <4> HIDE DEF u
      <4>4. u.read_pos = 0 /\ u.read_count = 1 /\ u.read_fifo = [s.read_fifo EXCEPT ![0] = BE]
        BY <2>1, <4>2, <4>3 DEF AfterPut
      <4>5. 0 \in DOMAIN s.read_fifo
        BY <4>2, UartAssumption DEF RxState
      <4> QED
        BY SMTT(30), <3>2, <4>1, <4>4, <4>5
    <3> QED
      BY Zenon, <1>4, <3>1, <3>2
  <2> HIDE DEF t, buf
  <2>3. Queue' = [k \in 1 .. t.read_count |-> t.read_fifo[(0 + k - 1) % d']]
    BY Zenon, <1>2, <2>2 DEF Queue, SetRx
  <2>4. d' \in {1, NXP_UART_FIFO_DEPTH} \ {d} /\ d' \in Nat \ {0}
    BY <1>2, <1>5, UartAssumption DEF nxp_uart_get_fifo_depth
  <2>5. Queue' \in {<<>>, <<BE>>}
    <3>1. CASE t.read_count = 0
      BY <2>3, <3>1
    <3>2. CASE t.read_count = 1
      <4> DEFINE e == d'
      <4>1. e \in Nat \ {0}
        BY Zenon, <2>4
      <4> HIDE DEF e
      <4>2. (0 + 1 - 1) % e = 0
        BY <4>1
      <4>3. Queue' = [k \in 1 .. 1 |-> BE]
        BY SMTT(30), <2>2, <2>3, <3>2, <4>2 DEF e
      <4> QED
        BY <4>3
    <3> QED
      BY Zenon, <2>2, <3>1, <3>2
  <2>6. Q!Resize
    BY Zenon, <1>2, <2>4, <2>5 DEF Q!Resize, Queue
  <2> QED
    BY Zenon, <2>6 DEF Q!Next
<1>6. CASE ~(("FEN" \in lcr) # ("FEN" \in v))
  <2>1. s = Rx
    BY Zenon, <1>6
  <2>2. QueueOf(t) = Q!PutAll(Queue, buf)
    BY Zenon, <1>1, <1>3, <2>1, QueueNow
  <2> HIDE DEF s, t, buf
  <2>3. d' = d
    BY Zenon, <1>2, <1>6 DEF nxp_uart_get_fifo_depth
  <2>4. Queue' = QueueOf(t)
    BY Zenon, <1>2, <2>3 DEF SetRx, Queue, QueueOf
  <2>5. buf \in Burst \cup {<<>>, <<BE>>}
    BY Zenon, <1>4
  <2> QED
    BY Zenon, <1>2, <2>2, <2>3, <2>4, <2>5, ReceiveQ
<1> QED
  BY Zenon, <1>5, <1>6

\* A reset is a step of Q.
LEMMA ResetQ ==
  ASSUME nxp_uart_reset
  PROVE  Q!Next
<1>1. read_count' = 0 /\ lcr' = {} /\ data' = NoItem
  BY Zenon DEF nxp_uart_reset, SetRx, Rx, nxp_uart_reset_rx_fifo, nxp_uart_reset_tx_fifo
<1>2. Queue' = <<>>
  BY <1>1 DEF Queue
<1>3. nxp_uart_get_fifo_depth' = 1
  BY Zenon, <1>1 DEF nxp_uart_get_fifo_depth
<1>4. Q!Reset
  BY Zenon, <1>1, <1>2, <1>3 DEF Q!Reset, Queue
<1> QED
  BY Zenon, <1>4 DEF Q!Next

\* The ring buffer of nxps32k3x8evb_uart.c with its two indices implements a
\* queue, for every depth of the FIFO and every length of a delivery: the guest
\* reads what was received in the order it was received, and what disappears
\* does so in a reset, in a change of the depth, or under an item that is put
\* beyond the depth.
THEOREM UartImplementsQueue == Spec => ImplementsQueue
<1>1. Init => Q!Init
  <2> SUFFICES ASSUME Init PROVE Q!Init
    BY Zenon
  <2>1. nxp_uart_get_fifo_depth = 1 /\ data = NoItem
    BY Zenon DEF Init, nxp_uart_get_fifo_depth
  <2>2. Queue = <<>>
    BY DEF Init, Queue
  <2> QED
    BY Zenon, <2>1, <2>2 DEF Q!Init, Queue
<1>2. UInv /\ [Next]_vars => [Q!Next]_(Q!vars)
  <2> SUFFICES ASSUME UInv, [Next]_vars PROVE [Q!Next]_(Q!vars)
    BY Zenon
  <2>1. ASSUME NEW b \in Byte, nxp_uart_write_txdata(b) PROVE Q!Next
    BY Zenon, <2>1, WriteTxQ
  <2>2. ASSUME NEW b \in Burst \cup {<<>>}, nxp_uart_read_rxdata(b) PROVE Q!Next
    BY Zenon, <2>2, ReadRxQ
  <2>3. CASE WriteECR \/ Poll
    BY Zenon, <2>3, Stutters DEF WriteECR, Poll, rxVars
  <2>4. ASSUME NEW v \in SUBSET {"FEN", "BRK"}, WriteLCR(v) PROVE Q!Next
    BY Zenon, <2>4, WriteLCRQ
  <2>5. ASSUME NEW v \in SUBSET ({"LBE"} \cup ModemOutput), WriteCR(v)
        PROVE  UNCHANGED Q!vars
    BY Zenon, <2>5, Stutters DEF WriteCR
  <2>6. ASSUME NEW v \in Mask, WriteIMSC(v) \/ WriteICR(v) PROVE UNCHANGED Q!vars
    BY Zenon, <2>6, Stutters DEF WriteIMSC, WriteICR
  <2>7. ASSUME NEW b \in Burst, Receive(b) \/ MuxReceive(b) PROVE Q!Next
    BY Zenon, <2>7, DeliverQ
  <2>8. CASE nxp_uart_event
    BY Zenon, <2>8, EventQ
  <2>9. CASE nxp_uart_reset
    BY Zenon, <2>9, ResetQ
  <2>10. CASE UNCHANGED vars
    BY Zenon, <2>10, Stutters DEF vars, rxVars
  <2> QED
    BY Zenon, <2>1, <2>2, <2>3, <2>4, <2>5, <2>6, <2>7, <2>8, <2>9, <2>10 DEF Next
<1> QED
  BY <1>1, <1>2, UartInvariant, PTL DEF Spec, ImplementsQueue, Q!Spec
=============================================================================
