--------------------------- MODULE CallRcuProofs ----------------------------
(***************************************************************************)
(* Proofs about read-copy-update and deferred reclamation, for any         *)
(* readers, writers, objects and drains, any number of grace periods, both *)
(* sizes of the counter and every size of the unsigned int that a reader   *)
(* keeps it in.                                                            *)
(*                                                                         *)
(* The invariant of Rcu says of a reader that uses an object of the batch  *)
(* that the waiting thread has it still in its registry with a counter     *)
(* that is not the current one.  For a narrow counter the first wait       *)
(* establishes only the half of it: the readers whose counter is the       *)
(* current one by accident are those that the second wait, after the       *)
(* toggle, stays for.                                                      *)
(*                                                                         *)
(* The invariant of CallRcu gives the nodes the places they took when they *)
(* exchanged the tail.  Places only grow: the queue is q[a], ..., q[b],    *)
(* with the dummy at d and links missing where somebody has still to store *)
(* one.  The round of callbacks ends at a place k that no later node can   *)
(* get in front of, and the number n never reaches beyond it, because      *)
(* every count follows the exchange of a node that is or was in the queue. *)
(***************************************************************************)
EXTENDS CallRcu, TLAPS

(* Read-copy-update *)

\* What a reader's place says about its fields, and that each registered reader
\* is in one of the two lists.
Readers ==
  \A r \in Reader :
    /\ at[r] = "lock" => seen[r] # 0
    /\ at[r] = "in" => ctr[r] # 0
    /\ at[r] # "in" => held[r] = None
    /\ at[r] \notin {"out", "gone"} => r \in registry \cup qsreaders
    /\ held[r] \in retired \cup {pointer, None} /\ held[r] \notin freed

\* Counters are odd; only a narrow one is toggled, and a wide one grows.
Counters ==
  /\ rcu_gp_ctr % 2 = 1
  /\ phase = 1 => ~wide
  /\ wide => \A r \in Reader : seen[r] <= rcu_gp_ctr /\ ctr[r] <= rcu_gp_ctr

Objects ==
  /\ pointer \notin retired /\ batch \subseteq retired /\ freed \subseteq retired
  /\ sync = "idle" => batch = {}

Ongoing == sync \notin {"idle", "done"}

\* Who uses an object of the batch is waited for.
Grace ==
  /\ ~Ongoing => qsreaders = {}
  /\ Ongoing /\ phase = 2 =>
       \A r \in Reader : held[r] \in batch => r \in registry /\ ctr[r] # rcu_gp_ctr
  /\ Ongoing /\ phase = 1 =>
       \A r \in Reader : held[r] \in batch /\ ctr[r] # rcu_gp_ctr => r \in registry
  /\ sync = "done" => \A r \in Reader : held[r] \notin batch

IInv == TypeOK /\ Readers /\ Counters /\ Objects /\ Grace

-----------------------------------------------------------------------------
\* An odd counter stays other than zero when it is cut to an unsigned int, and
\* does not grow (the local ctr of rcu_read_lock).
LEMMA Cut ==
  ASSUME NEW v \in Nat, v % 2 = 1
  PROVE  v % UnsignedSpace \in Nat /\ v % UnsignedSpace <= v /\ v % UnsignedSpace # 0
<1>1. PICK h \in 0 .. UnsignedSpace : UnsignedSpace = 2 * h
  BY Zenon, UnsignedAssumption
<1>2. UnsignedSpace \in Nat /\ UnsignedSpace > 0 /\ h \in Nat
  BY <1>1, UnsignedAssumption
<1> DEFINE q == v \div UnsignedSpace
           m == v % UnsignedSpace
<1>3. q \in Int /\ m \in 0 .. UnsignedSpace - 1 /\ v = UnsignedSpace * q + m
  BY <1>2
<1>4. m <= v
  <2>1. q >= 0
    BY <1>2
  <2>2. UnsignedSpace * q >= 0
    BY <1>2, <1>3, <2>1
  <2> QED BY <1>2, <1>3, <2>2
<1>5. m # 0
  <2> SUFFICES ASSUME m = 0 PROVE FALSE
    BY Zenon
  <2> DEFINE p == h * q
  <2>1. p \in Int
    BY <1>2, <1>3
  <2>2. v = 2 * p
    <3> HIDE DEF q, m
    <3>1. v = UnsignedSpace * q
      BY <1>2, <1>3
    <3>2. UnsignedSpace * q = 2 * (h * q)
      BY <1>1, <1>2, <1>3
    <3> QED BY Zenon, <3>1, <3>2
  <2> HIDE DEF p
  <2> QED BY <2>1, <2>2
<1> QED BY <1>2, <1>3, <1>4, <1>5

\* The toggle of a narrow counter changes it and keeps it odd.
LEMMA ToggledOther ==
  ASSUME rcu_gp_ctr \in Nat
  PROVE  Toggled \in Nat /\ Toggled % 2 = 1 /\ Toggled # rcu_gp_ctr
BY DEF Toggled, RCU_GP_LOCKED, RCU_GP_CTR

\* The first state has nobody registered and nothing removed.
LEMMA InitIInv == Init => IInv
<1> SUFFICES ASSUME Init PROVE IInv
  BY Zenon
<1>1. TypeOK
  BY Zenon DEF Init, TypeOK, RCU_GP_LOCKED
<1>2. Readers
  BY Zenon, ObjectAssumption DEF Init, Readers
<1>3. Counters
  BY DEF Init, Counters, RCU_GP_LOCKED
<1>4. Objects /\ Grace
  BY Zenon DEF Init, Objects, Grace, Ongoing
<1> QED BY Zenon, <1>1, <1>2, <1>3, <1>4 DEF IInv

-----------------------------------------------------------------------------
\* rcu_register_thread, rcu_unregister_thread, rcu_read_lock, the section and
\* rcu_read_unlock keep the invariant.
LEMMA ReaderStepIInv ==
  ASSUME IInv, NEW r \in Reader, ReaderNext(r)
  PROVE  IInv'
<1> USE ObjectAssumption DEF IInv, TypeOK, Readers, Counters, Objects, Grace, Ongoing, Goes, listVars, objectVars, syncVars
<1>1. CASE rcu_register_thread(r)
  BY <1>1 DEF rcu_register_thread
<1>2. CASE rcu_unregister_thread(r)
  BY <1>2 DEF rcu_unregister_thread
<1>3. CASE ReadLock(r)
  <2>1. rcu_gp_ctr % UnsignedSpace \in Nat /\ rcu_gp_ctr % UnsignedSpace <= rcu_gp_ctr
        /\ rcu_gp_ctr % UnsignedSpace # 0
    BY Zenon, Cut
  <2> QED BY <1>3, <2>1 DEF ReadLock
<1>4. CASE ReadLocked(r)
  BY <1>4 DEF ReadLocked
<1>5. CASE Dereference(r)
  BY <1>5 DEF Dereference
<1>6. CASE ReadUnlock(r)
  BY <1>6 DEF ReadUnlock
<1>7. CASE UnlockTest(r)
  BY <1>7 DEF UnlockTest
<1>8. CASE UnlockClear(r)
  BY <1>8 DEF UnlockClear
<1>9. CASE UnlockSet(r)
  BY <1>9 DEF UnlockSet
<1> QED BY Zenon, <1>1, <1>2, <1>3, <1>4, <1>5, <1>6, <1>7, <1>8, <1>9 DEF ReaderNext, ReaderStep

\* The end of a wait: the users of the batch that the first wait of a narrow
\* build has moved have the old parity, and the second leaves none.
LEMMA WaitDoneIInv ==
  ASSUME IInv, WaitDone
  PROVE  IInv'
<1> USE ObjectAssumption DEF IInv, WaitDone, readerVars, objectVars
<1>1. TypeOK'
  BY Zenon, ToggledOther DEF TypeOK
<1>2. Readers' /\ Objects'
  BY Zenon DEF Readers, Objects
<1>3. Counters'
  <2>1. CASE phase = 1
    BY Zenon, <2>1, ToggledOther DEF TypeOK, Counters, Grace, Ongoing
  <2>2. CASE phase = 2
    BY <2>2 DEF TypeOK, Counters
  <2> QED BY Zenon, <2>1, <2>2 DEF TypeOK
<1>4. Grace'
  <2>1. CASE phase = 1
    BY <2>1, ToggledOther DEF TypeOK, Readers, Objects, Grace, Ongoing
  <2>2. CASE phase = 2
    BY Zenon, <2>2 DEF TypeOK, Grace, Ongoing
  <2> QED BY Zenon, <2>1, <2>2 DEF TypeOK
<1> QED BY Zenon, <1>1, <1>2, <1>3, <1>4

\* So do the steps of wait_for_readers.
LEMMA SyncStepIInv ==
  ASSUME IInv, SyncStep
  PROVE  IInv'
<1> USE ObjectAssumption DEF IInv, TypeOK, Readers, Counters, Objects, Grace, Ongoing, readerVars, listVars, objectVars
<1>1. CASE WaitReset
  BY Zenon, <1>1 DEF WaitReset
<1>2. CASE WaitMarked
  BY <1>2 DEF WaitMarked
<1>3. CASE WaitMove
  BY Zenon, <1>3 DEF WaitMove
<1>4. CASE WaitDone
  BY Zenon, <1>4, WaitDoneIInv
<1>5. CASE WaitUnlock
  BY Zenon, <1>5 DEF WaitUnlock
<1>6. CASE WaitEvent
  BY <1>6 DEF WaitEvent
<1>7. CASE WaitWoken
  BY Zenon, <1>7 DEF WaitWoken
<1>8. CASE WaitLock
  BY Zenon, <1>8 DEF WaitLock
<1>9. ASSUME NEW r \in todo, WaitMark(r) PROVE IInv'
  BY <1>9 DEF WaitMark
<1>10. ASSUME NEW r \in todo, WaitWalk(r) PROVE IInv'
  BY <1>10 DEF WaitWalk, rcu_gp_ongoing
<1> QED BY Zenon, <1>1, <1>2, <1>3, <1>4, <1>5, <1>6, <1>7, <1>8, <1>9, <1>10 DEF SyncStep

\* And the beginning and the end of synchronize_rcu, the removal and the
\* reclamation of an object.
LEMMA ObjectStepIInv ==
  ASSUME IInv, SyncStart \/ SyncEnd \/ \E x \in Object : Replace(x) \/ Reclaim(x)
  PROVE  IInv'
<1> USE ObjectAssumption DEF IInv, TypeOK, Readers, Counters, Objects, Grace, Ongoing, readerVars, listVars, syncVars
<1>1. CASE SyncStart
  <2>1. CASE wide
    BY <1>1, <2>1 DEF SyncStart, RCU_GP_CTR
  <2>2. CASE ~wide
    BY <1>1, <2>2, ToggledOther DEF SyncStart
  <2> QED BY Zenon, <2>1, <2>2
<1>2. CASE SyncEnd
  BY Zenon, <1>2 DEF SyncEnd
<1>3. ASSUME NEW x \in Object, Replace(x) PROVE IInv'
  BY <1>3 DEF Replace
<1>4. ASSUME NEW x \in Object, Reclaim(x) PROVE IInv'
  BY <1>4 DEF Reclaim
<1> QED BY Zenon, <1>1, <1>2, <1>3, <1>4

\* The invariant is kept by every step.
LEMMA NextIInv ==
  ASSUME IInv, [Next]_rcuVars
  PROVE  IInv'
<1>1. CASE Next
  BY Zenon, <1>1, ReaderStepIInv, SyncStepIInv, ObjectStepIInv DEF Next
<1>2. CASE UNCHANGED rcuVars
  BY <1>2 DEF rcuVars, readerVars, listVars, objectVars, syncVars, IInv, TypeOK,
              Readers, Counters, Objects, Grace, Ongoing
<1> QED BY Zenon, <1>1, <1>2

\* No reader uses a reclaimed object, for any readers and any number of grace
\* periods, in narrow and in wide builds (synchronize_rcu, rcu_read_lock and
\* rcu_read_unlock).
THEOREM RcuSafe == Spec => []NoUseAfterFree
<1>1. IInv => NoUseAfterFree
  BY Zenon DEF IInv, Readers, NoUseAfterFree
<1> QED BY <1>1, NextIInv, InitIInv, PTL DEF Spec

-----------------------------------------------------------------------------
(* Deferred reclamation *)

Node == Object \cup Drain \cup {Dummy}

\* The calls of call_rcu1 that have a place in the queue and did not count.
Uncounted == {w \in Writer : up[w] \in {"link", "count"}}

\* The callbacks of the round whose nodes are still in the queue.
Left == IF node = None THEN n ELSE n - 1

\* Where call_rcu_thread is with the grace period under way, and after it.
Over == {"work", "retry", "await", "asleep", "again", "relock"}
Round == Over \cup {"sync"}

CallTypeOK ==
  /\ next \in [Node -> Node \cup {None}]
  /\ rcu_call_count \in Nat /\ n \in Nat /\ node \in Object \cup Drain \cup {None}
  /\ relink \in Node \cup {None}
  /\ call \in Round \cup {"idle", "check", "wait", "sleep", "grace"}
  /\ drained \subseteq Drain /\ mine \subseteq retired
  /\ up \in [Writer -> {"idle", "gone", "enqueue", "link", "count", "ready", "drain", "relock"}]
  /\ item \in [Writer -> Object \cup Drain \cup {None}]
  /\ link \in [Writer -> Node \cup {None}]

\* Grace periods and rounds of callbacks take turns.
Turns ==
  /\ call \in {"idle", "check", "wait", "sleep"} => n = 0
  /\ call \notin Round => sync = "idle"
  /\ call = "sync" => sync # "idle"
  /\ call \in Over => sync = "done"
  /\ call \in Over \ {"work"} => n > 0
  /\ node # None => call = "relock"

\* Somebody has still to store y into the next field of x.
Pending(q, a, b, x, y) ==
  \E i \in a .. b : i < b /\ q[i] = x /\ q[i + 1] = y /\ next[x] = None

Chain(q, a, b, d) ==
  /\ head = q[a] /\ tail = q[b] /\ q[d] = Dummy /\ next[q[b]] = None
  /\ \A i, j \in a .. b : q[i] = q[j] => i = j
  /\ \A i \in a .. b : i < b => next[q[i]] \in {q[i + 1], None}
  /\ \A w \in Writer : up[w] = "link" => Pending(q, a, b, link[w], item[w])
  /\ relink # None => Pending(q, a, b, relink, Dummy)

\* A drain in the queue is the one that Main is waiting for.
Queued(x) ==
  /\ x \in Object => x \in retired \ freed
  /\ x \in Drain => /\ x \notin drained /\ item[Main] = x
                    /\ up[Main] \in {"link", "count", "ready", "drain"}

Contents(q, a, b) ==
  /\ \A i \in a .. b : Queued(q[i]) /\ q[i] # node
  /\ Queued(node)
  /\ \A w \in Writer : up[w] = "enqueue" =>
       /\ item[w] # None /\ item[w] # node
       /\ item[w] \in Object => item[w] \in retired \ freed
       /\ item[w] \in Drain => w = Main /\ item[w] \notin drained
       /\ \A i \in a .. b : q[i] # item[w]
  /\ \A v, w \in Writer :
       up[v] \in {"enqueue", "link"} /\ up[w] \in {"enqueue", "link"} /\ item[v] = item[w] => v = w

\* There are as many nodes as callbacks that were counted, at least.
Counted(a, b) == b - a >= Left + rcu_call_count + Cardinality(Uncounted)

\* The callbacks of the round belong to nodes up to the place k.
Cutoff(q, a, b, d, k) ==
  call \in Round =>
    /\ k <= b /\ k - a + 1 >= Left + (IF d <= k THEN 1 ELSE 0)
    /\ \A i \in a .. b : i <= k => q[i] \in batch \cup Drain \cup {Dummy}
    /\ node \in batch \cup Drain \cup {None}

\* What Main has removed is in front of its drain.
Order(q, a, b) ==
  /\ \A x \in mine :
       \/ x \in freed \/ x = node \/ (up[Main] = "enqueue" /\ item[Main] = x)
       \/ \E i \in a .. b : q[i] = x /\ \A j \in a .. b : q[j] \in Drain => i < j
  /\ node \in Drain => mine \subseteq freed
  /\ item[Main] \in drained => mine \subseteq freed
  /\ DrainedInOrder

Queue(q, a, b, d, k) ==
  /\ Chain(q, a, b, d) /\ Contents(q, a, b) /\ Counted(a, b)
  /\ Cutoff(q, a, b, d, k) /\ Order(q, a, b)

\* The places of a queue.
Places(q, a, b, d, k) ==
  /\ q \in [Nat -> Node] /\ a \in Nat /\ b \in Nat /\ a <= b
  /\ d \in a .. b /\ k \in Int

CInv ==
  /\ CallTypeOK /\ Turns
  /\ \E q \in [Nat -> Node], a, b, d \in Nat, k \in Int :
       Places(q, a, b, d, k) /\ Queue(q, a, b, d, k)

-----------------------------------------------------------------------------
\* A step that leaves the queue, its writers and the objects alone.
LEMMA QueueSame ==
  ASSUME NEW q, NEW a, NEW b, NEW d, NEW k, Queue(q, a, b, d, k),
         UNCHANGED <<head, tail, next, rcu_call_count, n, node, relink, writerVars, objectVars>>,
         call' \in Round => call \in Round
  PROVE  Queue(q, a, b, d, k)'
BY DEF Queue, Chain, Pending, Contents, Queued, Counted, Uncounted, Left, Cutoff,
       Order, DrainedInOrder, writerVars, objectVars, Round, Over

\* What the steps use of counting the calls in the middle: one more, one less.
Counting ==
  /\ Cardinality(Uncounted) \in Nat
  /\ \A w \in Writer \ Uncounted : Cardinality(Uncounted \cup {w}) = Cardinality(Uncounted) + 1
  /\ \A w \in Uncounted : Cardinality(Uncounted \ {w}) = Cardinality(Uncounted) - 1

Before(q, a, b, d, k) ==
  /\ IInv /\ Counting /\ CallTypeOK /\ Turns /\ Places(q, a, b, d, k) /\ Queue(q, a, b, d, k)

\* A queue of one node has one place.
LEMMA OnePlace == ~(0 < 0) /\ \A i \in 0 .. 0 : i = 0
OBVIOUS

\* It needs no callback.
LEMMA NoneCounted == 0 - 0 >= 0 + 0 + 0
OBVIOUS

\* The parts of it.
LEMMA BeforeParts ==
  ASSUME NEW q, NEW a, NEW b, NEW d, NEW k, Before(q, a, b, d, k)
  PROVE  /\ IInv /\ CallTypeOK /\ Turns /\ Places(q, a, b, d, k) /\ Queue(q, a, b, d, k)
         /\ Chain(q, a, b, d) /\ Contents(q, a, b) /\ Counted(a, b)
         /\ Cutoff(q, a, b, d, k) /\ Order(q, a, b)
BY Zenon DEF Before, Queue

\* How the calls in the middle are counted.
LEMMA BeforeCounts ==
  ASSUME NEW q, NEW a, NEW b, NEW d, NEW k, Before(q, a, b, d, k)
  PROVE  /\ Cardinality(Uncounted) \in Nat
         /\ \A w \in Writer \ Uncounted : Cardinality(Uncounted \cup {w}) = Cardinality(Uncounted) + 1
         /\ \A w \in Uncounted : Cardinality(Uncounted \ {w}) = Cardinality(Uncounted) - 1
BY Zenon DEF Before, Counting

\* A queue from its parts, after a step.
LEMMA QueueBuild ==
  ASSUME NEW q, NEW a, NEW b, NEW d, NEW k, Chain(q, a, b, d)', Contents(q, a, b)',
         Counted(a, b)', Cutoff(q, a, b, d, k)', Order(q, a, b)'
  PROVE  Queue(q, a, b, d, k)'
BY Zenon DEF Queue

\* What the invariant of Rcu says of the objects.
LEMMA ObjectsTyped ==
  ASSUME IInv
  PROVE  /\ retired \subseteq Object /\ batch \subseteq Object /\ pointer \in Object
         /\ pointer \notin retired /\ pointer \notin freed
BY Zenon DEF IInv, TypeOK, Objects

\* What a writer removes is in no queue yet.
LEMMA UpdateQueue ==
  ASSUME NEW q, NEW a, NEW b, NEW d, NEW k, Before(q, a, b, d, k),
         NEW w \in Writer, Update(w)
  PROVE  Queue(q, a, b, d, k)'
<1> USE NodeAssumption, ObjectAssumption, ThreadAssumption
<1>1. /\ UNCHANGED <<head, tail, next, rcu_call_count, n, node, relink, call, link, drained, freed, batch>>
      /\ retired' = retired \cup {pointer}
      /\ up[w] = "idle" /\ up' = [up EXCEPT ![w] = "enqueue"]
      /\ item' = [item EXCEPT ![w] = pointer]
      /\ mine' = IF w = Main THEN mine \cup {pointer} ELSE mine
  BY Zenon DEF Update, Replace, Moves, queueVars, workVars
<1>2. pointer \in Object /\ pointer \notin retired /\ pointer \notin freed
  BY Zenon, BeforeParts, ObjectsTyped
<1> HIDE DEF Update
<1>3. /\ IInv /\ CallTypeOK /\ Turns /\ Places(q, a, b, d, k) /\ Chain(q, a, b, d)
      /\ Contents(q, a, b) /\ Counted(a, b) /\ Cutoff(q, a, b, d, k) /\ Order(q, a, b)
  BY Zenon, BeforeParts
<1>4. Chain(q, a, b, d)'
  <2>1. \A v \in Writer : up'[v] = "link" => up[v] = "link" /\ item'[v] = item[v]
    BY Zenon, <1>1, <1>3 DEF CallTypeOK
  <2>2. UNCHANGED <<head, tail, next, relink, link>>
    BY Zenon, <1>1
  <2>3. ASSUME NEW y, NEW z, Pending(q, a, b, y, z) PROVE Pending(q, a, b, y, z)'
    BY Zenon, <2>2, <2>3 DEF Pending
  <2>4. ASSUME NEW v \in Writer, up'[v] = "link" PROVE Pending(q, a, b, link[v], item[v])'
    <3> PICK y, z : y = link[v] /\ z = item[v]
      BY Zenon
    <3>1. Pending(q, a, b, y, z)
      BY Zenon, <2>1, <2>4, <1>3 DEF Chain
    <3> QED BY Zenon, <3>1, <2>1, <2>2, <2>3, <2>4
  <2>5. relink' # None => Pending(q, a, b, relink, Dummy)'
    <3> PICK y : y = relink
      BY Zenon
    <3> QED BY Zenon, <2>2, <2>3, <1>3 DEF Chain
  <2> QED BY Zenon, <2>2, <2>4, <2>5, <1>3 DEF Chain
<1>5. Contents(q, a, b)'
  <2>1. ASSUME NEW v \in Writer, up[v] \in {"enqueue", "link"} PROVE item[v] # pointer
    <3>1. CASE up[v] = "enqueue"
      BY Zenon, <3>1, <1>2, <1>3 DEF Contents
    <3>2. CASE up[v] = "link"
      <4>1. PICK i \in a .. b : i < b /\ q[i + 1] = item[v]
        BY Zenon, <3>2, <1>3 DEF Chain, Pending
      <4>2. a \in Nat /\ b \in Nat
        BY Zenon, <1>3 DEF Places
      <4>3. i + 1 \in a .. b
        BY <4>1, <4>2
      <4> QED BY Zenon, <4>1, <4>3, <1>2, <1>3 DEF Contents, Queued
    <3> QED BY Zenon, <3>1, <3>2, <2>1
  <2>2. /\ up'[w] = "enqueue" /\ item'[w] = pointer
        /\ \A v \in Writer : v # w => up'[v] = up[v] /\ item'[v] = item[v]
    BY Zenon, <1>1, <1>3 DEF CallTypeOK
  <2>3. \A y : Queued(y) => Queued(y)' /\ y # pointer
    BY Zenon, <2>2, <1>1, <1>2 DEF Queued
  <2>4. \A i \in a .. b : Queued(q[i])' /\ q[i] # node' /\ q[i] # pointer
    BY Zenon, <2>3, <1>1, <1>3 DEF Contents
  <2>5. Queued(node)' /\ node' = node /\ node # pointer
    BY Zenon, <2>3, <1>1, <1>3 DEF Contents
  <2>6. ASSUME NEW v \in Writer, up'[v] = "enqueue"
        PROVE  /\ item'[v] # None /\ item'[v] # node'
               /\ item'[v] \in Object => item'[v] \in retired' \ freed'
               /\ item'[v] \in Drain => v = Main /\ item'[v] \notin drained'
               /\ \A i \in a .. b : q[i] # item'[v]
    <3>1. CASE v = w
      BY Zenon, <3>1, <2>2, <2>4, <2>5, <1>1, <1>2
    <3>2. CASE v # w
      <4>1. up[v] = "enqueue" /\ item'[v] = item[v]
        BY Zenon, <3>2, <2>2, <2>6
      <4>2. /\ item[v] # None /\ item[v] # node
            /\ item[v] \in Object => item[v] \in retired \ freed
            /\ item[v] \in Drain => v = Main /\ item[v] \notin drained
            /\ \A i \in a .. b : q[i] # item[v]
        BY Zenon, <4>1, <1>3 DEF Contents
      <4>3. retired \subseteq retired' /\ freed' = freed /\ node' = node /\ drained' = drained
        BY Zenon, <1>1
      <4> QED BY Zenon, <4>1, <4>2, <4>3
    <3> QED BY Zenon, <3>1, <3>2
  <2>7. ASSUME NEW u \in Writer, NEW v \in Writer, up'[u] \in {"enqueue", "link"},
               up'[v] \in {"enqueue", "link"}, item'[u] = item'[v]
        PROVE  u = v
    BY ZenonT(30), <2>7, <2>2, <2>1, <1>3 DEF Contents
  <2> QED BY Zenon, <2>4, <2>5, <2>6, <2>7 DEF Contents
<1>6. Counted(a, b)'
  <2>1. Uncounted' = Uncounted
    BY Zenon, <1>1, <1>3 DEF Uncounted, CallTypeOK
  <2> QED BY Zenon, <1>1, <1>3, <2>1 DEF Counted, Left
<1>7. Cutoff(q, a, b, d, k)'
  BY Zenon, <1>1, <1>3 DEF Cutoff, Left
<1>8. Order(q, a, b)'
  BY <1>1, <1>2, <1>3 DEF Contents, Queued, Order, DrainedInOrder, CallTypeOK
<1> QED BY Zenon, <1>4, <1>5, <1>6, <1>7, <1>8, QueueBuild

\* The exchange of tail adds a place at the end.
LEMMA EnqueueQueue ==
  ASSUME NEW q, NEW a, NEW b, NEW d, NEW k, Before(q, a, b, d, k),
         NEW w \in Writer, Enqueue(w), NEW x, x = item[w]
  PROVE  /\ Queue([q EXCEPT ![b + 1] = x], a, b + 1, d, k)'
         /\ Places([q EXCEPT ![b + 1] = x], a, b + 1, d, k)
<1> USE NodeAssumption, ObjectAssumption, ThreadAssumption
<1>1. /\ UNCHANGED <<head, rcu_call_count, n, node, relink, call, item, drained, mine, freed, batch, retired>>
      /\ up[w] = "enqueue" /\ up' = [up EXCEPT ![w] = "link"]
      /\ next' = [next EXCEPT ![item[w]] = None]
      /\ link' = [link EXCEPT ![w] = tail] /\ tail' = item[w]
  BY Zenon DEF Enqueue, Moves, rcuVars, objectVars, workVars
<1>2. /\ IInv /\ CallTypeOK /\ Turns /\ Places(q, a, b, d, k) /\ Chain(q, a, b, d)
      /\ Contents(q, a, b) /\ Counted(a, b) /\ Cutoff(q, a, b, d, k) /\ Order(q, a, b)
  BY Zenon, BeforeParts
<1>3. item[w] \in Object \cup Drain /\ \A i \in a .. b : q[i] # item[w]
  BY Zenon, <1>1, <1>2 DEF Contents, CallTypeOK
<1>4. PICK t : t = tail
  BY Zenon
<1> DEFINE r == [q EXCEPT ![b + 1] = x]
<1>5. /\ a \in Nat /\ b \in Nat /\ a <= b /\ d \in a .. b /\ k \in Int
      /\ r \in [Nat -> Node] /\ r[b + 1] = x /\ \A i \in a .. b : r[i] = q[i]
  <2>1. /\ q \in [Nat -> Node] /\ a \in Nat /\ b \in Nat /\ a <= b /\ d \in a .. b /\ k \in Int
        /\ x \in Node
    BY Zenon, <1>2, <1>3 DEF Places, Node
  <2> QED BY <2>1
<1>6. Places(r, a, b + 1, d, k)
  <2> HIDE DEF r
  <2>1. r \in [Nat -> Node] /\ a \in Nat /\ b \in Nat /\ a <= b /\ d \in a .. b /\ k \in Int
    BY Zenon, <1>5
  <2> QED BY <2>1 DEF Places
<1> HIDE DEF r
<1>7. \A y \in Node : next'[y] = IF y = x THEN None ELSE next[y]
  BY Zenon, <1>1, <1>2, <1>3 DEF CallTypeOK, Node
<1>8. \A i \in a .. b : next'[r[i]] = next[q[i]] /\ r[i] \in Node
  <2>1. ASSUME NEW i \in a .. b PROVE r[i] \in Node /\ r[i] = q[i]
    <3>1. a \in Nat /\ b \in Nat
      BY Zenon, <1>5
    <3>2. i \in Nat
      BY <3>1
    <3> QED BY Zenon, <3>2, <1>5
  <2> QED BY Zenon, <2>1, <1>3, <1>7
<1>9. Chain(r, a, b + 1, d)'
  <2>a. /\ \A i \in a .. b + 1 : i \in a .. b \/ i = b + 1
        /\ \A i \in a .. b : i = b \/ (i < b /\ i + 1 \in a .. b)
        /\ ~(b + 1 < b + 1)
    <3>1. a \in Nat /\ b \in Nat /\ a <= b
      BY Zenon, <1>5
    <3> QED BY <3>1
  <2>1. \A i, j \in a .. b + 1 : r[i] = r[j] => i = j
    BY Zenon, <2>a, <1>2, <1>3, <1>5 DEF Chain
  <2>2. \A i \in a .. b + 1 : i < b + 1 => next'[r[i]] \in {r[i + 1], None}
    <3>1. ASSUME NEW i \in a .. b PROVE next'[r[i]] \in {r[i + 1], None}
      <4>1. next'[r[i]] = next[q[i]]
        BY Zenon, <1>8
      <4>2. CASE i = b
        BY Zenon, <4>1, <4>2, <1>2 DEF Chain
      <4>3. CASE i < b /\ i + 1 \in a .. b
        <5>1. r[i + 1] = q[i + 1]
          BY Zenon, <4>3, <1>5
        <5> QED BY Zenon, <5>1, <4>1, <4>3, <1>2 DEF Chain
      <4> QED BY Zenon, <4>2, <4>3, <2>a
    <3> QED BY Zenon, <3>1, <2>a
  <2>3. ASSUME NEW y, NEW z, Pending(q, a, b, y, z) PROVE Pending(r, a, b + 1, y, z)'
    BY <2>3, <1>5, <1>8 DEF Pending
  <2>4. Pending(r, a, b + 1, t, x)'
    <3>1. t = r[b] /\ next'[r[b]] = None /\ b \in a .. b + 1
      <4>1. a \in Nat /\ b \in Nat /\ a <= b
        BY Zenon, <1>5
      <4>2. b \in a .. b /\ b \in a .. b + 1
        BY <4>1
      <4> QED BY Zenon, <4>2, <1>2, <1>4, <1>5, <1>8 DEF Chain
    <3>2. b < b + 1
      <4>1. b \in Nat
        BY Zenon, <1>5
      <4> QED BY <4>1
    <3> QED BY Zenon, <3>1, <3>2, <1>5 DEF Pending
  <2>5. ASSUME NEW v \in Writer, up'[v] = "link" PROVE Pending(r, a, b + 1, link[v], item[v])'
    <3>1. CASE v = w
      BY Zenon, <3>1, <2>4, <1>1, <1>2, <1>4 DEF CallTypeOK
    <3>2. CASE v # w
      BY Zenon, <3>2, <2>3, <2>5, <1>1, <1>2 DEF Chain, CallTypeOK
    <3> QED BY Zenon, <3>1, <3>2
  <2>6. next'[r[b + 1]] = None
    BY Zenon, <1>3, <1>5, <1>7 DEF Node
  <2>7. head' = r[a] /\ tail' = r[b + 1] /\ r[d] = Dummy
    <3>1. a \in Nat /\ b \in Nat /\ a <= b
      BY Zenon, <1>5
    <3>2. a \in a .. b
      BY <3>1
    <3> QED BY Zenon, <3>2, <1>1, <1>2, <1>5 DEF Chain
  <2>8. relink' # None => Pending(r, a, b + 1, relink, Dummy)'
    <3> PICK z : z = relink
      BY Zenon
    <3> QED BY Zenon, <2>3, <1>1, <1>2 DEF Chain
  <2> QED BY Zenon, <2>1, <2>2, <2>5, <2>6, <2>7, <2>8 DEF Chain
<1>10. Contents(r, a, b + 1)'
  <2>1. \A i \in a .. b + 1 : i \in a .. b \/ i = b + 1
    <3>1. a \in Nat /\ b \in Nat
      BY Zenon, <1>5
    <3> QED BY <3>1
  <2>2. /\ up'[w] = "link" /\ \A v \in Writer : v # w => up'[v] = up[v]
        /\ item' = item /\ item[w] = x /\ up[w] = "enqueue"
    BY Zenon, <1>1, <1>2 DEF CallTypeOK
  <2>3. \A y : Queued(y) => Queued(y)'
    BY Zenon, <2>2, <1>1 DEF Queued
  <2>4. Queued(x)' /\ x # node
    BY Zenon, <2>2, <1>1, <1>2 DEF Contents, Queued
  <2>5. \A i \in a .. b + 1 : Queued(r[i])' /\ r[i] # node'
    BY Zenon, <2>1, <2>3, <2>4, <1>1, <1>2, <1>5 DEF Contents
  <2>6. ASSUME NEW v \in Writer, up'[v] = "enqueue"
        PROVE  /\ v # w /\ up[v] = "enqueue" /\ item[v] # x
               /\ \A i \in a .. b + 1 : r[i] # item[v]
    <3>1. v # w /\ up[v] = "enqueue"
      BY Zenon, <2>2, <2>6
    <3>2. item[v] # x
      BY Zenon, <3>1, <2>2, <1>2 DEF Contents
    <3> QED BY Zenon, <3>1, <3>2, <2>1, <1>2, <1>5 DEF Contents
  <2>7. \A u, v \in Writer :
          up'[u] \in {"enqueue", "link"} /\ up'[v] \in {"enqueue", "link"} /\ item[u] = item[v] => u = v
    <3>1. \A v \in Writer : up'[v] \in {"enqueue", "link"} => up[v] \in {"enqueue", "link"}
      BY Zenon, <2>2
    <3> QED BY Zenon, <3>1, <1>2 DEF Contents
  <2>8. Queued(node)' /\ node' = node
    BY Zenon, <2>3, <1>1, <1>2 DEF Contents
  <2>9. ASSUME NEW v \in Writer, up'[v] = "enqueue"
        PROVE  /\ item'[v] # None /\ item'[v] # node'
               /\ item'[v] \in Object => item'[v] \in retired' \ freed'
               /\ item'[v] \in Drain => v = Main /\ item'[v] \notin drained'
               /\ \A i \in a .. b + 1 : r[i] # item'[v]
    <3>1. up[v] = "enqueue" /\ item' = item /\ \A i \in a .. b + 1 : r[i] # item[v]
      BY Zenon, <2>2, <2>6, <2>9
    <3> QED BY Zenon, <3>1, <1>1, <1>2 DEF Contents
  <2> QED BY Zenon, <2>2, <2>5, <2>7, <2>8, <2>9 DEF Contents
<1>11. Counted(a, b + 1)'
  <2>1. Uncounted' = Uncounted \cup {w} /\ w \notin Uncounted
    BY ZenonT(30), <1>1, <1>2 DEF Uncounted, CallTypeOK
  <2>2. Cardinality(Uncounted') = Cardinality(Uncounted) + 1 /\ Cardinality(Uncounted) \in Nat
    BY Zenon, <2>1, BeforeCounts
  <2>3. /\ Left' = Left /\ rcu_call_count' = rcu_call_count /\ rcu_call_count \in Nat
        /\ b - a >= Left + rcu_call_count + Cardinality(Uncounted)
    BY Zenon, <1>1, <1>2 DEF Counted, Left, CallTypeOK
  <2>4. a \in Nat /\ b \in Nat /\ Left \in Int
    <3>1. n \in Nat
      BY Zenon, <1>2 DEF CallTypeOK
    <3>2. Left \in Int
      BY <3>1 DEF Left
    <3> QED BY Zenon, <3>2, <1>5
  <2>5. (b + 1) - a >= Left + rcu_call_count + (Cardinality(Uncounted) + 1)
    BY <2>2, <2>3, <2>4
  <2> QED BY Zenon, <2>2, <2>3, <2>5 DEF Counted
<1>12. Cutoff(r, a, b + 1, d, k)'
  <2>1. /\ Left' = Left /\ call' = call /\ node' = node /\ batch' = batch
        /\ x \in Object \cup Drain
    BY Zenon, <1>1, <1>3 DEF Left
  <2>2. ASSUME call \in Round PROVE k <= b + 1 /\ \A i \in a .. b + 1 : i <= k => i \in a .. b
    <3>1. k <= b /\ a \in Nat /\ b \in Nat /\ k \in Int
      BY Zenon, <2>2, <1>2, <1>5 DEF Cutoff
    <3> QED BY <3>1
  <2> QED BY Zenon, <2>1, <2>2, <1>2, <1>5 DEF Cutoff
<1>13. Order(r, a, b + 1)'
  <2>1. Order(q, a, b) /\ Contents(q, a, b)
    BY Zenon, <1>2
  <2>2. ASSUME NEW y \in mine, y \notin freed, y # node
        PROVE  \/ (up'[Main] = "enqueue" /\ item[Main] = y)
               \/ \E i \in a .. b + 1 : r[i] = y /\ \A j \in a .. b + 1 : r[j] \in Drain => i < j
    <3>1. CASE up[Main] = "enqueue" /\ item[Main] = y
      <4>1. \A j \in a .. b : r[j] \notin Drain
        BY Zenon, <2>1, <3>1, <1>5 DEF Contents, Queued
      <4>2. CASE w = Main
        <5>1. x = y /\ y \notin Drain
          BY Zenon, <4>2, <3>1, <2>2, <1>2, ObjectsTyped DEF CallTypeOK
        <5> QED BY <4>1, <5>1, <1>5
      <4>3. CASE w # Main
        BY Zenon, <4>3, <3>1, <1>1, <1>2 DEF CallTypeOK
      <4> QED BY Zenon, <4>2, <4>3
    <3>2. ASSUME NEW i \in a .. b, q[i] = y, \A j \in a .. b : q[j] \in Drain => i < j
          PROVE  r[i] = y /\ i \in a .. b + 1 /\ \A j \in a .. b + 1 : r[j] \in Drain => i < j
      BY <3>2, <1>5
    <3> QED BY Zenon, <3>1, <3>2, <2>1, <2>2 DEF Order
  <2>3. UNCHANGED <<mine, freed, node, item, drained>> /\ (up'[Main] = "relock" => up[Main] = "relock")
    BY Zenon, <1>1, <1>2 DEF CallTypeOK
  <2>4. \A y \in mine' : \/ y \in freed' \/ y = node'
          \/ (up'[Main] = "enqueue" /\ item'[Main] = y)
          \/ \E i \in a .. b + 1 : r[i] = y /\ \A j \in a .. b + 1 : r[j] \in Drain => i < j
    BY Zenon, <2>2, <2>3
  <2> QED BY Zenon, <2>1, <2>3, <2>4 DEF Order, DrainedInOrder
<1> QED BY Zenon, <1>6, <1>9, <1>10, <1>11, <1>12, <1>13, QueueBuild DEF r

\* The store of a link fills the gap behind the node that was the tail, and no
\* other.
LEMMA Linked ==
  ASSUME NEW q, NEW a, NEW b, NEW d, NEW x, NEW y, CallTypeOK, NEW k, Places(q, a, b, d, k),
         Chain(q, a, b, d), Pending(q, a, b, x, y), next' = [next EXCEPT ![x] = y]
  PROVE  /\ next'[q[b]] = None
         /\ \A i \in a .. b : i < b => next'[q[i]] \in {q[i + 1], None}
         /\ \A u, v : u # x /\ Pending(q, a, b, u, v) => Pending(q, a, b, u, v)'
<1>1. PICK p \in a .. b : p < b /\ q[p] = x /\ q[p + 1] = y /\ next[x] = None
  BY Zenon DEF Pending
<1>2. a \in Nat /\ b \in Nat /\ \A i \in a .. b : q[i] \in Node
  BY DEF Places
<1>3. \A i \in a .. b : next'[q[i]] = IF i = p THEN y ELSE next[q[i]]
  BY Zenon, <1>1, <1>2 DEF CallTypeOK, Chain
<1>4. next'[q[b]] = None /\ \A i \in a .. b : i < b => next'[q[i]] \in {q[i + 1], None}
  BY <1>1, <1>2, <1>3 DEF Chain
<1>5. ASSUME NEW u, NEW v, u # x, Pending(q, a, b, u, v) PROVE Pending(q, a, b, u, v)'
  BY Zenon, <1>1, <1>2, <1>3, <1>5 DEF Pending
<1> QED BY Zenon, <1>4, <1>5

\* Two stores that are due go to different nodes.
LEMMA PendingOther ==
  ASSUME NEW q, NEW a, NEW b, NEW d, NEW k, Places(q, a, b, d, k), Chain(q, a, b, d),
         NEW x, NEW y, NEW u, NEW v, Pending(q, a, b, x, y), Pending(q, a, b, u, v), y # v
  PROVE  u # x
BY DEF Places, Chain, Pending

\* Each call of call_rcu1 that has still to link its node has a node of its own.
LEMMA LinkQueue ==
  ASSUME NEW q, NEW a, NEW b, NEW d, NEW k, Before(q, a, b, d, k),
         NEW w \in Writer, Link(w)
  PROVE  Queue(q, a, b, d, k)'
<1>1. /\ UNCHANGED <<head, tail, rcu_call_count, n, node, relink, call, item, link, drained, mine, freed, batch, retired>>
      /\ up[w] = "link" /\ up' = [up EXCEPT ![w] = "count"]
      /\ next' = [next EXCEPT ![link[w]] = item[w]]
  BY Zenon DEF Link, Moves, rcuVars, objectVars, workVars
<1>2. /\ IInv /\ CallTypeOK /\ Turns /\ Places(q, a, b, d, k) /\ Chain(q, a, b, d)
      /\ Contents(q, a, b) /\ Counted(a, b) /\ Cutoff(q, a, b, d, k) /\ Order(q, a, b)
  BY Zenon, BeforeParts
<1> PICK x, y : x = link[w] /\ y = item[w]
  BY Zenon
<1>3. Pending(q, a, b, x, y) /\ next' = [next EXCEPT ![x] = y]
  BY Zenon, <1>1, <1>2 DEF Chain
<1>4. /\ next'[q[b]] = None
      /\ \A i \in a .. b : i < b => next'[q[i]] \in {q[i + 1], None}
      /\ \A u, v : u # x /\ Pending(q, a, b, u, v) => Pending(q, a, b, u, v)'
  BY Zenon, <1>2, <1>3, Linked
<1>5. ASSUME NEW v \in Writer, up'[v] = "link" PROVE Pending(q, a, b, link[v], item[v])'
  <2>1. v # w /\ up[v] = "link"
    BY Zenon, <1>1, <1>2, <1>5 DEF CallTypeOK
  <2> PICK u, z : u = link[v] /\ z = item[v]
    BY Zenon
  <2>2. Pending(q, a, b, u, z) /\ z # y
    BY Zenon, <1>1, <1>2, <2>1 DEF Chain, Contents
  <2>3. u # x
    BY Zenon, <1>2, <1>3, <2>2, PendingOther
  <2> QED BY Zenon, <1>1, <1>4, <2>2, <2>3
<1>6. relink' # None => Pending(q, a, b, relink, Dummy)'
  <2> SUFFICES ASSUME relink' # None PROVE Pending(q, a, b, relink, Dummy)'
    BY Zenon
  <2> PICK u : u = relink
    BY Zenon
  <2>1. Pending(q, a, b, u, Dummy) /\ Dummy # y
    BY Zenon, <1>1, <1>2, <1>3, NodeAssumption DEF Chain, CallTypeOK
  <2>2. u # x
    BY Zenon, <1>2, <1>3, <2>1, PendingOther
  <2> QED BY Zenon, <1>1, <1>4, <2>1, <2>2
<1>7. Chain(q, a, b, d)'
  BY Zenon, <1>1, <1>2, <1>4, <1>5, <1>6 DEF Chain
<1>8. Contents(q, a, b)'
  BY <1>1, <1>2, ThreadAssumption DEF Contents, Queued, CallTypeOK
<1>9. Counted(a, b)' /\ Cutoff(q, a, b, d, k)'
  <2>1. Uncounted' = Uncounted
    BY Zenon, <1>1, <1>2 DEF Uncounted, CallTypeOK
  <2> QED BY Zenon, <2>1, <1>1, <1>2 DEF Counted, Cutoff, Left
<1>10. Order(q, a, b)'
  BY <1>1, <1>2, ThreadAssumption DEF Order, DrainedInOrder, CallTypeOK
<1> QED BY Zenon, <1>7, <1>8, <1>9, <1>10, QueueBuild

\* A call is counted after its node got its place.
LEMMA CountQueue ==
  ASSUME NEW q, NEW a, NEW b, NEW d, NEW k, Before(q, a, b, d, k),
         NEW w \in Writer, Count(w)
  PROVE  Queue(q, a, b, d, k)'
<1> USE ThreadAssumption
<1>1. /\ UNCHANGED <<head, tail, next, n, node, relink, call, item, link, drained, mine, freed, batch, retired>>
      /\ up[w] = "count" /\ up' = [up EXCEPT ![w] = "ready"]
      /\ rcu_call_count' = rcu_call_count + 1
  BY Zenon DEF Count, Moves, rcuVars, objectVars, workVars
<1>2. /\ IInv /\ CallTypeOK /\ Turns /\ Places(q, a, b, d, k) /\ Chain(q, a, b, d)
      /\ Contents(q, a, b) /\ Counted(a, b) /\ Cutoff(q, a, b, d, k) /\ Order(q, a, b)
  BY Zenon, BeforeParts
<1>3. Chain(q, a, b, d)' /\ Cutoff(q, a, b, d, k)'
  BY Zenon, <1>1, <1>2 DEF Chain, Pending, Cutoff, Left, CallTypeOK
<1>4. Contents(q, a, b)'
  BY <1>1, <1>2 DEF Contents, Queued, CallTypeOK
<1>5. Counted(a, b)'
  <2>1. Uncounted' = Uncounted \ {w} /\ w \in Uncounted
    BY Zenon, <1>1, <1>2 DEF Uncounted, CallTypeOK
  <2>2. Cardinality(Uncounted') = Cardinality(Uncounted) - 1 /\ Cardinality(Uncounted) \in Nat
    BY Zenon, <2>1, BeforeCounts
  <2> QED BY <2>2, <1>1, <1>2 DEF Counted, Left, CallTypeOK, Places
<1>6. Order(q, a, b)'
  BY <1>1, <1>2 DEF Order, DrainedInOrder, CallTypeOK
<1> QED BY Zenon, <1>3, <1>4, <1>5, <1>6, QueueBuild

\* The other steps of a writer change neither the queue nor what is counted:
\* the end of call_rcu1, and drain_call_rcu outside it.
LEMMA WriterQueue ==
  ASSUME NEW q, NEW a, NEW b, NEW d, NEW k, Before(q, a, b, d, k),
         (\E w \in Writer : Ready(w)) \/ drain_call_rcu \/ DrainWait \/ DrainLock
  PROVE  Queue(q, a, b, d, k)'
<1> USE ThreadAssumption, NodeAssumption, ObjectAssumption
<1>1. /\ IInv /\ CallTypeOK /\ Turns /\ Places(q, a, b, d, k) /\ Chain(q, a, b, d)
      /\ Contents(q, a, b) /\ Counted(a, b) /\ Cutoff(q, a, b, d, k) /\ Order(q, a, b)
  BY Zenon, BeforeParts
<1>2. UNCHANGED <<head, tail, next, rcu_call_count, n, node, relink, call, drained, mine, freed, batch, retired>>
  BY Zenon DEF Ready, drain_call_rcu, DrainWait, DrainLock, rcuVars, objectVars, workVars, queueVars
<1>3. ASSUME NEW w \in Writer, Ready(w)
      PROVE  Queue(q, a, b, d, k)'
  <2>1. /\ up[w] = "ready" /\ up' = [up EXCEPT ![w] = IF item[w] \in Drain THEN "drain" ELSE "idle"]
        /\ item' = [item EXCEPT ![w] = IF item[w] \in Drain THEN item[w] ELSE None]
        /\ link' = [link EXCEPT ![w] = None]
    BY Zenon, <1>3, <1>1 DEF Ready, Moves, CallTypeOK
  <2>2. Uncounted' = Uncounted
    BY Zenon, <2>1, <1>1 DEF Uncounted, CallTypeOK
  <2>3. Chain(q, a, b, d)' /\ Cutoff(q, a, b, d, k)' /\ Counted(a, b)'
    <3>1. Chain(q, a, b, d)'
      BY <1>1, <1>2, <2>1, <2>2 DEF Chain, Pending, CallTypeOK
    <3>2. Cutoff(q, a, b, d, k)' /\ Counted(a, b)'
      BY Zenon, <1>1, <1>2, <2>1, <2>2 DEF Cutoff, Counted, Left
    <3> QED BY Zenon, <3>1, <3>2
  <2>4. /\ \A v \in Writer : v # w => up'[v] = up[v] /\ item'[v] = item[v]
        /\ up'[w] = (IF item[w] \in Drain THEN "drain" ELSE "idle")
        /\ item'[w] = (IF item[w] \in Drain THEN item[w] ELSE None)
    BY Zenon, <1>1, <2>1 DEF CallTypeOK
  <2>5. Contents(q, a, b)'
    <3>1. \A x : Queued(x) => Queued(x)'
      BY Zenon, <1>2, <2>1, <2>4 DEF Queued
    <3>2. \A v \in Writer : up'[v] \in {"enqueue", "link"} => v # w
      BY Zenon, <2>4
    <3> QED BY Zenon, <3>1, <3>2, <2>4, <1>1, <1>2 DEF Contents
  <2>6. Order(q, a, b)'
    <3>1. None \notin drained /\ Order(q, a, b)
      BY Zenon, <1>1 DEF CallTypeOK
    <3>2. /\ item'[Main] \in drained => item[Main] \in drained
          /\ (up[Main] = "enqueue" => up'[Main] = "enqueue" /\ item'[Main] = item[Main])
      BY Zenon, <3>1, <2>1, <2>4
    <3>3. up'[Main] = "relock" => up[Main] = "relock"
      BY Zenon, <2>4
    <3> QED BY Zenon, <3>1, <3>2, <3>3, <1>2 DEF Order, DrainedInOrder
  <2> QED BY Zenon, <2>3, <2>5, <2>6, QueueBuild
<1>4. CASE drain_call_rcu
  <2>1. PICK x \in Drain : x \notin drained /\ item' = [item EXCEPT ![Main] = x]
    BY Zenon, <1>4 DEF drain_call_rcu
  <2>2. up[Main] = "idle" /\ up' = [up EXCEPT ![Main] = "enqueue"] /\ UNCHANGED link
    BY Zenon, <1>4 DEF drain_call_rcu, Moves
  <2>3. Uncounted' = Uncounted
    BY Zenon, <2>2, <1>1 DEF Uncounted, CallTypeOK
  <2>4. Chain(q, a, b, d)' /\ Cutoff(q, a, b, d, k)' /\ Counted(a, b)'
    <3>1. Chain(q, a, b, d)'
      BY <1>1, <1>2, <2>1, <2>2, <2>3 DEF Chain, Pending, CallTypeOK
    <3>2. Cutoff(q, a, b, d, k)' /\ Counted(a, b)'
      BY Zenon, <1>1, <1>2, <2>1, <2>2, <2>3 DEF Cutoff, Counted, Left
    <3> QED BY Zenon, <3>1, <3>2
  <2>5. \A i \in a .. b : q[i] \notin Drain
    BY Zenon, <1>1, <2>2 DEF Contents, Queued
  <2>6. ASSUME NEW v \in Writer, up[v] \in {"enqueue", "link"} PROVE item[v] # x
    <3>1. CASE up[v] = "enqueue"
      BY Zenon, <3>1, <2>1, <2>2, <1>1 DEF Contents
    <3>2. CASE up[v] = "link"
      <4>1. PICK i \in a .. b : i < b /\ q[i + 1] = item[v]
        BY Zenon, <3>2, <1>1 DEF Chain, Pending
      <4>2. a \in Nat /\ b \in Nat
        BY Zenon, <1>1 DEF Places
      <4>3. i + 1 \in a .. b
        BY <4>1, <4>2
      <4> QED BY Zenon, <4>1, <4>3, <2>1, <2>5
    <3> QED BY Zenon, <3>1, <3>2, <2>6
  <2>7. node \notin Drain
    BY Zenon, <1>1, <2>2 DEF Contents, Queued
  <2>8. Contents(q, a, b)'
    <3>1. /\ \A v \in Writer : v # Main => up'[v] = up[v] /\ item'[v] = item[v]
          /\ up'[Main] = "enqueue" /\ item'[Main] = x /\ x # None
      BY Zenon, <1>1, <2>1, <2>2 DEF CallTypeOK
    <3>2. \A i \in a .. b : Queued(q[i])' /\ q[i] # node'
      BY Zenon, <1>1, <1>2, <2>5 DEF Contents, Queued
    <3>3. Queued(node)'
      BY Zenon, <1>1, <1>2, <2>7 DEF Contents, Queued
    <3>4. ASSUME NEW v \in Writer, up'[v] = "enqueue"
          PROVE  /\ item'[v] # None /\ item'[v] # node'
                 /\ item'[v] \in Object => item'[v] \in retired' \ freed'
                 /\ item'[v] \in Drain => v = Main /\ item'[v] \notin drained'
                 /\ \A i \in a .. b : q[i] # item'[v]
      <4>1. CASE v = Main
        BY Zenon, <4>1, <3>1, <1>2, <2>1, <2>5, <2>7
      <4>2. CASE v # Main
        BY Zenon, <4>2, <3>1, <3>4, <1>1, <1>2 DEF Contents
      <4> QED BY Zenon, <4>1, <4>2
    <3>5. ASSUME NEW v \in Writer, NEW w \in Writer, up'[v] \in {"enqueue", "link"},
                 up'[w] \in {"enqueue", "link"}, item'[v] = item'[w]
          PROVE  v = w
      BY ZenonT(30), <3>5, <3>1, <2>6, <1>1 DEF Contents
    <3> QED BY Zenon, <3>2, <3>3, <3>4, <3>5 DEF Contents
  <2>9. Order(q, a, b)'
    <3>1. Order(q, a, b) /\ up'[Main] = "enqueue" /\ item'[Main] = x /\ up[Main] # "enqueue"
      BY Zenon, <1>1, <2>1, <2>2 DEF CallTypeOK
    <3> QED BY Zenon, <3>1, <1>2, <2>1 DEF Order, DrainedInOrder
  <2> QED BY Zenon, <2>4, <2>8, <2>9, QueueBuild
<1>5. CASE DrainWait
  <2>1. /\ up[Main] = "drain" /\ up' = [up EXCEPT ![Main] = "relock"] /\ UNCHANGED link
        /\ item' = [item EXCEPT ![Main] = None] /\ item[Main] \in drained
    BY Zenon, <1>5 DEF DrainWait, Moves
  <2>2. Uncounted' = Uncounted
    BY Zenon, <2>1, <1>1 DEF Uncounted, CallTypeOK
  <2>3. Chain(q, a, b, d)' /\ Cutoff(q, a, b, d, k)' /\ Counted(a, b)'
    <3>1. Chain(q, a, b, d)'
      BY <1>1, <1>2, <2>1, <2>2 DEF Chain, Pending, CallTypeOK
    <3>2. Cutoff(q, a, b, d, k)' /\ Counted(a, b)'
      BY Zenon, <1>1, <1>2, <2>1, <2>2 DEF Cutoff, Counted, Left
    <3> QED BY Zenon, <3>1, <3>2
  <2>4. Contents(q, a, b)'
    <3>1. /\ \A v \in Writer : v # Main => up'[v] = up[v] /\ item'[v] = item[v]
          /\ up'[Main] = "relock"
      BY Zenon, <1>1, <2>1 DEF CallTypeOK
    <3>2. \A x : Queued(x) => Queued(x)'
      BY Zenon, <1>2, <2>1 DEF Queued
    <3>3. \A v \in Writer : up'[v] \in {"enqueue", "link"} => v # Main
      BY Zenon, <3>1
    <3> QED BY Zenon, <3>1, <3>2, <3>3, <1>1, <1>2 DEF Contents
  <2>5. Order(q, a, b)'
    BY Zenon, <1>1, <1>2, <2>1 DEF Order, DrainedInOrder, CallTypeOK
  <2> QED BY Zenon, <2>3, <2>4, <2>5, QueueBuild
<1>6. CASE DrainLock
  <2>1. up[Main] = "relock" /\ up' = [up EXCEPT ![Main] = "idle"] /\ UNCHANGED <<link, item>>
    BY Zenon, <1>6 DEF DrainLock, Moves
  <2>2. Uncounted' = Uncounted
    BY Zenon, <2>1, <1>1 DEF Uncounted, CallTypeOK
  <2>3. Chain(q, a, b, d)' /\ Cutoff(q, a, b, d, k)' /\ Counted(a, b)'
    <3>1. Chain(q, a, b, d)'
      BY <1>1, <1>2, <2>1, <2>2 DEF Chain, Pending, CallTypeOK
    <3>2. Cutoff(q, a, b, d, k)' /\ Counted(a, b)'
      BY Zenon, <1>1, <1>2, <2>1, <2>2 DEF Cutoff, Counted, Left
    <3> QED BY Zenon, <3>1, <3>2
  <2>4. Contents(q, a, b)' /\ Order(q, a, b)'
    <3>1. /\ \A v \in Writer : v # Main => up'[v] = up[v]
          /\ up'[Main] = "idle"
      BY Zenon, <1>1, <2>1 DEF CallTypeOK
    <3>2. \A x : Queued(x) => Queued(x)'
      BY Zenon, <1>2, <2>1 DEF Queued
    <3>3. \A v \in Writer : up'[v] \in {"enqueue", "link"} => v # Main
      BY Zenon, <3>1
    <3>4. Contents(q, a, b)'
      BY Zenon, <3>1, <3>2, <3>3, <1>1, <1>2, <2>1 DEF Contents
    <3>5. Order(q, a, b)'
      BY Zenon, <3>1, <1>1, <1>2, <2>1 DEF Order, DrainedInOrder
    <3> QED BY Zenon, <3>4, <3>5
  <2> QED BY Zenon, <2>3, <2>4, QueueBuild
<1> QED BY Zenon, <1>3, <1>4, <1>5, <1>6

-----------------------------------------------------------------------------
\* try_dequeue takes a node out only when it knows the next one, so no store
\* into it is due.
LEMMA FirstLinked ==
  ASSUME NEW q, NEW a, NEW b, NEW d, NEW k, Places(q, a, b, d, k), Chain(q, a, b, d),
         next[head] # None
  PROVE  /\ a < b /\ next[head] = q[a + 1]
         /\ \A u, v : Pending(q, a, b, u, v) => Pending(q, a + 1, b, u, v)
<1>1. a \in Nat /\ b \in Nat /\ a <= b /\ head = q[a]
  BY Zenon DEF Places, Chain
<1>2. a < b
  <2>1. a # b
    BY Zenon, <1>1 DEF Chain
  <2> QED BY <2>1, <1>1
<1>3. next[head] = q[a + 1]
  <2>1. a \in a .. b
    BY <1>1
  <2> QED BY Zenon, <2>1, <1>1, <1>2 DEF Chain
<1>4. ASSUME NEW u, NEW v, Pending(q, a, b, u, v) PROVE Pending(q, a + 1, b, u, v)
  <2>1. PICK i \in a .. b : i < b /\ q[i] = u /\ q[i + 1] = v /\ next[u] = None
    BY Zenon, <1>4 DEF Pending
  <2>2. i # a
    BY Zenon, <2>1, <1>1
  <2>3. i \in a + 1 .. b
    BY <2>1, <2>2, <1>1
  <2> QED BY Zenon, <2>1, <2>3 DEF Pending
<1> QED BY Zenon, <1>2, <1>3, <1>4

\* The dummy goes to a new place at the end, behind the round.
LEMMA DummyQueue ==
  ASSUME NEW q, NEW a, NEW b, NEW d, NEW k, Before(q, a, b, d, k), TryDummy
  PROVE  /\ Queue([q EXCEPT ![b + 1] = Dummy], a + 1, b + 1, b + 1, k)'
         /\ Places([q EXCEPT ![b + 1] = Dummy], a + 1, b + 1, b + 1, k)
         /\ call' = call
<1> USE NodeAssumption, ObjectAssumption, ThreadAssumption
<1>1. /\ UNCHANGED <<rcu_call_count, n, node, up, item, link, drained, mine, freed, batch, retired>>
      /\ Tries /\ relink = None /\ head = Dummy /\ next[head] # None
      /\ head' = next[head] /\ next' = [next EXCEPT ![Dummy] = None]
      /\ relink' = tail /\ tail' = Dummy
      /\ call' = IF tail = Dummy THEN "abort" ELSE call
  BY Zenon DEF TryDummy, rcuVars, objectVars, writerVars
<1>2. /\ IInv /\ CallTypeOK /\ Turns /\ Places(q, a, b, d, k) /\ Chain(q, a, b, d)
      /\ Contents(q, a, b) /\ Counted(a, b) /\ Cutoff(q, a, b, d, k) /\ Order(q, a, b)
  BY Zenon, BeforeParts
<1>3. /\ a < b /\ next[head] = q[a + 1]
      /\ \A u, v : Pending(q, a, b, u, v) => Pending(q, a + 1, b, u, v)
  BY Zenon, <1>1, <1>2, FirstLinked
<1> DEFINE r == [q EXCEPT ![b + 1] = Dummy]
<1>4. /\ a \in Nat /\ b \in Nat /\ a <= b /\ d \in a .. b /\ k \in Int
      /\ r \in [Nat -> Node] /\ r[b + 1] = Dummy /\ \A i \in a .. b : r[i] = q[i]
  <2>1. /\ q \in [Nat -> Node] /\ a \in Nat /\ b \in Nat /\ a <= b /\ d \in a .. b /\ k \in Int
        /\ Dummy \in Node
    BY Zenon, <1>2 DEF Places, Node
  <2> QED BY <2>1
<1> HIDE DEF r
<1>5. Places(r, a + 1, b + 1, b + 1, k)
  <2>1. r \in [Nat -> Node] /\ a \in Nat /\ b \in Nat /\ k \in Int /\ a < b
    BY Zenon, <1>3, <1>4
  <2> QED BY <2>1 DEF Places
<1>6. d = a /\ \A i \in a + 1 .. b : q[i] # Dummy
  BY <1>1, <1>2, <1>4 DEF Chain
<1>7. call' = call
  BY Zenon, <1>1, <1>2, <1>3, <1>4, <1>6 DEF Chain
<1>8. \A i \in a + 1 .. b : r[i] \in Node /\ next'[r[i]] = next[q[i]]
  <2>1. ASSUME NEW i \in a + 1 .. b PROVE i \in Nat /\ i \in a .. b
    BY <1>4
  <2>2. \A i \in a + 1 .. b : r[i] = q[i] /\ r[i] \in Node /\ r[i] # Dummy
    BY Zenon, <2>1, <1>4, <1>6
  <2>3. next \in [Node -> Node \cup {None}] /\ next' = [next EXCEPT ![Dummy] = None]
    BY Zenon, <1>1, <1>2 DEF CallTypeOK
  <2> QED BY Zenon, <2>2, <2>3
<1>9. Chain(r, a + 1, b + 1, b + 1)'
  <2>1. \A i, j \in a + 1 .. b + 1 : r[i] = r[j] => i = j
    BY <1>2, <1>4, <1>6 DEF Chain
  <2>2. next'[r[b + 1]] = None
    BY Zenon, <1>1, <1>2, <1>4 DEF CallTypeOK, Node
  <2>3. \A i \in a + 1 .. b + 1 : i < b + 1 => next'[r[i]] \in {r[i + 1], None}
    BY <1>2, <1>4, <1>8 DEF Chain
  <2>4. ASSUME NEW y, NEW z, Pending(q, a + 1, b, y, z)
        PROVE  Pending(r, a + 1, b + 1, y, z)'
    BY <2>4, <1>4, <1>8 DEF Pending
  <2>5. ASSUME NEW v \in Writer, up'[v] = "link"
        PROVE  Pending(r, a + 1, b + 1, link[v], item[v])'
    <3> PICK u, z : u = link[v] /\ z = item[v]
      BY Zenon
    <3>1. Pending(q, a, b, u, z)
      BY Zenon, <2>5, <1>1, <1>2 DEF Chain
    <3> QED BY Zenon, <3>1, <2>4, <1>1, <1>3
  <2>6. Pending(r, a + 1, b + 1, relink, Dummy)'
    <3>1. relink' = r[b] /\ next'[r[b]] = None /\ b \in a + 1 .. b + 1
      <4>1. a \in Nat /\ b \in Nat /\ a < b
        BY Zenon, <1>3, <1>4
      <4>2. b \in a .. b /\ b \in a + 1 .. b /\ b \in a + 1 .. b + 1
        BY <4>1
      <4> QED BY Zenon, <4>2, <1>1, <1>2, <1>4, <1>8 DEF Chain
    <3> QED BY <3>1, <1>4 DEF Pending
  <2>7. head' = r[a + 1] /\ tail' = r[b + 1]
    <3>1. a \in Nat /\ b \in Nat /\ a < b
      BY Zenon, <1>3, <1>4
    <3>2. a + 1 \in a .. b
      BY <3>1
    <3> QED BY Zenon, <3>2, <1>1, <1>3, <1>4
  <2> QED BY Zenon, <2>1, <2>2, <2>3, <2>5, <2>6, <2>7, <1>4 DEF Chain
<1>10. Contents(r, a + 1, b + 1)'
  <2>1. Contents(q, a, b) /\ node # Dummy
    BY Zenon, <1>2 DEF CallTypeOK
  <2>2. \A i \in a + 1 .. b + 1 : r[i] = Dummy \/ (i \in a .. b /\ r[i] = q[i])
    <3>1. a \in Nat /\ b \in Nat /\ r[b + 1] = Dummy /\ \A j \in a .. b : r[j] = q[j]
      BY Zenon, <1>4
    <3> QED BY <3>1
  <2>3. ASSUME NEW w \in Writer, up[w] = "enqueue" PROVE item[w] # Dummy
    BY Zenon, <1>2 DEF CallTypeOK
  <2>4. Queued(Dummy)' /\ \A x : Queued(x) => Queued(x)'
    BY Zenon, <1>1 DEF Queued
  <2> QED BY Zenon, <2>1, <2>2, <2>3, <2>4, <1>1 DEF Contents
<1>11. Counted(a + 1, b + 1)'
  <2>1. Uncounted' = Uncounted /\ Cardinality(Uncounted) \in Nat
    BY Zenon, <1>1, BeforeCounts DEF Uncounted
  <2>2. Left' = Left /\ rcu_call_count' = rcu_call_count
    BY Zenon, <1>1 DEF Left
  <2>3. (b + 1) - (a + 1) = b - a
    <3>1. a \in Nat /\ b \in Nat
      BY Zenon, <1>4
    <3> QED BY <3>1
  <2> QED BY Zenon, <2>1, <2>2, <2>3, <1>2 DEF Counted
<1>12. Cutoff(r, a + 1, b + 1, b + 1, k)'
  <2>1. node = None /\ n > 0 /\ call \in Round
    BY ZenonT(30), <1>1, <1>2 DEF Tries, Turns, Round, Over
  <2>2. k <= b /\ a <= k /\ k - a >= n
    <3>1. /\ k <= b /\ k - a + 1 >= n + (IF a <= k THEN 1 ELSE 0)
          /\ n \in Nat /\ n > 0
      BY Zenon, <2>1, <1>2, <1>6 DEF Cutoff, Left, CallTypeOK
    <3>2. a \in Nat /\ b \in Nat /\ k \in Int
      BY Zenon, <1>4
    <3> QED BY <3>1, <3>2
  <2>3. \A i \in a + 1 .. b + 1 : i <= k => r[i] \in batch \cup Drain \cup {Dummy}
    <3>1. a \in Nat /\ b \in Nat /\ r[b + 1] = Dummy /\ \A i \in a .. b : r[i] = q[i]
      BY Zenon, <1>4
    <3>2. \A i \in a + 1 .. b + 1 : i \in a .. b \/ i = b + 1
      BY <3>1
    <3> QED BY Zenon, <3>1, <3>2, <2>1, <1>2 DEF Cutoff
  <2>4. k <= b + 1 /\ k - (a + 1) + 1 >= n + (IF b + 1 <= k THEN 1 ELSE 0)
    <3>1. a \in Nat /\ b \in Nat /\ k \in Int /\ n \in Nat
      BY Zenon, <1>2, <1>4 DEF CallTypeOK
    <3> QED BY <3>1, <2>2
  <2>5. Left' = n /\ node' = None /\ batch' = batch
    BY Zenon, <2>1, <1>1 DEF Left
  <2> QED BY Zenon, <2>3, <2>4, <2>5 DEF Cutoff
<1>13. Order(r, a + 1, b + 1)'
  <2>1. Order(q, a, b) /\ mine \subseteq Object
    BY ZenonT(30), <1>2, ObjectsTyped DEF CallTypeOK
  <2>2. ASSUME NEW y \in mine, NEW i \in a .. b, q[i] = y, \A j \in a .. b : q[j] \in Drain => i < j
        PROVE  /\ i \in a + 1 .. b + 1 /\ r[i] = y
               /\ \A j \in a + 1 .. b + 1 : r[j] \in Drain => i < j
    <3>1. a \in Nat /\ b \in Nat /\ r[b + 1] = Dummy /\ \A j \in a .. b : r[j] = q[j]
      BY Zenon, <1>4
    <3>2. i # a
      BY Zenon, <2>1, <2>2, <1>1, <1>2 DEF Chain
    <3>3. /\ i \in a + 1 .. b + 1
          /\ \A j \in a + 1 .. b + 1 : j \in a .. b \/ j = b + 1
      BY <3>1, <3>2
    <3> QED BY Zenon, <3>1, <3>3, <2>2
  <2>3. \A y \in mine :
         \/ y \in freed \/ y = node \/ (up[Main] = "enqueue" /\ item[Main] = y)
         \/ \E i \in a + 1 .. b + 1 : r[i] = y /\ \A j \in a + 1 .. b + 1 : r[j] \in Drain => i < j
    BY Zenon, <2>1, <2>2 DEF Order
  <2> QED BY Zenon, <2>1, <2>3, <1>1 DEF Order, DrainedInOrder
<1> QED BY Zenon, <1>5, <1>7, <1>9, <1>10, <1>11, <1>12, <1>13, QueueBuild DEF r

\* The link of the dummy, as that of any node.
LEMMA RelinkQueue ==
  ASSUME NEW q, NEW a, NEW b, NEW d, NEW k, Before(q, a, b, d, k), TryRelink
  PROVE  Queue(q, a, b, d, k)'
<1>1. /\ UNCHANGED <<head, tail, rcu_call_count, n, node, call, up, item, link, drained, mine, freed, batch, retired>>
      /\ relink # None /\ relink' = None
      /\ next' = [next EXCEPT ![relink] = Dummy]
  BY Zenon DEF TryRelink, rcuVars, objectVars, writerVars
<1>2. /\ IInv /\ CallTypeOK /\ Turns /\ Places(q, a, b, d, k) /\ Chain(q, a, b, d)
      /\ Contents(q, a, b) /\ Counted(a, b) /\ Cutoff(q, a, b, d, k) /\ Order(q, a, b)
  BY Zenon, BeforeParts
<1> PICK x : x = relink
  BY Zenon
<1>3. Pending(q, a, b, x, Dummy) /\ next' = [next EXCEPT ![x] = Dummy]
  BY Zenon, <1>1, <1>2 DEF Chain
<1>4. /\ next'[q[b]] = None
      /\ \A i \in a .. b : i < b => next'[q[i]] \in {q[i + 1], None}
      /\ \A u, v : u # x /\ Pending(q, a, b, u, v) => Pending(q, a, b, u, v)'
  BY Zenon, <1>2, <1>3, Linked
<1>5. ASSUME NEW v \in Writer, up'[v] = "link" PROVE Pending(q, a, b, link[v], item[v])'
  <2> PICK u, z : u = link[v] /\ z = item[v]
    BY Zenon
  <2>1. Pending(q, a, b, u, z) /\ z # Dummy
    BY Zenon, <1>1, <1>2, <1>5, NodeAssumption DEF Chain, CallTypeOK
  <2>2. u # x
    BY Zenon, <1>2, <1>3, <2>1, PendingOther
  <2> QED BY Zenon, <1>1, <1>4, <2>1, <2>2
<1>6. Chain(q, a, b, d)'
  BY Zenon, <1>1, <1>2, <1>4, <1>5 DEF Chain
<1>7. Contents(q, a, b)' /\ Order(q, a, b)'
  BY Zenon, <1>1, <1>2 DEF Contents, Queued, Order, DrainedInOrder
<1>8. Counted(a, b)' /\ Cutoff(q, a, b, d, k)'
  BY Zenon, <1>1, <1>2 DEF Counted, Uncounted, Cutoff, Left
<1> QED BY Zenon, <1>6, <1>7, <1>8, QueueBuild

\* The callback of a node of the round reclaims an object of the batch, or
\* tells a drain.
LEMMA Invoked ==
  ASSUME CallTypeOK, NEW x \in Object \cup Drain, Invoke(x), sync = "done",
         x \in batch \cup Drain, x \in Object => x \notin freed, n > 0
  PROVE  /\ n' = n - 1 /\ UNCHANGED <<retired, batch, up, item, link, mine, sync, pointer>>
         /\ freed' = freed \cup ({x} \ Drain) /\ drained' = drained \cup ({x} \cap Drain)
         /\ Reclaim(x) \/ UNCHANGED rcuVars
<1>1. n' = n - 1 /\ UNCHANGED <<retired, batch, up, item, link, mine, sync, pointer>>
  BY Zenon DEF Invoke, syncVars
<1>2. CASE x \in Drain
  BY Zenon, <1>1, <1>2 DEF Invoke, rcuVars, objectVars
<1>3. CASE x \notin Drain
  BY Zenon, <1>1, <1>3 DEF Invoke, Reclaim
<1> QED BY Zenon, <1>1, <1>2, <1>3

\* The first node as it is taken out in the round: it belongs to the batch.
LEMMA FirstOfRound ==
  ASSUME NEW q, NEW a, NEW b, NEW d, NEW k, Before(q, a, b, d, k), TryNode
  PROVE  /\ node = None /\ n > 0 /\ call \in Round /\ sync = "done"
         /\ a < b /\ head = q[a] /\ head' = q[a + 1] /\ d \in a + 1 .. b /\ a <= k
         /\ head \in Object \cup Drain /\ head \in batch \cup Drain /\ Queued(head)
         /\ \A u, v : Pending(q, a, b, u, v) => Pending(q, a + 1, b, u, v)
         /\ k - a + 1 >= n + (IF d <= k THEN 1 ELSE 0)
<1> USE NodeAssumption, ObjectAssumption
<1>1. Tries /\ head # Dummy /\ next[head] # None /\ head' = next[head]
  BY Zenon DEF TryNode
<1>2. /\ IInv /\ CallTypeOK /\ Turns /\ Places(q, a, b, d, k) /\ Chain(q, a, b, d)
      /\ Contents(q, a, b) /\ Counted(a, b) /\ Cutoff(q, a, b, d, k) /\ Order(q, a, b)
  BY Zenon, BeforeParts
<1>3. /\ a < b /\ next[head] = q[a + 1]
      /\ \A u, v : Pending(q, a, b, u, v) => Pending(q, a + 1, b, u, v)
  BY Zenon, <1>1, <1>2, FirstLinked
<1>4. node = None /\ n > 0 /\ call \in Round /\ sync = "done"
  BY Zenon, <1>1, <1>2 DEF Tries, Turns, Round, Over
<1>5. head = q[a] /\ d \in a + 1 .. b /\ head \in Object \cup Drain /\ Queued(head)
  <2>1. /\ head = q[a] /\ q[d] = Dummy /\ \A i, j \in a .. b : q[i] = q[j] => i = j
        /\ \A i \in a .. b : Queued(q[i])
    BY Zenon, <1>2 DEF Chain, Contents
  <2>2. q \in [Nat -> Node] /\ a \in Nat /\ b \in Nat /\ d \in a .. b
    BY Zenon, <1>2 DEF Places
  <2>3. a \in a .. b
    BY <1>3, <2>2
  <2>4. head \in Node /\ head # Dummy /\ Queued(head) /\ d # a
    BY Zenon, <1>1, <2>1, <2>2, <2>3
  <2>5. d \in a + 1 .. b
    BY <2>2, <2>4
  <2> QED BY Zenon, <2>1, <2>4, <2>5 DEF Node
<1>6. k - a + 1 >= n + (IF d <= k THEN 1 ELSE 0) /\ n \in Nat
  BY Zenon, <1>2, <1>4 DEF Cutoff, Left, CallTypeOK
<1>7. a <= k
  <2>1. a \in Nat /\ k \in Int
    BY Zenon, <1>2 DEF Places
  <2>2. n \in Nat /\ n > 0 /\ k - a + 1 >= n + (IF d <= k THEN 1 ELSE 0)
    BY Zenon, <1>4, <1>6
  <2> QED BY <2>1, <2>2
<1>8. head \in batch \cup Drain
  <2>1. a \in Nat /\ b \in Nat /\ a <= b
    BY Zenon, <1>2 DEF Places
  <2>2. a \in a .. b
    BY <2>1
  <2> QED BY Zenon, <2>2, <1>1, <1>2, <1>4, <1>5, <1>7 DEF Cutoff
<1> QED BY Zenon, <1>1, <1>3, <1>4, <1>5, <1>6, <1>7, <1>8

\* A node is taken out, and its callback runs at once or when the bql is held
\* again.
LEMMA NodeQueue ==
  ASSUME NEW q, NEW a, NEW b, NEW d, NEW k, Before(q, a, b, d, k), TryNode
  PROVE  /\ Queue(q, a + 1, b, d, k)' /\ Places(q, a + 1, b, d, k)
         /\ (\E x \in Object : Reclaim(x)) \/ UNCHANGED rcuVars
<1> USE NodeAssumption, ObjectAssumption, ThreadAssumption
<1> PICK x : x = head
  BY Zenon
<1>1. /\ IInv /\ CallTypeOK /\ Turns /\ Places(q, a, b, d, k) /\ Chain(q, a, b, d)
      /\ Contents(q, a, b) /\ Counted(a, b) /\ Cutoff(q, a, b, d, k) /\ Order(q, a, b)
      /\ mine \subseteq Object
  BY Zenon, BeforeParts, ObjectsTyped DEF CallTypeOK
<1>2. /\ node = None /\ n > 0 /\ call \in Round /\ sync = "done"
      /\ a < b /\ x = q[a] /\ head' = q[a + 1] /\ d \in a + 1 .. b /\ a <= k
      /\ x \in Object \cup Drain /\ x \in batch \cup Drain /\ Queued(x)
      /\ \A u, v : Pending(q, a, b, u, v) => Pending(q, a + 1, b, u, v)
      /\ k - a + 1 >= n + (IF d <= k THEN 1 ELSE 0)
  BY Zenon, FirstOfRound
<1>3. a \in Nat /\ b \in Nat /\ k \in Int /\ n \in Nat /\ Places(q, a + 1, b, d, k)
  <2>1. /\ q \in [Nat -> Node] /\ a \in Nat /\ b \in Nat /\ k \in Int /\ n \in Nat
        /\ a < b /\ d \in a + 1 .. b
    BY Zenon, <1>1, <1>2 DEF Places, CallTypeOK
  <2> QED BY <2>1 DEF Places
<1>a. a \in a .. b /\ \A i \in a + 1 .. b : i \in a .. b /\ i # a /\ i \in Nat
  <2>1. a \in Nat /\ b \in Nat /\ a < b
    BY Zenon, <1>2, <1>3
  <2> QED BY <2>1
<1>4. \/ /\ node' = None /\ call' = call /\ n' = n - 1
         /\ freed' = freed \cup ({x} \ Drain) /\ drained' = drained \cup ({x} \cap Drain)
         /\ Reclaim(x) \/ UNCHANGED rcuVars
      \/ /\ node' = x /\ n' = n /\ UNCHANGED <<freed, drained, rcuVars>>
  <2>1. CASE call = "work"
    <3>1. Invoke(x) /\ UNCHANGED <<node, call>>
      BY Zenon, <2>1 DEF TryNode
    <3> QED BY Zenon, <3>1, <1>1, <1>2, Invoked DEF Queued
  <2>2. CASE call # "work"
    BY Zenon, <2>2, <1>2 DEF TryNode, rcuVars, objectVars, writerVars
  <2> QED BY Zenon, <2>1, <2>2
<1>5. UNCHANGED <<tail, next, rcu_call_count, relink, retired, batch, up, item, link, mine>>
  <2>1. CASE call = "work"
    BY Zenon, <2>1 DEF TryNode, Invoke
  <2>2. CASE call # "work"
    BY Zenon, <2>2 DEF TryNode, rcuVars, objectVars, writerVars
  <2> QED BY Zenon, <2>1, <2>2
<1>6. Chain(q, a + 1, b, d)'
  <2>1. ASSUME NEW u, NEW v, Pending(q, a, b, u, v) PROVE Pending(q, a + 1, b, u, v)'
    BY Zenon, <2>1, <1>2, <1>5 DEF Pending
  <2>2. ASSUME NEW v \in Writer, up'[v] = "link" PROVE Pending(q, a + 1, b, link[v], item[v])'
    <3> PICK u, z : u = link[v] /\ z = item[v]
      BY Zenon
    <3> QED BY Zenon, <2>1, <2>2, <1>1, <1>5 DEF Chain
  <2>3. relink = None
    BY Zenon DEF TryNode
  <2> QED BY Zenon, <2>2, <2>3, <1>a, <1>1, <1>2, <1>5 DEF Chain
<1>7. \A i \in a + 1 .. b : i \in a .. b /\ q[i] # x /\ Queued(q[i])
  BY Zenon, <1>a, <1>1, <1>2 DEF Chain, Contents
<1>8. Contents(q, a + 1, b)'
  <2>1. \A i \in a + 1 .. b : Queued(q[i])' /\ q[i] # node'
    <3> SUFFICES ASSUME NEW i \in a + 1 .. b PROVE Queued(q[i])' /\ q[i] # node'
      BY Zenon
    <3>1. q[i] \in Node /\ q[i] # x /\ Queued(q[i]) /\ None \notin Node
      BY Zenon, <1>1, <1>a, <1>7 DEF Places, Node
    <3>2. node' \in {None, x} /\ freed' \subseteq freed \cup {x} /\ drained' \subseteq drained \cup {x}
      BY Zenon, <1>4
    <3> QED BY Zenon, <3>1, <3>2, <1>5 DEF Queued
  <2>2. Queued(node)'
    BY Zenon, <1>2, <1>4, <1>5 DEF Queued
  <2>3. ASSUME NEW w \in Writer, up[w] = "enqueue"
        PROVE  /\ item[w] # None /\ item[w] # x
               /\ item[w] \in Object => item[w] \in retired \ freed
               /\ item[w] \in Drain => w = Main /\ item[w] \notin drained
               /\ \A i \in a + 1 .. b : q[i] # item[w]
    <3>1. x = q[a] /\ Contents(q, a, b)
      BY Zenon, <1>1, <1>2
    <3> QED BY Zenon, <3>1, <2>3, <1>a, <1>7 DEF Contents
  <2>4. ASSUME NEW w \in Writer, up[w] = "enqueue"
        PROVE  /\ item[w] # node'
               /\ item[w] \in Object => item[w] \in retired \ freed'
               /\ item[w] \in Drain => item[w] \notin drained'
    BY Zenon, <2>3, <2>4, <1>4
  <2>5. \A v, w \in Writer :
          up[v] \in {"enqueue", "link"} /\ up[w] \in {"enqueue", "link"} /\ item[v] = item[w] => v = w
    BY Zenon, <1>1 DEF Contents
  <2> QED BY Zenon, <2>1, <2>2, <2>3, <2>4, <2>5, <1>5 DEF Contents
<1>9. Counted(a + 1, b)'
  <2>1. Uncounted' = Uncounted /\ Cardinality(Uncounted) \in Nat
    BY Zenon, <1>5, BeforeCounts DEF Uncounted
  <2>2. Left = n /\ Left' = n - 1 /\ rcu_call_count' = rcu_call_count /\ rcu_call_count \in Nat
    BY Zenon, <1>1, <1>2, <1>4, <1>5 DEF Left, CallTypeOK
  <2>3. b - a >= Left + rcu_call_count + Cardinality(Uncounted)
    BY Zenon, <1>1 DEF Counted
  <2>4. a \in Nat /\ b \in Nat /\ n \in Nat
    BY Zenon, <1>3
  <2>5. b - (a + 1) >= (n - 1) + rcu_call_count + Cardinality(Uncounted)
    BY <2>1, <2>2, <2>3, <2>4
  <2> QED BY Zenon, <2>1, <2>2, <2>5 DEF Counted
<1>10. Cutoff(q, a + 1, b, d, k)'
  <2>1. k <= b /\ \A i \in a + 1 .. b : i <= k => q[i] \in batch \cup Drain \cup {Dummy}
    BY Zenon, <1>1, <1>2, <1>7 DEF Cutoff
  <2>2. Left' = n - 1
    BY Zenon, <1>2, <1>4 DEF Left
  <2>3. k - (a + 1) + 1 >= Left' + (IF d <= k THEN 1 ELSE 0)
    <3>1. a \in Nat /\ k \in Int /\ n \in Nat /\ k - a + 1 >= n + (IF d <= k THEN 1 ELSE 0)
      BY Zenon, <1>2, <1>3
    <3> QED BY <3>1, <2>2
  <2> QED BY Zenon, <2>1, <2>3, <1>2, <1>4, <1>5 DEF Cutoff
<1>11. Order(q, a + 1, b)'
  <2>1. Order(q, a, b)
    BY Zenon, <1>1
  <2>2. x \in Drain => mine \subseteq freed /\ item[Main] = x
    <3>1. a \in a .. b /\ \A i \in a .. b : ~(i < a)
      <4>1. a \in Nat /\ b \in Nat /\ a < b
        BY Zenon, <1>2, <1>3
      <4> QED BY <4>1
    <3>2. /\ x = q[a] /\ Queued(x) /\ node = None /\ None \notin mine
      BY Zenon, <1>1, <1>2
    <3> QED BY Zenon, <3>1, <3>2, <2>1 DEF Order, Queued
  <2>3. ASSUME NEW y \in mine, y \notin freed, y # x
        PROVE  \/ (up[Main] = "enqueue" /\ item[Main] = y)
               \/ \E i \in a + 1 .. b : q[i] = y /\ \A j \in a + 1 .. b : q[j] \in Drain => i < j
    <3>1. /\ y # node /\ x = q[a]
          /\ \A i \in a .. b : i = a \/ i \in a + 1 .. b
      <4>1. y # node /\ x = q[a] /\ a \in Nat /\ b \in Nat
        BY Zenon, <1>1, <1>2, <1>3
      <4> QED BY <4>1
    <3> QED BY Zenon, <3>1, <2>1, <2>3, <1>a DEF Order
  <2>4. ASSUME NEW y \in mine
        PROVE  \/ y \in freed' \/ y = node' \/ (up[Main] = "enqueue" /\ item[Main] = y)
               \/ \E i \in a + 1 .. b : q[i] = y /\ \A j \in a + 1 .. b : q[j] \in Drain => i < j
    BY Zenon, <2>3, <2>4, <1>1, <1>4
  <2>5. freed \subseteq freed'
    BY Zenon, <1>4
  <2>6. item[Main] \in drained' => mine \subseteq freed'
    <3>1. drained' \subseteq drained \cup ({x} \cap Drain)
      BY Zenon, <1>4
    <3> QED BY Zenon, <3>1, <2>1, <2>2, <2>5 DEF Order
  <2>7. node' \in Drain => mine \subseteq freed'
    BY Zenon, <2>2, <2>5, <1>4
  <2> QED BY Zenon, <2>1, <2>4, <2>5, <2>6, <2>7, <1>5 DEF Order, DrainedInOrder
<1>12. (\E y \in Object : Reclaim(y)) \/ UNCHANGED rcuVars
  BY Zenon, <1>1, <1>2, <1>4, ObjectsTyped DEF Reclaim
<1> QED BY Zenon, <1>3, <1>6, <1>8, <1>9, <1>10, <1>11, <1>12, QueueBuild

\* The callback of a node that was taken out without the bql.
LEMMA RelockQueue ==
  ASSUME NEW q, NEW a, NEW b, NEW d, NEW k, Before(q, a, b, d, k), CallRelock
  PROVE  /\ Queue(q, a, b, d, k)'
         /\ (\E x \in Object : Reclaim(x)) \/ UNCHANGED rcuVars
<1> USE NodeAssumption, ObjectAssumption, ThreadAssumption
<1>1. /\ IInv /\ CallTypeOK /\ Turns /\ Places(q, a, b, d, k) /\ Chain(q, a, b, d)
      /\ Contents(q, a, b) /\ Counted(a, b) /\ Cutoff(q, a, b, d, k) /\ Order(q, a, b)
  BY Zenon, BeforeParts
<1>2. /\ UNCHANGED <<head, tail, next, rcu_call_count, relink>>
      /\ call = "relock" /\ call' \in {"work", "retry"}
  BY Zenon DEF CallRelock
<1>3. CASE node = None
  <2>1. UNCHANGED <<n, node, writerVars, objectVars, rcuVars>>
    BY Zenon, <1>3 DEF CallRelock, rcuVars
  <2>2. Queue(q, a, b, d, k) /\ (call' \in Round => call \in Round)
    BY Zenon, <1>2, BeforeParts DEF Round, Over
  <2>3. Queue(q, a, b, d, k)'
    BY Zenon, <2>1, <2>2, <1>2, QueueSame
  <2> QED BY Zenon, <2>1, <2>3
<1>4. CASE node # None
  <2> PICK x : x = node
    BY Zenon
  <2>1. /\ x \in Object \cup Drain /\ x \in batch \cup Drain /\ Queued(x) /\ n > 0 /\ n \in Nat
        /\ sync = "done" /\ Invoke(x) /\ node' = None
    BY Zenon, <1>1, <1>2, <1>4 DEF CallRelock, CallTypeOK, Turns, Queue, Cutoff, Contents, Round, Over
  <2>2. /\ n' = n - 1 /\ UNCHANGED <<retired, batch, up, item, link, mine>>
        /\ freed' = freed \cup ({x} \ Drain) /\ drained' = drained \cup ({x} \cap Drain)
        /\ Reclaim(x) \/ UNCHANGED rcuVars
    BY Zenon, <2>1, <1>1, Invoked DEF Queued
  <2>3. Chain(q, a, b, d)'
    BY Zenon, <2>2, <1>1, <1>2 DEF Chain, Pending
  <2>4. Contents(q, a, b)'
    <3>1. \A i \in a .. b : Queued(q[i])' /\ q[i] # node'
      <4> SUFFICES ASSUME NEW i \in a .. b PROVE Queued(q[i])' /\ q[i] # node'
        BY Zenon
      <4>1. a \in Nat /\ b \in Nat
        BY Zenon, <1>1 DEF Places
      <4>2. i \in Nat
        BY <4>1
      <4>3. q[i] \in Node /\ q[i] # x /\ Queued(q[i]) /\ None \notin Node
        BY Zenon, <1>1, <4>2 DEF Contents, Places, Node
      <4>4. freed' \subseteq freed \cup {x} /\ drained' \subseteq drained \cup {x}
        BY Zenon, <2>2
      <4> QED BY Zenon, <4>3, <4>4, <2>1, <2>2 DEF Queued
    <3> QED BY Zenon, <3>1, <2>1, <2>2, <1>1 DEF Contents, Queued
  <2>5. Counted(a, b)' /\ Cutoff(q, a, b, d, k)'
    <3>1. Left' = Left /\ Uncounted' = Uncounted
      BY Zenon, <2>1, <2>2, <1>4 DEF Left, Uncounted
    <3> QED BY Zenon, <3>1, <2>1, <2>2, <1>1, <1>2 DEF Counted, Cutoff, Round, Over
  <2>6. Order(q, a, b)'
    <3>1. Order(q, a, b) /\ mine \subseteq Object
      BY Zenon, <1>1, ObjectsTyped DEF CallTypeOK
    <3>2. \A y \in mine : y = x => y \in freed'
      BY Zenon, <3>1, <2>2
    <3>3. item[Main] \in drained' => mine \subseteq freed'
      BY Zenon, <3>1, <2>1, <2>2 DEF Order
    <3> QED BY Zenon, <3>1, <3>2, <3>3, <2>1, <2>2 DEF Order, DrainedInOrder
  <2>7. (\E y \in Object : Reclaim(y)) \/ UNCHANGED rcuVars
    BY Zenon, <1>1, <2>2, ObjectsTyped DEF Reclaim
  <2> QED BY Zenon, <2>3, <2>4, <2>5, <2>6, <2>7, QueueBuild
<1> QED BY Zenon, <1>3, <1>4

\* The number is taken before the grace period.
LEMMA NumberQueue ==
  ASSUME NEW q, NEW a, NEW b, NEW d, NEW k, Before(q, a, b, d, k), CallCount
  PROVE  Queue(q, a, b, d, k)'
<1>1. /\ IInv /\ CallTypeOK /\ Turns /\ Places(q, a, b, d, k) /\ Chain(q, a, b, d)
      /\ Contents(q, a, b) /\ Counted(a, b) /\ Cutoff(q, a, b, d, k) /\ Order(q, a, b)
  BY Zenon, BeforeParts
<1>2. /\ UNCHANGED <<head, tail, next, node, relink, up, item, link, drained, mine, freed, batch, retired>>
      /\ n' = rcu_call_count /\ rcu_call_count' = 0 /\ call = "idle" /\ call' = "grace"
  BY Zenon DEF CallCount, rcuVars, objectVars, writerVars
<1>3. n = 0 /\ node = None
  BY Zenon, <1>1, <1>2 DEF Turns
<1>4. Chain(q, a, b, d)' /\ Contents(q, a, b)' /\ Order(q, a, b)'
  <2>1. Chain(q, a, b, d)'
    BY Zenon, <1>1, <1>2 DEF Chain, Pending
  <2>2. Contents(q, a, b)'
    BY Zenon, <1>1, <1>2 DEF Contents, Queued
  <2>3. Order(q, a, b)'
    BY Zenon, <1>1, <1>2 DEF Order, DrainedInOrder
  <2> QED BY Zenon, <2>1, <2>2, <2>3
<1>5. Uncounted' = Uncounted /\ Cardinality(Uncounted) \in Nat
  BY Zenon, <1>2, BeforeCounts DEF Uncounted
<1>6. Counted(a, b)'
  BY <1>1, <1>2, <1>3, <1>5 DEF Counted, Left, CallTypeOK
<1>7. Cutoff(q, a, b, d, k)'
  BY Zenon, <1>2 DEF Cutoff, Round, Over
<1> QED BY Zenon, <1>4, <1>6, <1>7, QueueBuild

\* The grace period covers all that is in the queue as it begins, which is at
\* least what the number says: the round ends at the tail.
LEMMA StartQueue ==
  ASSUME NEW q, NEW a, NEW b, NEW d, NEW k, Before(q, a, b, d, k), CallStart
  PROVE  Queue(q, a, b, d, b)' /\ Places(q, a, b, d, b)
<1>1. /\ IInv /\ CallTypeOK /\ Turns /\ Places(q, a, b, d, k) /\ Chain(q, a, b, d)
      /\ Contents(q, a, b) /\ Counted(a, b) /\ Cutoff(q, a, b, d, k) /\ Order(q, a, b)
  BY Zenon, BeforeParts
<1>2. /\ UNCHANGED <<head, tail, next, rcu_call_count, n, node, relink, up, item, link, drained, mine, freed, retired>>
      /\ batch' = retired \ freed /\ call = "grace" /\ call' = "sync"
  BY Zenon DEF CallStart, SyncStart, queueVars, writerVars
<1>3. node = None
  BY Zenon, <1>1, <1>2 DEF Turns
<1>4. Chain(q, a, b, d)' /\ Contents(q, a, b)' /\ Order(q, a, b)'
  <2>1. Chain(q, a, b, d)'
    BY Zenon, <1>1, <1>2 DEF Chain, Pending
  <2>2. Contents(q, a, b)'
    BY Zenon, <1>1, <1>2 DEF Contents, Queued
  <2>3. Order(q, a, b)'
    BY Zenon, <1>1, <1>2 DEF Order, DrainedInOrder
  <2> QED BY Zenon, <2>1, <2>2, <2>3
<1>5. Counted(a, b)' /\ Uncounted' = Uncounted
  BY Zenon, <1>1, <1>2 DEF Counted, Uncounted, Left
<1>6. b - a + 1 >= Left' + 1 /\ d <= b
  <2>1. Cardinality(Uncounted) \in Nat
    BY Zenon, BeforeCounts
  <2> QED BY <2>1, <1>1, <1>2, <1>3 DEF Counted, Left, CallTypeOK, Places
<1>7. \A i \in a .. b : q[i] \in batch' \cup Drain \cup {Dummy}
  <2>1. ASSUME NEW i \in a .. b PROVE q[i] \in Node /\ Queued(q[i])
    <3>1. a \in Nat /\ b \in Nat
      BY Zenon, <1>1 DEF Places
    <3>2. i \in Nat
      BY <3>1
    <3> QED BY Zenon, <3>2, <1>1 DEF Contents, Places
  <2> QED BY Zenon, <2>1, <1>2 DEF Queued, Node
<1>8. Places(q, a, b, d, b)
  BY <1>1 DEF Places
<1>9. Cutoff(q, a, b, d, b)'
  BY <1>2, <1>3, <1>6, <1>7, <1>8 DEF Cutoff, Places
<1> QED BY Zenon, <1>4, <1>5, <1>8, <1>9, QueueBuild

\* The end of the round.
LEMMA DoneQueue ==
  ASSUME NEW q, NEW a, NEW b, NEW d, NEW k, Before(q, a, b, d, k), CallDone
  PROVE  Queue(q, a, b, d, k)'
<1>1. /\ Chain(q, a, b, d) /\ Contents(q, a, b) /\ Counted(a, b) /\ Order(q, a, b)
  BY Zenon, BeforeParts
<1>2. /\ UNCHANGED <<head, tail, next, rcu_call_count, n, node, relink, up, item, link, drained, mine, freed, retired>>
      /\ call' = "idle"
  BY Zenon DEF CallDone, SyncEnd, queueVars, writerVars
<1>3. Chain(q, a, b, d)' /\ Contents(q, a, b)' /\ Order(q, a, b)'
  <2>1. Chain(q, a, b, d)'
    BY Zenon, <1>1, <1>2 DEF Chain, Pending
  <2>2. Contents(q, a, b)'
    BY Zenon, <1>1, <1>2 DEF Contents, Queued
  <2>3. Order(q, a, b)'
    BY Zenon, <1>1, <1>2 DEF Order, DrainedInOrder
  <2> QED BY Zenon, <2>1, <2>2, <2>3
<1>4. Counted(a, b)' /\ Cutoff(q, a, b, d, k)'
  BY Zenon, <1>1, <1>2 DEF Counted, Uncounted, Left, Cutoff, Round, Over
<1> QED BY Zenon, <1>3, <1>4, QueueBuild

-----------------------------------------------------------------------------
\* A state with a queue.
LEMMA HasQueue ==
  ASSUME NEW q, NEW a, NEW b, NEW d, NEW k, Places(q, a, b, d, k),
         Queue(q, a, b, d, k)', CallTypeOK', Turns'
  PROVE  CInv'
BY DEF CInv, Places

\* The readers, the accesses of a vCPU and the steps of call_rcu_thread that do
\* not touch the queue: each is a step of read-copy-update or none.
LEMMA QuietStep ==
  ASSUME NEW q, NEW a, NEW b, NEW d, NEW k, Before(q, a, b, d, k),
         \/ \E r \in Reader : Reads(r) \/ Leaves(r)
         \/ \E v \in Vcpu : AccessStart(v) \/ AccessLock(v) \/ AccessEnd(v)
         \/ CallNone \/ CallCheck \/ CallWait \/ CallWoken \/ CallSync \/ CallLock \/ TryNull
  PROVE  CInv' /\ [Next]_rcuVars
<1>1. /\ IInv /\ CallTypeOK /\ Turns /\ Places(q, a, b, d, k) /\ Chain(q, a, b, d)
      /\ Contents(q, a, b) /\ Counted(a, b) /\ Cutoff(q, a, b, d, k) /\ Order(q, a, b)
  BY Zenon, BeforeParts
<1>2. SUFFICES /\ UNCHANGED <<head, tail, next, rcu_call_count, n, node, relink, writerVars, objectVars>>
               /\ call' \in Round => call \in Round
               /\ call' \in Round \cup {"idle", "check", "wait", "sleep", "grace"} /\ Turns'
               /\ [Next]_rcuVars
  <2>1. CallTypeOK'
    BY Zenon, <1>1, <1>2 DEF CallTypeOK, writerVars, objectVars
  <2>2. Queue(q, a, b, d, k)'
    BY Zenon, <1>2, BeforeParts, QueueSame
  <2> QED BY Zenon, <1>1, <1>2, <2>1, <2>2, HasQueue
<1>3. ASSUME NEW r \in Reader, Reads(r) \/ Leaves(r)
      PROVE  ReaderNext(r) /\ UNCHANGED <<objectVars, syncVars, queueVars, workVars, writerVars>>
  <2>1. CASE Reads(r)
    <3>1. ReaderNext(r) /\ UNCHANGED <<queueVars, workVars, writerVars>>
      BY Zenon, <2>1 DEF Reads, OnlyReads, ReaderNext, callVars
    <3>2. OnlyReads(r)
      BY Zenon, <2>1 DEF Reads
    <3>3. UNCHANGED <<objectVars, syncVars>>
      BY Zenon, <3>2 DEF OnlyReads, rcu_register_thread, rcu_unregister_thread, ReadLock, Dereference,
                  ReaderStep, ReadLocked, UnlockTest, UnlockClear, UnlockSet
    <3> QED BY Zenon, <3>1, <3>3
  <2>2. CASE Leaves(r)
    BY Zenon, <2>2 DEF Leaves, ReaderNext, ReadUnlock
  <2> QED BY Zenon, <1>3, <2>1, <2>2
<1>4. CASE \E r \in Reader : Reads(r) \/ Leaves(r)
  <2>1. Next /\ UNCHANGED <<objectVars, syncVars, queueVars, workVars, writerVars>>
    BY Zenon, <1>3, <1>4 DEF Next
  <2> QED BY Zenon, <2>1, <1>1 DEF queueVars, workVars, syncVars, CallTypeOK, Turns
<1>5. CASE \E v \in Vcpu : AccessStart(v) \/ AccessLock(v) \/ AccessEnd(v)
  <2>1. UNCHANGED <<rcuVars, queueVars, workVars, writerVars>>
    BY Zenon, <1>5 DEF AccessStart, AccessLock, AccessEnd
  <2> QED BY Zenon, <2>1, <1>1 DEF rcuVars, queueVars, workVars, syncVars, CallTypeOK, Turns
<1>6. CASE CallNone \/ CallCheck \/ CallWait \/ CallWoken \/ CallLock \/ TryNull
  <2>1. UNCHANGED <<rcuVars, head, tail, next, rcu_call_count, n, node, relink, writerVars>>
    BY Zenon, <1>6 DEF CallNone, CallCheck, CallWait, CallWoken, CallLock, TryNull, queueVars
  <2>2. \/ /\ call \in {"idle", "check", "wait", "sleep"}
           /\ call' \in {"idle", "check", "wait", "sleep"}
        \/ /\ call \in {"retry", "await", "asleep", "again"}
           /\ call' \in {"await", "asleep", "again", "relock"}
        \/ call = "work" /\ call' = "retry" /\ n > 0
        \/ call = "sync" /\ call' = "work" /\ sync = "done"
    BY Zenon, <1>6 DEF CallNone, CallCheck, CallWait, CallWoken, CallLock, TryNull, Tries
  <2>3. sync' = sync /\ n' = n /\ node' = node
    BY Zenon, <2>1 DEF rcuVars, syncVars
  <2>4. Turns' /\ (call' \in Round => call \in Round)
        /\ call' \in Round \cup {"idle", "check", "wait", "sleep", "grace"}
    BY Zenon, <2>2, <2>3, <1>1 DEF Turns, Round, Over
  <2> QED BY Zenon, <2>1, <2>4 DEF rcuVars
<1>7. CASE CallSync
  <2>1. SyncStep /\ call = "sync" /\ UNCHANGED <<queueVars, workVars, writerVars>>
    BY Zenon, <1>7 DEF CallSync
  <2>2. UNCHANGED objectVars /\ sync' # "idle"
    BY Zenon, <2>1 DEF SyncStep, WaitReset, WaitMarked, WaitMove, WaitDone, WaitUnlock, WaitEvent,
                WaitWoken, WaitLock, WaitMark, WaitWalk
  <2>3. Next
    BY Zenon, <2>1 DEF Next
  <2>4. UNCHANGED <<head, tail, next, rcu_call_count, n, node, relink, call, writerVars, objectVars>>
    BY Zenon, <2>1, <2>2 DEF queueVars, workVars
  <2> QED BY Zenon, <2>1, <2>2, <2>3, <2>4, <1>1 DEF Turns, Round, Over
<1> QED BY Zenon, <1>4, <1>5, <1>6, <1>7

\* The writers.
LEMMA WriterStepCInv ==
  ASSUME NEW q, NEW a, NEW b, NEW d, NEW k, Before(q, a, b, d, k),
         \/ \E w \in Writer : Update(w) \/ WriterStep(w)
         \/ drain_call_rcu \/ DrainWait \/ DrainLock
  PROVE  CInv' /\ [Next]_rcuVars
<1> USE NodeAssumption, ThreadAssumption, ObjectAssumption
<1>1. /\ IInv /\ CallTypeOK /\ Turns /\ Places(q, a, b, d, k) /\ Chain(q, a, b, d)
      /\ Contents(q, a, b) /\ Counted(a, b) /\ Cutoff(q, a, b, d, k) /\ Order(q, a, b)
  BY Zenon, BeforeParts
<1>2. ASSUME UNCHANGED <<n, node, call, sync>> PROVE Turns'
  BY Zenon, <1>1, <1>2 DEF Turns
<1>3. ASSUME NEW w \in Writer, Update(w) PROVE CInv' /\ [Next]_rcuVars
  <2>1. pointer \in Object /\ pointer + 1 \in Object
    BY Zenon, <1>3, BeforeParts, ObjectsTyped DEF Update, Replace
  <2>2. Turns'
    BY Zenon, <1>3, <1>2 DEF Update, Replace, workVars, syncVars
  <2>3. CallTypeOK'
    BY Zenon, <1>3, <1>1, <2>1 DEF CallTypeOK, Update, Replace, Moves, workVars, queueVars
  <2>4. Next
    BY Zenon, <1>3, <2>1 DEF Update, Next
  <2>5. Queue(q, a, b, d, k)'
    BY Zenon, <1>3, UpdateQueue
  <2> QED BY Zenon, <1>1, <2>2, <2>3, <2>4, <2>5, HasQueue
<1>4. ASSUME NEW w \in Writer, Enqueue(w) PROVE CInv' /\ UNCHANGED rcuVars
  <2>1. UNCHANGED rcuVars /\ Turns'
    BY Zenon, <1>4, <1>2 DEF Enqueue, rcuVars, syncVars, workVars
  <2>2. tail \in Node
    BY Zenon, <1>1 DEF Chain, Places
  <2>3. CallTypeOK'
    BY Zenon, <1>4, <1>1, <2>1, <2>2 DEF CallTypeOK, Enqueue, Moves, workVars, rcuVars, objectVars
  <2> PICK x : x = item[w]
    BY Zenon
  <2>4. /\ Queue([q EXCEPT ![b + 1] = x], a, b + 1, d, k)'
        /\ Places([q EXCEPT ![b + 1] = x], a, b + 1, d, k)
    BY Zenon, <1>4, EnqueueQueue
  <2> DEFINE r == [q EXCEPT ![b + 1] = x]
  <2> HIDE DEF r
  <2>5. Queue(r, a, b + 1, d, k)' /\ Places(r, a, b + 1, d, k)
    BY Zenon, <2>4 DEF r
  <2> QED BY Zenon, <2>1, <2>3, <2>5, HasQueue
<1>5. ASSUME NEW w \in Writer, Link(w) PROVE CInv' /\ UNCHANGED rcuVars
  <2>1. UNCHANGED rcuVars /\ Turns'
    BY Zenon, <1>5, <1>2 DEF Link, rcuVars, syncVars, workVars
  <2>2. CallTypeOK'
    BY Zenon, <1>5, <1>1, <2>1 DEF CallTypeOK, Link, Moves, Node, workVars, rcuVars, objectVars
  <2>3. Queue(q, a, b, d, k)'
    BY Zenon, <1>5, LinkQueue
  <2> QED BY Zenon, <1>1, <2>1, <2>2, <2>3, HasQueue
<1>6. ASSUME NEW w \in Writer, Count(w) PROVE CInv' /\ UNCHANGED rcuVars
  <2>1. UNCHANGED rcuVars /\ Turns'
    BY Zenon, <1>6, <1>2 DEF Count, rcuVars, syncVars, workVars
  <2>2. CallTypeOK'
    BY <1>6, <1>1, <2>1 DEF CallTypeOK, Count, Moves, workVars, rcuVars, objectVars
  <2>3. Queue(q, a, b, d, k)'
    BY Zenon, <1>6, CountQueue
  <2> QED BY Zenon, <1>1, <2>1, <2>2, <2>3, HasQueue
<1>7. CASE (\E w \in Writer : Ready(w)) \/ drain_call_rcu \/ DrainWait \/ DrainLock
  <2>1. UNCHANGED rcuVars /\ Turns'
    BY Zenon, <1>7, <1>2 DEF Ready, drain_call_rcu, DrainWait, DrainLock, rcuVars, syncVars, workVars
  <2>2. CallTypeOK'
    <3> USE <1>1, <2>1 DEF CallTypeOK, Moves, workVars, queueVars, rcuVars, objectVars
    <3>1. ASSUME NEW w \in Writer, Ready(w) PROVE CallTypeOK'
      BY Zenon, <3>1 DEF Ready
    <3>2. CASE drain_call_rcu
      BY SMTT(30), <3>2 DEF drain_call_rcu
    <3>3. CASE DrainWait \/ DrainLock
      BY Zenon, <3>3 DEF DrainWait, DrainLock
    <3> QED BY Zenon, <1>7, <3>1, <3>2, <3>3
  <2>3. Queue(q, a, b, d, k)'
    BY Zenon, <1>7, WriterQueue
  <2> QED BY Zenon, <1>1, <2>1, <2>2, <2>3, HasQueue
<1> QED BY Zenon, <1>3, <1>4, <1>5, <1>6, <1>7 DEF WriterStep

\* The steps of call_rcu_thread that work on the queue.
LEMMA WorkStepCInv ==
  ASSUME NEW q, NEW a, NEW b, NEW d, NEW k, Before(q, a, b, d, k),
         \/ CallCount \/ CallStart \/ CallDone \/ CallRelock
         \/ TryDummy \/ TryRelink \/ TryNode
  PROVE  CInv' /\ [Next]_rcuVars
<1> USE NodeAssumption, ThreadAssumption, ObjectAssumption
<1>1. /\ IInv /\ CallTypeOK /\ Turns /\ Places(q, a, b, d, k) /\ Chain(q, a, b, d)
      /\ Contents(q, a, b) /\ Counted(a, b) /\ Cutoff(q, a, b, d, k) /\ Order(q, a, b)
  BY Zenon, BeforeParts
<1>2. CASE CallCount
  <2>1. CallTypeOK' /\ Turns' /\ UNCHANGED rcuVars
    BY Zenon, <1>1, <1>2 DEF CallCount, CallTypeOK, Turns, Round, Over, rcuVars, objectVars, syncVars, writerVars
  <2> QED BY SMTT(30), <1>1, <1>2, <2>1, NumberQueue, HasQueue
<1>3. CASE CallStart
  <2>1. CallTypeOK' /\ Turns' /\ Next
    BY Zenon, <1>1, <1>3 DEF CallStart, SyncStart, CallTypeOK, Turns, Round, Over, queueVars, writerVars, Next
  <2>2. Queue(q, a, b, d, b)' /\ Places(q, a, b, d, b)
    BY Zenon, <1>3, StartQueue
  <2> QED BY Zenon, <2>1, <2>2, HasQueue
<1>4. CASE CallDone
  <2>1. CallTypeOK' /\ Turns' /\ Next
    BY Zenon, <1>1, <1>4 DEF CallDone, SyncEnd, CallTypeOK, Turns, Round, Over, queueVars, writerVars, Next
  <2> QED BY <1>1, <1>4, <2>1, DoneQueue, HasQueue
<1>5. CASE CallRelock
  <2>1. Queue(q, a, b, d, k)' /\ ((\E x \in Object : Reclaim(x)) \/ UNCHANGED rcuVars)
    BY Zenon, <1>5, RelockQueue
  <2>2. /\ UNCHANGED <<next, rcu_call_count, relink>>
        /\ call = "relock" /\ call' \in {"work", "retry"} /\ (call' = "retry" => n' = n)
        /\ node' = None /\ sync' = sync /\ n > 0
        /\ \/ n' = n /\ UNCHANGED <<writerVars, rcuVars>>
           \/ node # None /\ Invoke(node)
    BY Zenon, <1>1, <1>5 DEF CallRelock, Turns, Over, Invoke, rcuVars, syncVars
  <2>3. n' \in Nat /\ drained' \subseteq Drain /\ UNCHANGED <<mine, retired, up, item, link>>
    BY <1>1, <2>2 DEF Invoke, CallTypeOK, writerVars, rcuVars, objectVars
  <2>4. CallTypeOK'
    BY Zenon, <1>1, <2>2, <2>3 DEF CallTypeOK, Round, Over
  <2>5. Turns'
    BY Zenon, <1>1, <2>2 DEF Turns, Round, Over
  <2>6. [Next]_rcuVars
    BY Zenon, <2>1 DEF Next
  <2> QED BY Zenon, <1>1, <2>1, <2>4, <2>5, <2>6, HasQueue
<1>6. CASE TryDummy
  <2> DEFINE r == [q EXCEPT ![b + 1] = Dummy]
  <2>1. call' = call /\ Queue(r, a + 1, b + 1, b + 1, k)' /\ Places(r, a + 1, b + 1, b + 1, k)
    BY Zenon, <1>6, DummyQueue
  <2> HIDE DEF r
  <2>2. tail \in Node
    BY Zenon, <1>1 DEF Chain, Places
  <2>3. UNCHANGED rcuVars /\ Turns'
    BY Zenon, <1>1, <1>6, <2>1 DEF TryDummy, Turns, rcuVars, syncVars
  <2>4. CallTypeOK'
    BY Zenon, <1>1, <1>6, <2>1, <2>2, <2>3 DEF TryDummy, CallTypeOK, writerVars, rcuVars, objectVars
  <2> QED BY Zenon, <2>1, <2>3, <2>4, HasQueue
<1>7. CASE TryRelink
  <2>1. UNCHANGED rcuVars /\ Turns'
    BY Zenon, <1>1, <1>7 DEF TryRelink, Turns, rcuVars, syncVars
  <2>2. CallTypeOK'
    BY Zenon, <1>1, <1>7, <2>1 DEF TryRelink, CallTypeOK, Node, writerVars, rcuVars, objectVars
  <2> QED BY <1>1, <1>7, <2>1, <2>2, RelinkQueue, HasQueue
<1>8. CASE TryNode
  <2>1. /\ Queue(q, a + 1, b, d, k)' /\ Places(q, a + 1, b, d, k)
        /\ (\E x \in Object : Reclaim(x)) \/ UNCHANGED rcuVars
    BY Zenon, <1>8, NodeQueue
  <2>2. node = None /\ n > 0 /\ sync = "done" /\ head \in Object \cup Drain
    BY Zenon, <1>8, FirstOfRound
  <2>3. /\ UNCHANGED <<next, rcu_call_count, relink>>
        /\ \/ call = "work" /\ Invoke(head) /\ UNCHANGED <<node, call>>
           \/ /\ call \in {"retry", "again"} /\ node' = head /\ call' = "relock"
              /\ UNCHANGED <<rcuVars, n, writerVars>>
    BY Zenon, <1>8 DEF TryNode, Tries
  <2>4. /\ UNCHANGED <<mine, retired, up, item, link, sync>>
        /\ n' \in Nat /\ drained' \subseteq Drain /\ node' \in Object \cup Drain \cup {None}
    BY <1>1, <2>2, <2>3 DEF Invoke, CallTypeOK, writerVars, rcuVars, objectVars, syncVars
  <2>5. CallTypeOK'
    BY Zenon, <1>1, <2>3, <2>4 DEF CallTypeOK, Round, Over
  <2>6. Turns'
    BY Zenon, <1>1, <2>2, <2>3, <2>4 DEF Turns, Round, Over
  <2>7. [Next]_rcuVars
    BY Zenon, <2>1 DEF Next
  <2> QED BY Zenon, <2>1, <2>5, <2>6, <2>7, HasQueue
<1> QED BY Zenon, <1>2, <1>3, <1>4, <1>5, <1>6, <1>7, <1>8

-----------------------------------------------------------------------------
(* The count, and the invariant *)

INSTANCE FiniteSetTheorems

\* The calls in the middle are counted as any finite set is.
LEMMA UncountedCounted == Counting
<1>1. Uncounted \in SUBSET Writer
  BY Zenon DEF Uncounted
<1>2. IsFiniteSet(Uncounted)
  BY Zenon, <1>1, ThreadAssumption, FS_Subset
<1>3. Cardinality(Uncounted) \in Nat
  BY Zenon, <1>2, FS_CardinalityType
<1>4. \A w \in Writer \ Uncounted : Cardinality(Uncounted \cup {w}) = Cardinality(Uncounted) + 1
  BY Zenon, <1>2, FS_AddElement
<1>5. \A w \in Uncounted : Cardinality(Uncounted \ {w}) = Cardinality(Uncounted) - 1
  BY Zenon, <1>2, FS_RemoveElement
<1> QED BY Zenon, <1>3, <1>4, <1>5 DEF Counting

\* The queue begins with the dummy and nothing else.
LEMMA CallInitCInv == CallInit => CInv
<1> SUFFICES ASSUME CallInit PROVE CInv
  BY Zenon
<1> USE NodeAssumption, ObjectAssumption, ThreadAssumption
<1>1. CallTypeOK /\ Turns
  BY Zenon DEF CallInit, Init, CallTypeOK, Turns, Node, Round, Over
<1> DEFINE q == [i \in Nat |-> Dummy]
<1>2. q \in [Nat -> Node] /\ Places(q, 0, 0, 0, 0)
  BY DEF Places, Node
<1>3. \A w \in Writer : up[w] \in {"idle", "gone"} /\ item[w] = None
  BY Zenon DEF CallInit
<1>4. Uncounted = {}
  BY Zenon, <1>3 DEF Uncounted
<1>5. Chain(q, 0, 0, 0)
  <2>1. head = q[0] /\ tail = q[0] /\ q[0] = Dummy /\ next[q[0]] = None /\ relink = None
    BY ZenonT(30) DEF CallInit, Node
  <2> QED BY Zenon, <2>1, <1>3, OnePlace DEF Chain
<1>6. Contents(q, 0, 0)
  <2>1. node = None /\ Queued(Dummy) /\ Queued(None)
    BY Zenon DEF CallInit, Queued
  <2>2. \A i \in 0 .. 0 : q[i] = Dummy
    <3>1. q[0] = Dummy
      BY Zenon
    <3> HIDE DEF q
    <3> QED BY Zenon, <3>1, OnePlace
  <2>3. \A w \in Writer : up[w] # "enqueue" /\ up[w] \notin {"enqueue", "link"}
    BY Zenon, <1>3
  <2> HIDE DEF q
  <2> QED BY Zenon, <2>1, <2>2, <2>3 DEF Contents
<1>7. Counted(0, 0)
  <2>1. Cardinality(Uncounted) = 0
    BY Zenon, <1>4, FS_EmptySet
  <2>2. Left = 0 /\ rcu_call_count = 0
    BY Zenon DEF CallInit, Left
  <2> QED BY Zenon, <2>1, <2>2, NoneCounted DEF Counted
<1>8. Cutoff(q, 0, 0, 0, 0) /\ Order(q, 0, 0)
  BY Zenon, <1>3 DEF CallInit, Cutoff, Order, Round, Over, DrainedInOrder
<1> HIDE DEF q
<1> QED BY <1>1, <1>2, <1>5, <1>6, <1>7, <1>8 DEF CInv, Queue

\* Every step of deferred reclamation is a step of read-copy-update, or none.
LEMMA CallStepCInv ==
  ASSUME IInv, CInv, [CallNext]_allVars
  PROVE  IInv' /\ CInv' /\ [Next]_rcuVars
<1>1. PICK q \in [Nat -> Node], a \in Nat, b \in Nat, d \in Nat, k \in Int :
        Places(q, a, b, d, k) /\ Queue(q, a, b, d, k)
  BY Zenon DEF CInv
<1>2. Before(q, a, b, d, k)
  BY Zenon, <1>1, UncountedCounted DEF Before, CInv
<1>3. CInv' /\ [Next]_rcuVars
  <2>1. CASE CallNext
    BY Zenon, <2>1, <1>2, QuietStep, WriterStepCInv, WorkStepCInv DEF CallNext, CallStep
  <2>2. CASE UNCHANGED allVars
    <3>1. UNCHANGED <<rcuVars, queueVars, workVars, writerVars>>
      BY Zenon, <2>2 DEF allVars, callVars
    <3>2. Queue(q, a, b, d, k)'
      BY Zenon, <1>1, <3>1, QueueSame DEF queueVars, workVars, rcuVars
    <3>3. CallTypeOK' /\ Turns'
      BY Zenon, <3>1 DEF CInv, CallTypeOK, Turns, queueVars, workVars, writerVars, rcuVars, objectVars, syncVars
    <3> QED BY Zenon, <1>1, <3>1, <3>2, <3>3, HasQueue
  <2> QED BY Zenon, <2>1, <2>2
<1> QED BY Zenon, <1>3, NextIInv

-----------------------------------------------------------------------------
\* The invariant of deferred reclamation (call_rcu1, call_rcu_thread).
THEOREM CallInvariant == CallSpec => [](IInv /\ CInv)
<1>1. CallInit => IInv /\ CInv
  BY Zenon, InitIInv, CallInitCInv DEF CallInit
<1> QED BY <1>1, CallStepCInv, PTL DEF CallSpec

\* call_rcu_thread implements read-copy-update: whatever the order in which
\* writers take their places, link their nodes and count them, a callback runs
\* only for an object removed before the grace period that has just passed.
THEOREM CallRcuImplementsRcu == CallSpec => ImplementsRcu
<1>1. CallInit => Init
  BY Zenon DEF CallInit
<1> QED BY <1>1, CallStepCInv, CallInvariant, PTL DEF CallSpec, ImplementsRcu, Spec

\* So no reader uses what a callback of call_rcu1 has reclaimed.
THEOREM CallRcuSafe == CallSpec => []NoUseAfterFree
BY CallRcuImplementsRcu, RcuSafe, PTL DEF ImplementsRcu

\* When drain_call_rcu is about to return, all that its caller had removed
\* before is reclaimed: its own callback comes behind theirs.
THEOREM DrainedInOrderAlways == CallSpec => []DrainedInOrder
<1>1. CInv => DrainedInOrder
  BY DEF CInv, Queue, Order
<1> QED BY <1>1, CallInvariant, PTL
=============================================================================
