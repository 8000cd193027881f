----------------------------- MODULE UartQueue ------------------------------
(***************************************************************************)
(* What the receiver of the UART promises: a queue of received items that  *)
(* the guest reads in order.  Nothing is lost or invented as long as the   *)
(* queue stays within its capacity.  An item that arrives beyond it takes  *)
(* the place of the one that is a multiple of the capacity ahead of it,    *)
(* and the queue still grows.  NxpUart is shown to implement this module.  *)
(***************************************************************************)
EXTENDS Integers, Sequences

CONSTANTS
  Item,         \* what can be received
  Break,        \* the item that stands for a BREAK
  NoItem,       \* not an item: nothing was read since the reset
  Burst,        \* the sequences of items that can arrive at once
  Capacity      \* the capacities the queue can be given

VARIABLES
  queue,        \* the items received and not yet read
  capacity,
  data          \* what the last read returned

vars == <<queue, capacity, data>>

Init == queue = <<>> /\ capacity = 1 /\ data = NoItem

Put(q, x) ==
  [k \in 1 .. Len(q) + 1 |->
     IF (Len(q) + 1 - k) % capacity = 0 THEN x ELSE q[k]]

\* The queue after each item of s.
Puts(q, s) ==
  LET put[i \in 0 .. Len(s)] == IF i = 0 THEN q ELSE Put(put[i - 1], s[i])
  IN put

PutAll(q, s) == Puts(q, s)[Len(s)]

Receive(s) ==
  /\ queue' = PutAll(queue, s)
  /\ UNCHANGED <<capacity, data>>

\* A read makes room, and more may arrive at once.
Get(s) ==
  /\ queue # <<>>
  /\ data' = Head(queue) /\ queue' = PutAll(Tail(queue), s)
  /\ UNCHANGED capacity

\* An empty queue reads as anything.
GetNothing(s) ==
  /\ queue = <<>>
  /\ data' \in Item /\ queue' = PutAll(<<>>, s)
  /\ UNCHANGED capacity

\* A new capacity discards what was received, but for a BREAK that arrives
\* with the change.
Resize ==
  /\ capacity' \in Capacity \ {capacity}
  /\ queue' \in {<<>>, <<Break>>}
  /\ UNCHANGED data

Reset == queue' = <<>> /\ capacity' = 1 /\ data' = NoItem

Next ==
  \/ \E s \in Burst : Receive(s) \/ Get(s) \/ GetNothing(s)
  \/ Resize \/ Reset

Spec == Init /\ [][Next]_vars
=============================================================================
