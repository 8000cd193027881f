------------------------------ MODULE CallRcu -------------------------------
(***************************************************************************)
(* Deferred reclamation: call_rcu1 of any thread puts an object into a     *)
(* queue without a lock, the thread call_rcu_thread takes a number of them *)
(* out after a grace period of Rcu and runs their callbacks under the big  *)
(* lock (bql), and drain_call_rcu waits until that has happened.  A vCPU   *)
(* thread stays in one section as long as it runs the guest, takes the bql *)
(* in it for every access to a device, and leaves it when it is kicked.    *)
(***************************************************************************)
EXTENDS Rcu, FiniteSets

CONSTANTS
  Vcpu,           \* the readers that run the guest
  Writer,         \* the threads that replace the pointer
  Cast,           \* the threads that there can be, the builds they run in, and
                  \* the object from which they take the pointer on (BOUND)
  Main,           \* the writer that holds the bql, and drains
  Worker,         \* call_rcu_thread, as the owner of the bql
  Drain,          \* the rcu_heads on the stack of each drain_call_rcu (BOUND)
  Dummy           \* the node that keeps the queue from being empty

ASSUME ThreadAssumption ==
  Vcpu \subseteq Reader /\ Main \in Writer /\ IsFiniteSet(Writer)
ASSUME NodeAssumption ==
  /\ None \notin Drain \cup {Dummy}
  /\ Dummy \notin Object \cup Drain /\ Object \cap Drain = {}

VARIABLES
  head, tail,     \* of the queue; tail stands for the next field it points to
  next,           \* the next field of every node
  rcu_call_count,
  rcu_call_ready_event,
  n,              \* the callbacks that call_rcu_thread has still to run
  node,           \* the one it took out without the bql, or None
  relink,         \* the old tail, while the dummy is put back, or None
  call,           \* where call_rcu_thread is
  in_drain_call_rcu,
  drained,        \* the drains whose drain_complete_event is set
  up,             \* where each writer is
  item,           \* what it puts into the queue
  link,           \* the old tail that it has to link
  mine,           \* the objects that Main has removed (history)
  bql,            \* the owner of the big lock, or None
  access,         \* a vCPU's access to a device
  notified        \* the vCPUs whose force_rcu notifier was called

queueVars == <<head, tail, next, rcu_call_count, rcu_call_ready_event>>
workVars == <<n, node, relink, call>>
writerVars == <<in_drain_call_rcu, drained, up, item, link, mine>>
vcpuVars == <<access, notified>>
callVars == <<queueVars, workVars, writerVars, bql, vcpuVars>>
allVars == <<rcuVars, callVars>>

CallInit ==
  /\ Init
  /\ head = Dummy /\ tail = Dummy
  /\ next = [x \in Object \cup Drain \cup {Dummy} |-> None]
  /\ rcu_call_count = 0 /\ rcu_call_ready_event = "FREE"
  /\ n = 0 /\ node = None /\ relink = None /\ call = "idle"
  /\ in_drain_call_rcu = 0 /\ drained = {}
  /\ \E c \in Cast :
       /\ at = [r \in Reader |-> IF r \in c.threads THEN "out" ELSE "gone"]
       /\ up = [w \in Writer |-> IF w \in c.threads THEN "idle" ELSE "gone"]
       /\ pointer = c.first /\ wide \in c.wide
  /\ item = [w \in Writer |-> None] /\ mine = {}
  /\ link = [w \in Writer |-> None]
  /\ bql = None
  /\ access = [v \in Vcpu |-> "none"] /\ notified = {}

-----------------------------------------------------------------------------
(* The readers *)

OnlyReads(r) ==
  \/ rcu_register_thread(r) \/ rcu_unregister_thread(r)
  \/ ReadLock(r) \/ Dereference(r) \/ ReaderStep(r)

Reads(r) == OnlyReads(r) /\ UNCHANGED callVars

\* A vCPU does not leave the guest in the middle of an access.
Leaves(r) ==
  /\ ReadUnlock(r)
  /\ r \in Vcpu => access[r] = "none"
  /\ notified' = notified \ {r}
  /\ UNCHANGED <<queueVars, workVars, writerVars, bql, access>>

AccessStart(v) ==
  /\ at[v] = "in" /\ access[v] = "none"
  /\ access' = [access EXCEPT ![v] = "lock"]
  /\ UNCHANGED <<rcuVars, queueVars, workVars, writerVars, bql, notified>>

AccessLock(v) ==
  /\ access[v] = "lock" /\ bql = None
  /\ access' = [access EXCEPT ![v] = "device"] /\ bql' = v
  /\ UNCHANGED <<rcuVars, queueVars, workVars, writerVars, notified>>

AccessEnd(v) ==
  /\ access[v] = "device"
  /\ access' = [access EXCEPT ![v] = "none"] /\ bql' = None
  /\ UNCHANGED <<rcuVars, queueVars, workVars, writerVars, notified>>

-----------------------------------------------------------------------------
(* The writers *)

Moves(w, from, to) == up[w] = from /\ up' = [up EXCEPT ![w] = to]

\* An object is removed and given to call_rcu1.  Objects are numbered in the
\* order in which the pointer takes them.  Main has the bql from here to the
\* end of call_rcu1.
Update(w) ==
  /\ IF w = Main THEN bql = None /\ bql' = Main ELSE UNCHANGED bql
  /\ Moves(w, "idle", "enqueue")
  /\ item' = [item EXCEPT ![w] = pointer]
  /\ Replace(pointer + 1)
  /\ mine' = IF w = Main THEN mine \cup {pointer} ELSE mine
  /\ UNCHANGED <<queueVars, workVars, in_drain_call_rcu, drained, link, vcpuVars>>

\* enqueue: the exchange of tail takes a place in the queue ...
Enqueue(w) ==
  /\ Moves(w, "enqueue", "link")
  /\ next' = [next EXCEPT ![item[w]] = None]
  /\ link' = [link EXCEPT ![w] = tail] /\ tail' = item[w]
  /\ UNCHANGED <<rcuVars, head, rcu_call_count, rcu_call_ready_event, workVars,
                 in_drain_call_rcu, drained, item, mine, bql, vcpuVars>>

\* ... and the store makes the node reachable.
Link(w) ==
  /\ Moves(w, "link", "count")
  /\ next' = [next EXCEPT ![link[w]] = item[w]]
  /\ UNCHANGED <<rcuVars, head, tail, rcu_call_count, rcu_call_ready_event,
                 workVars, in_drain_call_rcu, drained, item, link, mine, bql, vcpuVars>>

Count(w) ==
  /\ Moves(w, "count", "ready")
  /\ rcu_call_count' = rcu_call_count + 1
  /\ UNCHANGED <<rcuVars, head, tail, next, rcu_call_ready_event, workVars,
                 in_drain_call_rcu, drained, item, link, mine, bql, vcpuVars>>

\* qemu_event_set wakes call_rcu_thread; call_rcu1 returns.
Ready(w) ==
  /\ Moves(w, "ready", IF item[w] \in Drain THEN "drain" ELSE "idle")
  /\ rcu_call_ready_event' = "SET"
  /\ item' = [item EXCEPT ![w] = IF @ \in Drain THEN @ ELSE None]
  /\ link' = [link EXCEPT ![w] = None]
  /\ bql' = IF bql = w THEN None ELSE bql
  /\ UNCHANGED <<rcuVars, head, tail, next, rcu_call_count, workVars,
                 in_drain_call_rcu, drained, mine, vcpuVars>>

\* drain_call_rcu drops the bql that its caller had taken, and calls call_rcu1
\* for itself.
drain_call_rcu ==
  /\ bql = None /\ UNCHANGED bql
  /\ Moves(Main, "idle", "enqueue")
  /\ \E d \in Drain \ drained : item' = [item EXCEPT ![Main] = d]
  /\ in_drain_call_rcu' = in_drain_call_rcu + 1
  /\ UNCHANGED <<rcuVars, queueVars, workVars, drained, link, mine, vcpuVars>>

DrainWait ==
  /\ item[Main] \in drained /\ Moves(Main, "drain", "relock")
  /\ item' = [item EXCEPT ![Main] = None]
  /\ in_drain_call_rcu' = in_drain_call_rcu - 1
  /\ UNCHANGED <<rcuVars, queueVars, workVars, drained, link, mine, bql, vcpuVars>>

\* It takes the bql again, for its caller to release.
DrainLock ==
  /\ Moves(Main, "relock", "idle") /\ bql = None /\ UNCHANGED bql
  /\ UNCHANGED <<rcuVars, queueVars, workVars, in_drain_call_rcu, drained, item,
                 link, mine, vcpuVars>>

-----------------------------------------------------------------------------
(* call_rcu_thread *)

ResetReady ==
  rcu_call_ready_event' = IF rcu_call_ready_event = "SET" THEN "FREE" ELSE rcu_call_ready_event

\* Nothing to do: the event is reset before the count is read again.
CallNone ==
  /\ call = "idle" /\ rcu_call_count = 0 /\ call' = "check" /\ ResetReady
  /\ UNCHANGED <<rcuVars, head, tail, next, rcu_call_count, n, node, relink,
                 writerVars, bql, vcpuVars>>

CallCheck ==
  /\ call = "check" /\ call' = IF rcu_call_count = 0 THEN "wait" ELSE "idle"
  /\ UNCHANGED <<rcuVars, queueVars, n, node, relink, writerVars, bql, vcpuVars>>

\* qemu_event_wait on rcu_call_ready_event, from one of two places.
CallWait ==
  /\ \/ /\ rcu_call_ready_event = "SET" /\ UNCHANGED rcu_call_ready_event
        /\ \/ call = "wait" /\ call' = "idle"
           \/ call = "await" /\ call' = "again"
     \/ /\ rcu_call_ready_event # "SET" /\ rcu_call_ready_event' = "BUSY"
        /\ \/ call = "wait" /\ call' = "sleep"
           \/ call = "await" /\ call' = "asleep"
  /\ UNCHANGED <<rcuVars, head, tail, next, rcu_call_count, n, node, relink,
                 writerVars, bql, vcpuVars>>

CallWoken ==
  /\ rcu_call_ready_event = "SET"
  /\ \/ call = "sleep" /\ call' = "idle"
     \/ call = "asleep" /\ call' = "again"
  /\ UNCHANGED <<rcuVars, queueVars, n, node, relink, writerVars, bql, vcpuVars>>

\* However long it waits for callbacks to pile up, it takes the number first
\* and lets a grace period pass then.
CallCount ==
  /\ call = "idle" /\ rcu_call_count > 0
  /\ n' = rcu_call_count /\ rcu_call_count' = 0 /\ call' = "grace"
  /\ UNCHANGED <<rcuVars, head, tail, next, rcu_call_ready_event, node, relink,
                 writerVars, bql, vcpuVars>>

CallStart ==
  /\ call = "grace" /\ call' = "sync" /\ SyncStart
  /\ UNCHANGED <<queueVars, n, node, relink, writerVars, bql, vcpuVars>>

\* A wait_for_readers that calls no notifiers.
CallSyncQuiet ==
  /\ call = "sync" /\ SyncStep
  /\ UNCHANGED <<queueVars, workVars, writerVars, bql, vcpuVars>>

\* wait_for_readers calls the notifiers of a reader it has to wait for while
\* somebody drains.
CallSync ==
  /\ call = "sync" /\ SyncStep
  /\ notified' = notified \cup
       {v \in todo \ todo' : sync = "walk" /\ v \in Vcpu /\ rcu_gp_ongoing(v)
                             /\ in_drain_call_rcu > 0}
  /\ UNCHANGED <<queueVars, workVars, writerVars, bql, access>>

\* A thread that looks for more callbacks after the grace period.
CallLockMore ==
  /\ call = "sync" /\ sync = "done" /\ call' = "work"
  /\ bql = None /\ bql' = Worker
  /\ n' = n + rcu_call_count /\ rcu_call_count' = 0
  /\ UNCHANGED <<rcuVars, head, tail, next, rcu_call_ready_event, node, relink,
                 writerVars, vcpuVars>>

CallLock ==
  /\ call = "sync" /\ sync = "done" /\ call' = "work"
  /\ bql = None /\ bql' = Worker
  /\ UNCHANGED <<rcuVars, queueVars, n, node, relink, writerVars, vcpuVars>>

CallDone ==
  /\ call = "work" /\ n = 0 /\ call' = "idle" /\ bql' = None /\ SyncEnd
  /\ UNCHANGED <<queueVars, n, node, relink, writerVars, vcpuVars>>

\* node->func: the callback of an object reclaims it.
Invoke(x) ==
  /\ n' = n - 1
  /\ IF x \in Drain
       THEN drained' = drained \cup {x} /\ UNCHANGED freed
       ELSE freed' = freed \cup {x} /\ UNCHANGED drained
  /\ UNCHANGED <<wide, rcu_gp_ctr, rcu_gp_event, readerVars, listVars, pointer,
                 retired, batch, syncVars, in_drain_call_rcu, up, item, link, mine>>

\* The three places where try_dequeue is called.
Tries == (call = "work" /\ n > 0) \/ call \in {"retry", "again"}

\* try_dequeue finds that the first node is not linked to another.
TryNull ==
  /\ Tries /\ relink = None /\ next[head] = None
  /\ \/ call = "work" /\ call' = "retry" /\ bql' = None /\ ResetReady
     \/ call = "retry" /\ call' = "await" /\ UNCHANGED <<bql, rcu_call_ready_event>>
     \/ call = "again" /\ call' = "relock" /\ UNCHANGED <<bql, rcu_call_ready_event>>
  /\ UNCHANGED <<rcuVars, head, tail, next, rcu_call_count, n, node, relink,
                 writerVars, vcpuVars>>

\* It takes the dummy out and puts it back at the end, in two steps as others.
\* A dummy that is the last node, too, would abort.
TryDummy ==
  /\ Tries /\ relink = None /\ head = Dummy /\ next[head] # None
  /\ head' = next[head] /\ next' = [next EXCEPT ![Dummy] = None]
  /\ relink' = tail /\ tail' = Dummy
  /\ call' = IF tail = Dummy THEN "abort" ELSE call
  /\ UNCHANGED <<rcuVars, rcu_call_count, rcu_call_ready_event, n, node,
                 writerVars, bql, vcpuVars>>

TryRelink ==
  /\ call # "abort" /\ relink # None /\ relink' = None
  /\ next' = [next EXCEPT ![relink] = Dummy]
  /\ UNCHANGED <<rcuVars, head, tail, rcu_call_count, rcu_call_ready_event, n,
                 node, call, writerVars, bql, vcpuVars>>

\* It takes a node out, whose callback runs under the bql.
TryNode ==
  /\ Tries /\ relink = None /\ head # Dummy /\ next[head] # None
  /\ head' = next[head]
  /\ \/ call = "work" /\ Invoke(head) /\ UNCHANGED <<node, call>>
     \/ /\ call # "work" /\ node' = head /\ call' = "relock"
        /\ UNCHANGED <<rcuVars, n, writerVars>>
  /\ UNCHANGED <<tail, next, rcu_call_count, rcu_call_ready_event, relink, bql, vcpuVars>>

\* bql_lock; still without a node, the loop drops it again at once.
CallRelock ==
  /\ call = "relock" /\ bql = None
  /\ \/ /\ node = None
        /\ call' = "retry" /\ ResetReady
        /\ UNCHANGED <<bql, rcuVars, n, node, writerVars>>
     \/ /\ node # None
        /\ call' = "work" /\ bql' = Worker
        /\ Invoke(node) /\ node' = None
        /\ UNCHANGED rcu_call_ready_event
  /\ UNCHANGED <<head, tail, next, rcu_call_count, relink, vcpuVars>>

-----------------------------------------------------------------------------
WriterStep(w) == Enqueue(w) \/ Link(w) \/ Count(w) \/ Ready(w)

\* The steps of call_rcu_thread that do not wait for the bql.
CallStep ==
  \/ CallNone \/ CallCheck \/ CallWait \/ CallWoken \/ CallCount \/ CallStart
  \/ CallSync \/ CallDone \/ TryNull \/ TryDummy \/ TryRelink \/ TryNode

CallNext ==
  \/ \E r \in Reader : Reads(r) \/ Leaves(r)
  \/ \E v \in Vcpu : AccessStart(v) \/ AccessLock(v) \/ AccessEnd(v)
  \/ \E w \in Writer : Update(w) \/ WriterStep(w)
  \/ drain_call_rcu \/ DrainWait \/ DrainLock
  \/ CallStep \/ CallLock \/ CallRelock

\* Threads go on: a thread that wants the bql gets it some time, and a vCPU
\* that was kicked leaves the guest, but it may stay there as long as it was
\* not.
CallSpec ==
  /\ CallInit /\ [][CallNext]_allVars
  /\ WF_allVars(CallStep) /\ SF_allVars(CallLock \/ CallRelock)
  /\ \A w \in Writer : WF_allVars(WriterStep(w))
  /\ WF_allVars(DrainWait) /\ SF_allVars(DrainLock)
  /\ \A r \in Reader : WF_allVars(Reads(r) /\ ReaderStep(r))
  /\ \A r \in Reader \ Vcpu : WF_allVars(Leaves(r))
  /\ \A v \in Vcpu :
       /\ WF_allVars(AccessLock(v) \/ AccessEnd(v))
       /\ SF_allVars(v \in notified /\ Leaves(v))

-----------------------------------------------------------------------------
\* The queue hands over no object too early: whatever the order in which
\* writers take their places, link their nodes and count them, the n callbacks
\* of a round belong to objects removed before its grace period began ("we only
\* must process elements that were added before synchronize_rcu() starts").
ImplementsRcu == Spec

\* As long as every reader leaves its sections now and then, what was removed
\* is reclaimed: no wake-up is lost between rcu_read_unlock and wait_for_readers
\* or between call_rcu1 and call_rcu_thread, a reader that enters again at once
\* does not extend the wait, and nobody waits for the bql in a circle. This is
\* for a rcu_gp_ctr that fits the unsigned copy rcu_read_lock takes: where it
\* has wrapped, a reader's copy never equals it again.
EveryObjectReclaimed ==
  (\A r \in Reader : []<>(ctr[r] = 0)) => []<>(retired \subseteq freed)

\* What Main had removed before a drain_call_rcu of its own is reclaimed when
\* that is about to return, since the queue keeps its order.
DrainedInOrder == up[Main] = "relock" => mine \subseteq freed

\* drain_call_rcu returns when no grace period is under way as it begins to
\* wait, although a vCPU leaves its section only if it is kicked, and the
\* objects that its caller had removed before are reclaimed then, since the
\* queue keeps its order.
DrainReturns ==
  /\ up[Main] = "drain" /\ call # "sync" ~> up[Main] = "relock"
  /\ []DrainedInOrder
=============================================================================
