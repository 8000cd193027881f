---------------------------- MODULE VcpusProofs -----------------------------
(***************************************************************************)
(* Proofs about the vCPU threads and the main loop, for any finite set of  *)
(* vCPUs, any queued work and any requests for a reset.                    *)
(*                                                                         *)
(* What each step does comes first, given that the marked CPUs can be      *)
(* counted: to an exclusive section, to the kicks, to the bql and to the   *)
(* pause.  Then come the count, the exclusive sections on their own, and   *)
(* the invariants of the threads together.                                 *)
(***************************************************************************)
EXTENDS Vcpus, TLAPS

(* The exclusive sections *)

\* Between the write of 1 to pending_cpus and its reset to 0.
Owner == {"se_scan", "se_wait", "exclusive", "xe_lock"}

\* Where a CPU is from the time it is seen running until it counts itself off.
Seen == {"es_check", "es_lock", "exec", "ee_check", "ee_lock"}

Marked == {c \in CPU : has_waiter[c]}

OneOwner ==
  /\ \A c, d \in CPU : pc[c] \in Owner /\ pc[d] \in Owner => c = d
  /\ \A c \in CPU : pc[c] \in Owner => pending_cpus # 0
  /\ (\A c \in CPU : pc[c] \notin Owner)
       => pending_cpus = 0 /\ \A c \in CPU : ~has_waiter[c]

Places ==
  \A c \in CPU :
    /\ lock = c <=> pc[c] = "se_scan"
    /\ pc[c] \in {"es_check", "es_lock", "exec"} => running[c]
    /\ running[c] => pc[c] \in {"es_check", "es_lock", "exec", "exclusive"}
    /\ has_waiter[c] => pc[c] \in Seen
    /\ pc[c] = "exclusive" => exclusive_context_count[c] # 0

\* Which guests may still run, by how far the owner is.
Scanning ==
  \A c \in CPU : pc[c] = "se_scan" =>
    /\ pending_cpus = 1 /\ running_cpus = Cardinality(Marked)
    /\ \A d \in CPU : has_waiter[d] => d \notin todo
    /\ \A d \in CPU : d \notin todo /\ pc[d] = "exec" => has_waiter[d]

Waiting ==
  \A c \in CPU : pc[c] = "se_wait" =>
    /\ pending_cpus = Cardinality(Marked) + 1
    /\ \A d \in CPU : pc[d] = "exec" => has_waiter[d]

Inside ==
  \A c \in CPU : pc[c] \in {"exclusive", "xe_lock"} =>
    /\ pending_cpus = 1
    /\ \A d \in CPU : ~has_waiter[d] /\ pc[d] # "exec"

IInv == TypeOK /\ OneOwner /\ Places /\ Scanning /\ Waiting /\ Inside

\* What the steps use of counting: no CPU, one more, one less.
Counting ==
  /\ Cardinality({}) = 0 /\ Cardinality(Marked) \in Nat
  /\ Cardinality(Marked) = 0 <=> \A c \in CPU : ~has_waiter[c]
  /\ \A c \in CPU \ Marked : Cardinality(Marked \cup {c}) = Cardinality(Marked) + 1
  /\ \A c \in Marked : Cardinality(Marked \ {c}) = Cardinality(Marked) - 1

\* A step that marks no CPU and counts none off: the thread keeps its part in
\* the section, and gets into the guest when none is open or when it is marked.
Quiet(c) ==
  /\ UNCHANGED <<lock, pending_cpus, has_waiter, todo, running_cpus>>
  /\ \A d \in CPU \ {c} : /\ pc'[d] = pc[d] /\ running'[d] = running[d]
                         /\ exclusive_context_count'[d] = exclusive_context_count[d]
  /\ \/ pc'[c] = pc[c] \/ (pc[c] = "exclusive" /\ pc'[c] = "xe_lock")
     \/ /\ pc[c] \notin Owner /\ pc'[c] \notin Owner
        /\ pc'[c] = "exec" => pending_cpus = 0 \/ has_waiter[c]
  /\ has_waiter[c] => pc'[c] \in Seen
  /\ pc'[c] \in {"es_check", "es_lock", "exec"} => running'[c]
  /\ running'[c] => pc'[c] \in {"es_check", "es_lock", "exec", "exclusive"}
  /\ pc'[c] = "exclusive" => exclusive_context_count'[c] # 0

-----------------------------------------------------------------------------
\* The invariant holds when no vCPU has started.
LEMMA InitIInv == Init => IInv
BY CpuAssumption DEF Init, IInv, TypeOK, OneOwner, Places, Scanning, Waiting,
   Inside, Owner, Seen, Place

\* The steps of a thread that are quiet.
LEMMA QuietFrame ==
  ASSUME TypeOK, Places, NEW c \in CPU, pending_cpus = 0 => ~has_waiter[c],
         StartRunning(c) \/ StartCheck(c) \/ StartCounted(c) \/ StartIdle(c)
         \/ EndRunning(c) \/ EndRequested(c) \/ EndCheck(c) \/ ExitSeen(c) \/ CallExclusive(c)
         \/ ExclusiveIdle(c) \/ ExclusiveNest(c) \/ StepAtomic(c) \/ EndExclusive(c)
         \/ SpuriousWakeup(c)
  PROVE  TypeOK' /\ Quiet(c)
<1> USE DEF TypeOK, Places, Quiet, Goto, Owner, Seen, Place
<1>1. CASE StartRunning(c)
  BY Zenon, <1>1 DEF StartRunning
<1>2. CASE StartCheck(c)
  BY Zenon, <1>2 DEF StartCheck
<1>3. CASE StartCounted(c)
  BY Zenon, <1>3 DEF StartCounted
<1>4. CASE StartIdle(c)
  <2>1. ~has_waiter[c]
    BY Zenon, <1>4 DEF StartIdle
  <2>2. CASE pending_cpus = 0
    <3>1. running' = [running EXCEPT ![c] = TRUE]
      BY Zenon, <1>4, <2>2 DEF StartIdle
    <3>2. pc' = [pc EXCEPT ![c] = "exec"]
      BY Zenon, <1>4, <2>2 DEF StartIdle
    <3> QED
      BY Zenon, <1>4, <2>1, <2>2, <3>1, <3>2 DEF StartIdle
  <2>3. CASE pending_cpus # 0
    <3>1. running' = [running EXCEPT ![c] = FALSE]
      BY Zenon, <1>4, <2>3 DEF StartIdle
    <3>2. pc' = [pc EXCEPT ![c] = "es_idle"]
      BY Zenon, <1>4, <2>3 DEF StartIdle
    <3> QED
      BY <1>4, <2>1, <2>3, <3>1, <3>2 DEF StartIdle
  <2> QED
    BY Zenon, <2>2, <2>3
<1>5. CASE EndRunning(c)
  BY Zenon, <1>5 DEF EndRunning
<1>6. CASE EndCheck(c)
  BY Zenon, <1>6 DEF EndCheck
<1>7. CASE ExitSeen(c)
  BY Zenon, <1>7 DEF ExitSeen
<1>8. CASE CallExclusive(c)
  BY Zenon, <1>8 DEF CallExclusive
<1>9. CASE ExclusiveIdle(c)
  BY Zenon, <1>9 DEF ExclusiveIdle
<1>10. CASE ExclusiveNest(c)
  BY <1>10 DEF ExclusiveNest
<1>11. CASE StepAtomic(c)
  BY Zenon, <1>11 DEF StepAtomic
<1>12. CASE EndExclusive(c)
  BY <1>12 DEF EndExclusive
<1>13. CASE SpuriousWakeup(c)
  BY Zenon, <1>13 DEF SpuriousWakeup
<1>14. CASE EndRequested(c)
  BY Zenon, <1>14 DEF EndRequested
<1> QED
  BY Zenon, <1>1, <1>2, <1>3, <1>4, <1>5, <1>6, <1>7, <1>8, <1>9, <1>10, <1>11, <1>12, <1>13, <1>14

\* A step of a thread that neither marks a CPU nor counts one off, and that
\* does not change who owns the section.
LEMMA QuietStep ==
  ASSUME IInv, NEW c \in CPU,
         StartRunning(c) \/ StartCheck(c) \/ StartCounted(c) \/ StartIdle(c)
         \/ EndRunning(c) \/ EndRequested(c) \/ EndCheck(c) \/ ExitSeen(c) \/ CallExclusive(c)
         \/ ExclusiveIdle(c) \/ ExclusiveNest(c) \/ StepAtomic(c) \/ EndExclusive(c)
         \/ SpuriousWakeup(c)
  PROVE  IInv'
<1>0. TypeOK /\ OneOwner /\ Places /\ Scanning /\ Waiting /\ Inside
  BY Zenon DEF IInv
<1>1. pending_cpus = 0 => ~has_waiter[c]
  BY Zenon, <1>0 DEF OneOwner
<1>2. TypeOK' /\ Quiet(c)
  BY Zenon, <1>0, <1>1, QuietFrame
<1>3. Marked' = Marked
  BY Zenon, <1>2 DEF Quiet, Marked
<1>4. OneOwner'
  BY Zenon, <1>0, <1>2 DEF Quiet, OneOwner, Owner
<1>5. Places'
  BY <1>0, <1>2, CpuAssumption DEF Quiet, Places, Owner
<1>6. Scanning'
  BY Zenon, <1>0, <1>2, <1>3 DEF Quiet, OneOwner, Scanning, Owner
<1>7. Waiting'
  BY <1>0, <1>2, <1>3 DEF Quiet, OneOwner, Waiting, Owner
<1>8. Inside'
  BY <1>0, <1>2 DEF Quiet, OneOwner, Inside, Owner
<1> QED
  BY Zenon, <1>2, <1>4, <1>5, <1>6, <1>7, <1>8 DEF IInv

\* start_exclusive opens a section only when none is open; nobody is marked.
LEMMA BeginStep ==
  ASSUME IInv, Counting, NEW c \in CPU, ExclusiveBegin(c)
  PROVE  IInv'
<1>1. \A d \in CPU : pc[d] \notin Owner /\ ~has_waiter[d]
  BY Zenon DEF ExclusiveBegin, IInv, OneOwner
<1>2. Marked' = {}
  BY Zenon, <1>1 DEF ExclusiveBegin, Marked
<1>3. Cardinality(Marked') = 0
  BY Zenon, <1>2 DEF Counting
<1> QED
  BY <1>1, <1>3, CpuAssumption DEF ExclusiveBegin, IInv, TypeOK, OneOwner, Places,
     Scanning, Waiting, Inside, CanLock, Owner, Seen, Place

\* The loop of start_exclusive: a CPU that is seen running is marked and
\* counted, one that is not cannot get into the guest any more.
LEMMA ScanStep ==
  ASSUME IInv, Counting, NEW c \in CPU, NEW o \in CPU, ExclusiveScan(c, o)
  PROVE  IInv'
<1>0. TypeOK'
  <2>1. CASE running[o]
    <3>1. has_waiter' = [has_waiter EXCEPT ![o] = TRUE]
      BY Zenon, <2>1 DEF ExclusiveScan
    <3>2. exit_request' = [exit_request EXCEPT ![o] = TRUE]
      BY Zenon, <2>1 DEF ExclusiveScan
    <3> QED
      BY <2>1, <3>1, <3>2 DEF ExclusiveScan, IInv, TypeOK
  <2>2. CASE ~running[o]
    BY Zenon, <2>2 DEF ExclusiveScan, IInv, TypeOK
  <2> QED
    BY Zenon, <2>1, <2>2
<1> USE CpuAssumption DEF ExclusiveScan, IInv, TypeOK, OneOwner, Places,
      Scanning, Waiting, Inside, CanLock, Owner, Seen, Place
<1>1. CASE running[o]
  <2>1. ~has_waiter[o] /\ pc[o] \in {"es_check", "es_lock", "exec"}
    BY Zenon, <1>1
  <2>2. Marked' = Marked \cup {o} /\ o \notin Marked
    BY <1>1, <2>1 DEF Marked
  <2>3. Cardinality(Marked') = Cardinality(Marked) + 1
    BY Zenon, <2>2 DEF Counting
  <2>4. OneOwner' /\ Places'
    BY <1>1, <2>1
  <2>5. Scanning'
    BY <1>1, <2>1, <2>3 DEF Counting
  <2>6. Waiting' /\ Inside'
    BY Zenon, <1>1, <2>1
  <2> QED
    BY Zenon, <1>0, <2>4, <2>5, <2>6
<1>2. CASE ~running[o]
  <2>1. Marked' = Marked
    BY <1>2 DEF Marked
  <2> QED
    BY <1>2, <2>1
<1> QED
  BY Zenon, <1>1, <1>2

\* The end of the loop and of the wait: the section is entered when nobody is
\* marked, and then nobody is in the guest.
LEMMA EnterStep ==
  ASSUME IInv, Counting, NEW c \in CPU, ExclusiveCount(c) \/ ExclusiveWait(c)
  PROVE  IInv'
<1>1. Marked' = Marked
  BY Zenon DEF ExclusiveCount, ExclusiveWait, Marked
<1> USE <1>1, CpuAssumption DEF Counting, IInv, TypeOK, OneOwner, Places,
      Scanning, Waiting, Inside, CanLock, Owner, Seen, Place
<1>2. CASE ExclusiveCount(c)
  BY <1>2 DEF ExclusiveCount
<1>3. CASE ExclusiveWait(c)
  BY <1>3 DEF ExclusiveWait
<1> QED
  BY Zenon, <1>2, <1>3

\* end_exclusive closes the section; the CPUs it lets go are not marked.
LEMMA EndStep ==
  ASSUME IInv, NEW c \in CPU, EndExclusiveLocked(c)
  PROVE  IInv'
<1>1. Marked' = Marked
  BY Zenon DEF EndExclusiveLocked, Marked
<1> QED
  BY <1>1, CpuAssumption DEF EndExclusiveLocked, IInv, TypeOK, OneOwner, Places,
     Scanning, Waiting, Inside, Goto, CanLock, Owner, Seen, Place

\* cpu_exec_end counts a marked CPU off: the owner still waits then.
LEMMA ReleaseStep ==
  ASSUME IInv, Counting, NEW c \in CPU, EndRelease(c)
  PROVE  IInv'
<1> USE CpuAssumption DEF EndRelease, IInv, TypeOK, OneOwner, Places,
      Scanning, Waiting, Inside, Goto, CanLock, Owner, Seen, Place
<1>1. CASE has_waiter[c]
  <2>1. Marked' = Marked \ {c} /\ c \in Marked
    BY Zenon, <1>1 DEF Marked
  <2>2. /\ Cardinality(Marked') = Cardinality(Marked) - 1
        /\ Cardinality(Marked) \in Nat /\ Cardinality(Marked) # 0
    BY Zenon, <1>1, <2>1 DEF Counting
  <2>3. PICK d \in CPU : pc[d] = "se_wait"
    BY <1>1
  <2>4. d # c /\ pc'[d] = "se_wait" /\ pending_cpus' # 0
    BY <1>1, <2>2, <2>3
  <2> QED
    BY <1>1, <2>2, <2>3, <2>4
<1>2. CASE ~has_waiter[c]
  <2>1. Marked' = Marked
    BY Zenon, <1>2 DEF Marked
  <2> QED
    BY <1>2, <2>1
<1> QED
  BY Zenon, <1>1, <1>2

\* A step inside the functions of Exclusive keeps their invariant.
LEMMA InternalInv ==
  ASSUME IInv, Counting, NEW c \in CPU, Internal(c)
  PROVE  IInv'
BY Zenon, QuietStep, BeginStep, ScanStep, EnterStep, EndStep, ReleaseStep DEF Internal

\* The invariant of the exclusive sections does not depend on exit_request.
LEMMA KickInv ==
  ASSUME IInv, NEW S, Kick(S)
  PROVE  IInv'
<1>1. Marked' = Marked
  BY Zenon DEF Kick, Marked
<1>2. exit_request' \in [CPU -> BOOLEAN]
  BY Zenon DEF Kick
<1> QED
  BY Zenon, <1>1, <1>2 DEF Kick, IInv, TypeOK, OneOwner, Places, Scanning, Waiting, Inside

\* Steps that leave the exclusive sections alone.
LEMMA SameInv == IInv /\ UNCHANGED vars => IInv'
<1> SUFFICES ASSUME IInv, UNCHANGED vars PROVE IInv'
  BY Zenon
<1>1. Marked' = Marked
  BY Zenon DEF vars, Marked
<1> QED
  BY Zenon, <1>1 DEF vars, IInv, TypeOK, OneOwner, Places, Scanning, Waiting, Inside

\* Every step of the threads is a step of Exclusive, a kick, or leaves it alone.
LEMMA IInvStep ==
  ASSUME IInv, Counting, VNext
  PROVE  IInv'
<1>1. ASSUME NEW c \in CPU, VcpuLock(c) PROVE IInv'
  <2>1. CASE MmioLock(c) \/ EventWake(c) \/ SafeLock(c)
    BY Zenon, <2>1, SameInv DEF MmioLock, To, EventWake, SafeLock
  <2>2. CASE AtomicLock(c) \/ BackLock(c)
    BY Zenon, <2>2, QuietStep DEF AtomicLock, To, BackLock
  <2> QED
    BY Zenon, <1>1, <2>1, <2>2 DEF VcpuLock
<1>2. ASSUME NEW c \in CPU, VcpuStep(c) PROVE IInv'
  BY Zenon, <1>2, SameInv, QuietStep, InternalInv, KickInv DEF VcpuStep, LoopTop, To, Enter, Inner,
     MmioDone, QueueKick, StepBegin, StepLeave, EventIdle, EventSleep, EventCommon,
     WorkItem, WorkSafe, SafeEnd, WorkDone
<1>3. ASSUME NEW c \in CPU, GuestStep(c) PROVE IInv'
  <2>1. CASE Unhalt(c) \/ Access(c) \/ MmioReset(c)
    BY Zenon, <2>1, SameInv, KickInv DEF Unhalt, Access, MmioReset, To
  <2>2. CASE \E d \in CPU, item \in {"async", "safe"} : Queue(c, d, item)
    BY Zenon, <2>2, SameInv DEF Queue
  <2>3. CASE LeaveHalted(c) \/ LeaveAtomic(c)
    BY Zenon, <2>3, QuietStep DEF LeaveHalted, To, LeaveAtomic
  <2> QED
    BY Zenon, <1>3, <2>1, <2>2, <2>3 DEF GuestStep
<1>4. ASSUME NEW c \in CPU,
             \/ LeaveKicked(c) \/ StepEnd(c) \/ SafeNest(c)
             \/ SpuriousWakeup(c) /\ UNCHANGED <<bql, at, loop>>
      PROVE  IInv'
  BY Zenon, <1>4, QuietStep DEF LeaveKicked, To, StepEnd, SafeNest, SpuriousWakeup
<1>5. CASE MainLock
  BY Zenon, <1>5, SameInv, KickInv DEF MainLock, MainWake, MainRunWake, PauseWake, PauseLock
<1>6. CASE MainStep
  BY Zenon, <1>6, SameInv, KickInv DEF MainStep, MainRunWait, PauseWait, ResetResume
<1>7. CASE MainLeave
  BY Zenon, <1>7, SameInv, KickInv DEF MainLeave, MainIdle, PauseAll
<1>8. CASE MainHandler
  <2>1. CASE \E c \in CPU : MainInterrupt(c)
    BY Zenon, <2>1, KickInv DEF MainInterrupt
  <2>2. CASE \E c \in CPU : MainRunOnCpu(c)
    BY Zenon, <2>2, KickInv DEF MainRunOnCpu
  <2>3. CASE \E c \in CPU, item \in {"async", "safe"} : MainQueue(c, item)
    BY Zenon, <2>3, KickInv DEF MainQueue
  <2>4. CASE MainResetRequest
    BY Zenon, <2>4, SameInv DEF MainResetRequest
  <2> QED
    BY Zenon, <1>8, <2>1, <2>2, <2>3, <2>4 DEF MainHandler
<1>9. ASSUME NEW t \in CPU \cup {Main}, SpuriousWake(t) PROVE IInv'
  BY Zenon, <1>9, SameInv DEF SpuriousWake
<1> QED
  BY Zenon, <1>1, <1>2, <1>3, <1>4, <1>5, <1>6, <1>7, <1>8, <1>9 DEF VNext

\* What the invariant says of the types.
LEMMA InvTypes ==
  ASSUME IInv
  PROVE  /\ pc \in [CPU -> Place] /\ running \in [CPU -> BOOLEAN]
         /\ exclusive_context_count \in [CPU -> Nat] /\ exit_request \in [CPU -> BOOLEAN]
BY Zenon DEF IInv, TypeOK

-----------------------------------------------------------------------------
(* The places of a thread, and the kicks *)

\* What the proofs need of the types.
Types ==
  /\ at \in [CPU -> Spot] /\ work \in [CPU -> Seq(Item)]
  /\ stop \in [CPU -> BOOLEAN] /\ stopped \in [CPU -> BOOLEAN]
  /\ kicks \in [CPU -> CPU \cup {NoCpu}]

\* Where a vCPU thread is in this module and in Exclusive.
AtPc ==
  \A c \in CPU :
    /\ at[c] \in {"loop", "enter", "event", "idle", "asleep", "work"} => pc[c] = "outside"
    /\ at[c] = "guest" => pc[c] \in {"es_check", "es_lock", "es_idle", "exec"}
    /\ at[c] \in {"mmio_lock", "mmio"} => pc[c] = "exec" \/ (pc[c] = "exclusive" /\ running[c])
    /\ at[c] \in {"back", "atomic"} => pc[c] \in {"ee_check", "ee_lock", "xe_lock", "outside"}
    /\ at[c] = "step" => pc[c] \in {"se_lock", "se_idle", "se_scan", "se_wait", "exclusive"}
    /\ at[c] \in {"safe", "unwind"} =>
         /\ pc[c] \in {"se_lock", "se_idle", "se_scan", "se_wait", "exclusive"}
         /\ ~running[c]
    /\ at[c] = "stepped" => pc[c] = "exclusive" /\ ~running[c]
    /\ at[c] = "safe_done" => pc[c] \in {"xe_lock", "outside"}
    /\ pc[c] = "exclusive" /\ at[c] \notin {"safe", "unwind"} => exclusive_context_count[c] = 1

\* Who is past the look at the queue is kicked for what is queued later.
Kicked ==
  \A c \in CPU :
    /\ at[c] \notin {"back", "event", "idle", "asleep", "work", "safe", "unwind", "safe_done"}
    /\ work[c] # << >>
    => exit_request[c] \/ \E d \in CPU : kicks[d] = c

\* Such a step moves one thread, towards the end of the function it is in.
LEMMA InternalPc ==
  ASSUME IInv, NEW c \in CPU, Internal(c)
  PROVE  /\ \A d \in CPU \ {c} : /\ pc'[d] = pc[d] /\ running'[d] = running[d]
                                /\ exclusive_context_count'[d] = exclusive_context_count[d]
         /\ \A d \in CPU : exit_request[d] => exit_request'[d]
         /\ pc[c] \notin {"outside", "exec", "exclusive"}
         /\ pc[c] \in {"es_check", "es_lock", "es_idle"}
              => pc'[c] \in {"es_lock", "es_idle", "exec"}
         /\ pc[c] \in {"ee_check", "ee_lock", "xe_lock"} => pc'[c] \in {"ee_lock", "outside"}
         /\ pc[c] = "xe_lock" => pc'[c] = "outside"
         /\ pc[c] \in {"se_lock", "se_idle", "se_scan", "se_wait"}
              => /\ pc'[c] \in {"se_idle", "se_scan", "se_wait", "exclusive"}
                 /\ running'[c] = running[c]
         /\ pc'[c] = "exclusive" => exclusive_context_count'[c] = 1
<1> USE DEF IInv, TypeOK, Places, Place, Goto
<1>1. CASE StartCheck(c) \/ StartCounted(c) \/ StartIdle(c)
  BY <1>1 DEF StartCheck, StartCounted, StartIdle
<1>2. CASE EndCheck(c) \/ EndRelease(c) \/ EndExclusiveLocked(c)
  BY Zenon, <1>2 DEF EndCheck, EndRelease, EndExclusiveLocked
<1>3. CASE ExclusiveIdle(c) \/ ExclusiveBegin(c)
  BY Zenon, <1>3 DEF ExclusiveIdle, ExclusiveBegin
<1>4. CASE \E other \in CPU : ExclusiveScan(c, other)
  BY Zenon, <1>4 DEF ExclusiveScan
<1>5. CASE ExclusiveCount(c) \/ ExclusiveWait(c)
  BY Zenon, <1>5 DEF ExclusiveCount, ExclusiveWait
<1> QED
  BY Zenon, <1>1, <1>2, <1>3, <1>4, <1>5 DEF Internal

\* Every step moves a thread in step in both modules.
LEMMA AtPcStep ==
  ASSUME Types, IInv, AtPc, VNext
  PROVE  AtPc'
<1>0. /\ pc \in [CPU -> Place] /\ running \in [CPU -> BOOLEAN]
      /\ exclusive_context_count \in [CPU -> Nat] /\ at \in [CPU -> Spot]
  BY Zenon, InvTypes DEF Types
<1> USE <1>0
<1>1. ASSUME NEW c \in CPU, VcpuLock(c) PROVE AtPc'
  BY <1>1 DEF VcpuLock, MmioLock, To, loop, vars, AtomicLock, CallExclusive, Goto, BackLock,
     ExitSeen, EventWake, SafeLock, AtPc
<1>2. ASSUME NEW c \in CPU, VcpuStep(c) PROVE AtPc'
  <2>1. CASE LoopTop(c)
    BY <2>1 DEF LoopTop, To, loop, ExitSeen, vars, AtPc
  <2>2. CASE Enter(c)
    BY Zenon, <2>2 DEF Enter, To, loop, StartRunning, Goto, AtPc
  <2>3. CASE Inner(c)
    BY <2>3, InternalPc DEF Inner, loop, AtPc
  <2>4. CASE MmioDone(c) \/ QueueKick(c) \/ StepBegin(c)
    BY <2>4 DEF MmioDone, To, vars, QueueKick, Kick, StepBegin, loop, StepAtomic, Goto, AtPc
  <2>5. CASE StepLeave(c) \/ EventIdle(c) \/ EventSleep(c)
    BY <2>5 DEF StepLeave, To, loop, EndExclusive, Goto, EventIdle, vars, EventSleep,
       AtPc
  <2>6. CASE EventCommon(c) \/ WorkItem(c) \/ WorkDone(c)
    BY <2>6 DEF EventCommon, To, vars, WorkItem, loop, WorkDone, AtPc
  <2>8. CASE SafeEnd(c)
    BY <2>8 DEF SafeEnd, To, loop, EndExclusive, AtPc
  <2>7. CASE WorkSafe(c)
    <3>1. ~running[c]
      BY Zenon, <2>7 DEF WorkSafe, CallExclusive, Goto, IInv, Places
    <3>2. /\ running' = running /\ exclusive_context_count' = exclusive_context_count
          /\ at' = [at EXCEPT ![c] = "safe"] /\ pc' = [pc EXCEPT ![c] = "se_lock"]
      BY Zenon, <2>7 DEF WorkSafe, To, CallExclusive, Goto
    <3> QED
      BY <3>1, <3>2 DEF AtPc
  <2> QED
    BY Zenon, <1>2, <2>1, <2>2, <2>3, <2>4, <2>5, <2>6, <2>7, <2>8 DEF VcpuStep
<1>3. ASSUME NEW c \in CPU, GuestStep(c) PROVE AtPc'
  <2>1. CASE Unhalt(c) \/ MmioReset(c)
    BY <2>1 DEF Unhalt, vars, MmioReset, To, Kick, AtPc
  <2>2. CASE \E d \in CPU, item \in {"async", "safe"} : Queue(c, d, item)
    BY <2>2 DEF Queue, InGuest, vars, AtPc
  <2>3. CASE LeaveHalted(c) \/ LeaveAtomic(c)
    <3>1. /\ pc[c] = "exec" /\ pc' = [pc EXCEPT ![c] = "ee_check"]
          /\ running' = [running EXCEPT ![c] = FALSE]
          /\ exclusive_context_count' = exclusive_context_count
          /\ at' = [at EXCEPT ![c] = "back"] \/ at' = [at EXCEPT ![c] = "atomic"]
      BY Zenon, <2>3 DEF LeaveHalted, To, EndRunning, Goto, LeaveAtomic
    <3> QED
      BY <3>1 DEF AtPc
  <2>4. CASE Access(c)
    <3>1. at[c] \notin {"safe", "unwind"} /\ (pc[c] = "exec" \/ (pc[c] = "exclusive" /\ running[c]))
      BY Zenon, <2>4 DEF Access, InGuest, AtPc, IInv, Places
    <3>2. /\ at' = [at EXCEPT ![c] = "mmio_lock"] /\ pc' = pc /\ running' = running
          /\ exclusive_context_count' = exclusive_context_count
      BY Zenon, <2>4 DEF Access, vars
    <3> QED
      BY <3>1, <3>2 DEF AtPc
  <2> QED
    BY Zenon, <1>3, <2>1, <2>2, <2>3, <2>4 DEF GuestStep
<1>4. ASSUME NEW c \in CPU,
             \/ LeaveKicked(c) \/ StepEnd(c) \/ SafeNest(c)
             \/ SpuriousWakeup(c) /\ UNCHANGED <<bql, at, loop>>
      PROVE  AtPc'
  <2>1. CASE LeaveKicked(c) \/ (SpuriousWakeup(c) /\ UNCHANGED <<bql, at, loop>>)
    BY <2>1 DEF LeaveKicked, To, loop, InGuest, EndRequested, Goto, SpuriousWakeup,
       AtPc
  <2>2. CASE StepEnd(c)
    <3>1. /\ pc[c] = "exclusive" /\ pc' = pc /\ running' = [running EXCEPT ![c] = FALSE]
          /\ exclusive_context_count' = exclusive_context_count
          /\ at[c] = "step" /\ at' = [at EXCEPT ![c] = "stepped"]
      BY <2>2, Zenon DEF StepEnd, InGuest, To, StepAtomic
    <3> QED
      BY <3>1 DEF AtPc
  <2>3. CASE SafeNest(c)
    BY Zenon, <2>3 DEF SafeNest, ExclusiveNest, loop, AtPc
  <2> QED
    BY Zenon, <1>4, <2>1, <2>2, <2>3
<1>5. CASE MainLock
  BY <1>5 DEF MainLock, MainWake, vars, MainRunWake, PauseWake, Kick, PauseLock,
     AtPc
<1>6. CASE MainStep
  BY <1>6 DEF MainStep, MainRunWait, vars, PauseWait, ResetResume, Kick, AtPc
<1>7. CASE MainLeave
  BY <1>7 DEF MainLeave, MainIdle, vars, PauseAll, Kick, AtPc
<1>8. CASE MainHandler
  <2>1. CASE \E c \in CPU : MainInterrupt(c)
    BY <2>1 DEF MainInterrupt, Kick, AtPc
  <2>2. CASE \E c \in CPU : MainRunOnCpu(c)
    BY <2>2 DEF MainRunOnCpu, Kick, AtPc
  <2>3. CASE \E c \in CPU, item \in {"async", "safe"} : MainQueue(c, item)
    BY <2>3 DEF MainQueue, Kick, AtPc
  <2>4. CASE MainResetRequest
    BY Zenon, <2>4 DEF MainResetRequest, vars, AtPc
  <2> QED
    BY Zenon, <1>8, <2>1, <2>2, <2>3, <2>4 DEF MainHandler
<1>9. ASSUME NEW t \in CPU \cup {Main}, SpuriousWake(t) PROVE AtPc'
  BY Zenon, <1>9 DEF SpuriousWake, vars, AtPc
<1> QED
  BY Zenon, <1>1, <1>2, <1>3, <1>4, <1>5, <1>6, <1>7, <1>8, <1>9 DEF VNext

\* Work is queued with a kick, and exit_request cleared before a look at the queue.
LEMMA KickedStep ==
  ASSUME Types, IInv, Kicked, VNext
  PROVE  Kicked'
<1>0. /\ exit_request \in [CPU -> BOOLEAN] /\ at \in [CPU -> Spot]
      /\ work \in [CPU -> Seq(Item)] /\ kicks \in [CPU -> CPU \cup {NoCpu}]
  BY Zenon, InvTypes DEF Types
<1> USE <1>0
<1>1. ASSUME NEW c \in CPU, VcpuLock(c) PROVE Kicked'
  <2>1. CASE MmioLock(c)
    BY Zenon, <2>1 DEF MmioLock, To, loop, vars, Kicked
  <2>2. CASE AtomicLock(c)
    BY Zenon, <2>2 DEF AtomicLock, To, loop, CallExclusive, Goto, Kicked
  <2>3. CASE BackLock(c)
    <3>1. at'[c] = "event" /\ work' = work /\ kicks' = kicks
      BY Zenon, <2>3 DEF BackLock, To, loop
    <3>2. \A d \in CPU \ {c} : at'[d] = at[d] /\ exit_request'[d] = exit_request[d]
      BY Zenon, <2>3 DEF BackLock, To, ExitSeen
    <3> QED
      BY Zenon, <3>1, <3>2 DEF Kicked
  <2>4. CASE EventWake(c)
    BY Zenon, <2>4 DEF EventWake, To, loop, vars, Kicked
  <2>5. CASE SafeLock(c)
    BY Zenon, <2>5 DEF SafeLock, To, loop, vars, Kicked
  <2> QED
    BY Zenon, <1>1, <2>1, <2>2, <2>3, <2>4, <2>5 DEF VcpuLock
<1>2. ASSUME NEW c \in CPU, VcpuStep(c) PROVE Kicked'
  <2>1. CASE Enter(c)
    BY Zenon, <2>1 DEF Enter, To, loop, StartRunning, Goto, Kicked
  <2>2. CASE MmioDone(c)
    BY Zenon, <2>2 DEF MmioDone, To, vars, Kicked
  <2>3. CASE QueueKick(c)
    BY <2>3, Zenon DEF QueueKick, Kick, Kicked
  <2>4. CASE StepBegin(c)
    BY Zenon, <2>4 DEF StepBegin, loop, StepAtomic, Goto, Kicked
  <2>5. CASE StepLeave(c)
    BY Zenon, <2>5 DEF StepLeave, To, loop, EndExclusive, Goto, Kicked
  <2>6. CASE EventIdle(c)
    BY Zenon, <2>6 DEF EventIdle, To, loop, vars, Kicked
  <2>7. CASE EventSleep(c)
    BY Zenon, <2>7 DEF EventSleep, To, vars, Kicked
  <2>8. CASE EventCommon(c)
    BY Zenon, <2>8 DEF EventCommon, To, vars, Kicked
  <2>9. CASE WorkItem(c)
    BY Zenon, <2>9 DEF WorkItem, vars, Kicked
  <2>10. CASE WorkSafe(c)
    BY Zenon, <2>10 DEF WorkSafe, To, CallExclusive, Goto, Kicked
  <2>11. CASE SafeEnd(c)
    BY Zenon, <2>11 DEF SafeEnd, To, loop, EndExclusive, Goto, Kicked
  <2>12. CASE WorkDone(c)
    BY Zenon, <2>12 DEF WorkDone, To, vars, Kicked
  <2>13. CASE LoopTop(c)
    <3>1. CASE ~stop[c] /\ ~stopped[c]
      BY <2>13, <3>1, Zenon DEF LoopTop, To, loop, vars, Kicked
    <3>2. CASE stop[c] \/ stopped[c]
      <4>1. at'[c] = "event" /\ work' = work /\ kicks' = kicks
        BY Zenon, <2>13, <3>2 DEF LoopTop, To, loop
      <4>2. \A d \in CPU \ {c} : at'[d] = at[d] /\ exit_request'[d] = exit_request[d]
        BY Zenon, <2>13, <3>2 DEF LoopTop, To, ExitSeen
      <4> QED
        BY Zenon, <4>1, <4>2 DEF Kicked
    <3> QED
      BY Zenon, <3>1, <3>2
  <2>14. CASE Inner(c)
    <3>1. \A d \in CPU : exit_request[d] => exit_request'[d]
      BY Zenon, <2>14, InternalPc DEF Inner
    <3> QED
      BY Zenon, <2>14, <3>1 DEF Inner, loop, Kicked
  <2> QED
    BY Zenon, <1>2, <2>1, <2>2, <2>3, <2>4, <2>5, <2>6, <2>7, <2>8, <2>9, <2>10, <2>11, <2>12,
      <2>13, <2>14 DEF VcpuStep
<1>3. ASSUME NEW c \in CPU, GuestStep(c) PROVE Kicked'
  <2>1. CASE Unhalt(c)
    BY Zenon, <2>1 DEF Unhalt, vars, Kicked
  <2>2. CASE Access(c)
    BY Zenon, <2>2 DEF Access, loop, InGuest, vars, Kicked
  <2>3. CASE MmioReset(c)
    BY Zenon, <2>3 DEF MmioReset, To, Kick, Kicked
  <2>4. CASE LeaveHalted(c)
    BY Zenon, <2>4 DEF LeaveHalted, To, InGuest, EndRunning, Goto, Kicked
  <2>5. CASE LeaveAtomic(c)
    BY Zenon, <2>5 DEF LeaveAtomic, To, loop, InGuest, EndRunning, Goto, Kicked
  <2>6. CASE \E d \in CPU, item \in {"async", "safe"} : Queue(c, d, item)
    <3>1. PICK d \in CPU, item \in {"async", "safe"} : Queue(c, d, item)
      BY Zenon, <2>6
    <3>2. /\ at' = at /\ exit_request' = exit_request
          /\ kicks' = [kicks EXCEPT ![c] = d] /\ kicks[c] = NoCpu
          /\ \A e \in CPU \ {d} : work'[e] = work[e]
      BY Zenon, <3>1 DEF Queue, InGuest, vars
    <3>3. kicks'[c] = d
      BY Zenon, <3>2
    <3>4. \A e, x \in CPU : kicks[x] = e => kicks'[x] = e
      BY Zenon, <3>2, CpuAssumption
    <3> QED
      BY <3>2, <3>3, <3>4 DEF Kicked
  <2> QED
    BY Zenon, <1>3, <2>1, <2>2, <2>3, <2>4, <2>5, <2>6 DEF GuestStep
<1>4. ASSUME NEW c \in CPU,
             \/ LeaveKicked(c) \/ StepEnd(c) \/ SafeNest(c)
             \/ SpuriousWakeup(c) /\ UNCHANGED <<bql, at, loop>>
      PROVE  Kicked'
  <2>1. CASE LeaveKicked(c)
    BY Zenon, <2>1 DEF LeaveKicked, To, loop, InGuest, EndRequested, Goto, Kicked
  <2>2. CASE StepEnd(c)
    BY Zenon, <2>2 DEF StepEnd, To, loop, InGuest, StepAtomic, Goto, Kicked
  <2>3. CASE SpuriousWakeup(c) /\ UNCHANGED <<bql, at, loop>>
    BY Zenon, <2>3 DEF SpuriousWakeup, loop, Kicked
  <2>4. CASE SafeNest(c)
    BY Zenon, <2>4 DEF SafeNest, ExclusiveNest, loop, Kicked
  <2> QED
    BY Zenon, <1>4, <2>1, <2>2, <2>3, <2>4
<1>5. CASE MainLock
  BY Zenon, <1>5 DEF MainLock, MainWake, vars, MainRunWake, PauseWake, Kick, PauseLock,
     Kicked
<1>6. CASE MainStep
  BY Zenon, <1>6 DEF MainStep, MainRunWait, vars, PauseWait, ResetResume, Kick, Kicked
<1>7. CASE MainLeave
  BY Zenon, <1>7 DEF MainLeave, MainIdle, vars, PauseAll, Kick, Kicked
<1>8. CASE MainHandler
  <2>1. CASE (\E c \in CPU : MainInterrupt(c)) \/ MainResetRequest
    BY Zenon, <2>1 DEF MainInterrupt, Kick, MainResetRequest, vars, Kicked
  <2>2. CASE \E c \in CPU : MainRunOnCpu(c)
    <3>1. PICK c \in CPU : MainRunOnCpu(c)
      BY Zenon, <2>2
    <3>2. /\ at' = at /\ kicks' = kicks /\ exit_request'[c]
          /\ \A d \in CPU : exit_request[d] => exit_request'[d]
      BY <3>1, Zenon DEF MainRunOnCpu, Kick
    <3>3. \A d \in CPU \ {c} : work'[d] = work[d]
      BY Zenon, <3>1 DEF MainRunOnCpu
    <3> QED
      BY Zenon, <3>2, <3>3 DEF Kicked
  <2>3. CASE \E c \in CPU, item \in {"async", "safe"} : MainQueue(c, item)
    <3>1. PICK c \in CPU, item \in {"async", "safe"} : MainQueue(c, item)
      BY Zenon, <2>3
    <3>2. /\ at' = at /\ kicks' = kicks /\ exit_request'[c]
          /\ \A d \in CPU : exit_request[d] => exit_request'[d]
      BY <3>1, Zenon DEF MainQueue, Kick
    <3>3. \A d \in CPU \ {c} : work'[d] = work[d]
      BY Zenon, <3>1 DEF MainQueue
    <3> QED
      BY Zenon, <3>2, <3>3 DEF Kicked
  <2> QED
    BY Zenon, <1>8, <2>1, <2>2, <2>3 DEF MainHandler
<1>9. ASSUME NEW t \in CPU \cup {Main}, SpuriousWake(t) PROVE Kicked'
  BY Zenon, <1>9 DEF SpuriousWake, vars, Kicked
<1> QED
  BY Zenon, <1>1, <1>2, <1>3, <1>4, <1>5, <1>6, <1>7, <1>8, <1>9 DEF VNext

-----------------------------------------------------------------------------
(* The types, the bql and the pause *)

\* The names of the places, and the kinds of work.
LEMMA SpotFacts ==
  /\ {"loop", "enter", "guest", "mmio_lock", "mmio", "back", "atomic", "step",
      "stepped", "event", "idle", "asleep", "work", "safe", "unwind", "safe_done"} \subseteq Spot
  /\ {"async", "safe", "run"} \subseteq Item
<1>1. {"async", "safe", "run"} \subseteq Item
  BY Zenon DEF Item
<1> QED
  BY Zenon, <1>1 DEF Spot

\* Every step keeps the types.
LEMMA TypesStep ==
  ASSUME Types, VNext
  PROVE  Types'
<1>1. ASSUME NEW c \in CPU, VcpuLock(c) PROVE Types'
  <2>1. CASE MmioLock(c) \/ AtomicLock(c)
    BY Zenon, <2>1, SpotFacts DEF MmioLock, To, loop, AtomicLock, Types
  <2>2. CASE BackLock(c)
    BY Zenon, <2>2, SpotFacts DEF BackLock, To, loop, Types
  <2>3. CASE EventWake(c)
    BY Zenon, <2>3, SpotFacts DEF EventWake, To, loop, Types
  <2>4. CASE SafeLock(c)
    BY Zenon, <2>4, SpotFacts DEF SafeLock, To, loop, Types
  <2> QED
    BY Zenon, <1>1, <2>1, <2>2, <2>3, <2>4 DEF VcpuLock
<1>2. ASSUME NEW c \in CPU, VcpuStep(c) PROVE Types'
  <2>1. CASE LoopTop(c)
    BY Zenon, <2>1, SpotFacts DEF LoopTop, To, loop, Types
  <2>2. CASE Enter(c) \/ Inner(c)
    BY Zenon, <2>2, SpotFacts DEF Enter, To, loop, Inner, Types
  <2>3. CASE MmioDone(c)
    BY Zenon, <2>3, SpotFacts DEF MmioDone, To, Types
  <2>4. CASE QueueKick(c)
    BY Zenon, <2>4, SpotFacts DEF QueueKick, Types
  <2>5. CASE StepBegin(c)
    BY Zenon, <2>5, SpotFacts DEF StepBegin, loop, Types
  <2>6. CASE StepLeave(c)
    BY Zenon, <2>6, SpotFacts DEF StepLeave, To, loop, Types
  <2>7. CASE EventIdle(c)
    BY Zenon, <2>7, SpotFacts DEF EventIdle, To, loop, Types
  <2>8. CASE EventSleep(c)
    BY Zenon, <2>8, SpotFacts DEF EventSleep, To, Types
  <2>9. CASE EventCommon(c)
    BY Zenon, <2>9, SpotFacts DEF EventCommon, To, Types
  <2>10. CASE WorkItem(c)
    BY <2>10, SpotFacts DEF WorkItem, Types
  <2>11. CASE WorkSafe(c)
    BY <2>11, SpotFacts DEF WorkSafe, To, Types
  <2>12. CASE SafeEnd(c) \/ WorkDone(c)
    BY <2>12, SpotFacts, ZenonT(30) DEF SafeEnd, To, loop, WorkDone, Types
  <2> QED
    BY Zenon, <1>2, <2>1, <2>2, <2>3, <2>4, <2>5, <2>6, <2>7, <2>8, <2>9, <2>10, <2>11, <2>12 DEF
      VcpuStep
<1>3. ASSUME NEW c \in CPU, GuestStep(c) PROVE Types'
  <2>1. CASE Unhalt(c)
    BY Zenon, <2>1, SpotFacts DEF Unhalt, Types
  <2>2. CASE Access(c)
    BY Zenon, <2>2, SpotFacts DEF Access, loop, Types
  <2>3. CASE MmioReset(c)
    BY Zenon, <2>3, SpotFacts DEF MmioReset, To, Types
  <2>4. CASE \E d \in CPU, item \in {"async", "safe"} : Queue(c, d, item)
    BY <2>4, SpotFacts DEF Queue, Types
  <2>5. CASE LeaveHalted(c)
    BY Zenon, <2>5, SpotFacts DEF LeaveHalted, To, Types
  <2>6. CASE LeaveAtomic(c)
    BY Zenon, <2>6, SpotFacts DEF LeaveAtomic, To, loop, Types
  <2> QED
    BY Zenon, <1>3, <2>1, <2>2, <2>3, <2>4, <2>5, <2>6 DEF GuestStep
<1>4. ASSUME NEW c \in CPU,
             \/ LeaveKicked(c) \/ StepEnd(c) \/ SafeNest(c)
             \/ SpuriousWakeup(c) /\ UNCHANGED <<bql, at, loop>>
      PROVE  Types'
  <2>1. CASE LeaveKicked(c)
    BY Zenon, <2>1, SpotFacts DEF LeaveKicked, To, loop, Types
  <2>2. CASE StepEnd(c)
    BY Zenon, <2>2, SpotFacts DEF StepEnd, To, loop, Types
  <2>3. CASE SpuriousWakeup(c) /\ UNCHANGED <<bql, at, loop>>
    BY Zenon, <2>3, SpotFacts DEF loop, Types
  <2>4. CASE SafeNest(c)
    BY Zenon, <2>4, SpotFacts DEF SafeNest, loop, Types
  <2> QED
    BY Zenon, <1>4, <2>1, <2>2, <2>3, <2>4
<1>5. CASE MainLock
  BY Zenon, <1>5, SpotFacts DEF MainLock, MainWake, MainRunWake, PauseWake, PauseLock, Types
<1>6. CASE MainStep
  <2>1. CASE MainRunWait
    BY Zenon, <2>1, SpotFacts DEF MainRunWait, Types
  <2>2. CASE PauseWait
    BY Zenon, <2>2, SpotFacts DEF PauseWait, Types
  <2>3. CASE ResetResume
    BY Zenon, <2>3, SpotFacts DEF ResetResume, Types
  <2> QED
    BY Zenon, <1>6, <2>1, <2>2, <2>3 DEF MainStep
<1>7. CASE MainLeave
  <2>1. CASE MainIdle
    BY Zenon, <2>1, SpotFacts DEF MainIdle, Types
  <2>2. CASE PauseAll
    BY Zenon, <2>2, SpotFacts DEF PauseAll, Types
  <2> QED
    BY Zenon, <1>7, <2>1, <2>2 DEF MainLeave
<1>8. CASE MainHandler
  <2>1. CASE \E c \in CPU : MainInterrupt(c)
    BY Zenon, <2>1, SpotFacts DEF MainInterrupt, Types
  <2>2. CASE \E c \in CPU : MainRunOnCpu(c)
    BY <2>2, SpotFacts DEF MainRunOnCpu, Types
  <2>3. CASE \E c \in CPU, item \in {"async", "safe"} : MainQueue(c, item)
    BY <2>3, SpotFacts DEF MainQueue, Types
  <2>4. CASE MainResetRequest
    BY Zenon, <2>4, SpotFacts DEF MainResetRequest, Types
  <2> QED
    BY Zenon, <1>8, <2>1, <2>2, <2>3, <2>4 DEF MainHandler
<1>9. ASSUME NEW t \in CPU \cup {Main}, SpuriousWake(t) PROVE Types'
  BY Zenon, <1>9, SpotFacts DEF SpuriousWake, vars, Types
<1> QED
  BY Zenon, <1>1, <1>2, <1>3, <1>4, <1>5, <1>6, <1>7, <1>8, <1>9 DEF VNext

\* Every step takes and gives up the bql where the threads
\* change between what needs it and what does not.
LEMMA BqlHeldStep ==
  ASSUME Types, BqlHeld, VNext
  PROVE  BqlHeld'
<1>0. at \in [CPU -> Spot] /\ NoCpu \notin CPU /\ Main \notin CPU /\ Main # NoCpu
  BY Zenon, CpuAssumption, MainAssumption DEF Types
<1>10. UNCHANGED loop => main' = main
  BY Zenon DEF loop
<1> USE <1>0, <1>10
<1>1. ASSUME NEW c \in CPU, VcpuLock(c) PROVE BqlHeld'
  BY Zenon, <1>1 DEF VcpuLock, MmioLock, To, BqlLock,
     AtomicLock, BackLock, EventWake, SafeLock, BqlHeld
<1>2. ASSUME NEW c \in CPU, VcpuStep(c) PROVE BqlHeld'
  <2>1. CASE LoopTop(c)
    BY <2>1, Zenon DEF LoopTop, To, BqlHeld
  <2>2. CASE Enter(c) \/ Inner(c)
    BY Zenon, <2>2 DEF Enter, To, Inner, BqlHeld
  <2>3. CASE MmioDone(c)
    BY Zenon, <2>3 DEF MmioDone, To, BqlHeld
  <2>4. CASE QueueKick(c)
    BY Zenon, <2>4 DEF QueueKick, BqlHeld
  <2>5. CASE StepBegin(c) \/ StepLeave(c)
    BY Zenon, <2>5 DEF StepBegin, StepLeave, To, BqlHeld
  <2>6. CASE EventIdle(c)
    BY Zenon, <2>6 DEF EventIdle, To, BqlHeld
  <2>7. CASE EventSleep(c)
    BY Zenon, <2>7 DEF EventSleep, To, BqlHeld
  <2>8. CASE EventCommon(c)
    BY Zenon, <2>8 DEF EventCommon, To, BqlHeld
  <2>9. CASE WorkItem(c)
    BY Zenon, <2>9 DEF WorkItem, BqlHeld
  <2>10. CASE WorkSafe(c)
    BY Zenon, <2>10 DEF WorkSafe, To, BqlHeld
  <2>11. CASE SafeEnd(c) \/ WorkDone(c)
    BY Zenon, <2>11 DEF SafeEnd, To, WorkDone, BqlHeld
  <2> QED
    BY Zenon, <1>2, <2>1, <2>2, <2>3, <2>4, <2>5, <2>6, <2>7, <2>8, <2>9, <2>10, <2>11 DEF VcpuStep
<1>3. ASSUME NEW c \in CPU, GuestStep(c) PROVE BqlHeld'
  <2>1. CASE Unhalt(c)
    BY Zenon, <2>1 DEF Unhalt, BqlHeld
  <2>2. CASE Access(c)
    BY Zenon, <2>2 DEF Access, InGuest, BqlHeld
  <2>3. CASE MmioReset(c)
    BY Zenon, <2>3 DEF MmioReset, To, BqlHeld
  <2>4. CASE \E d \in CPU, item \in {"async", "safe"} : Queue(c, d, item)
    BY Zenon, <2>4 DEF Queue, InGuest, BqlHeld
  <2>5. CASE LeaveHalted(c) \/ LeaveAtomic(c)
    BY <2>5, Zenon DEF LeaveHalted, To, InGuest, LeaveAtomic, BqlHeld
  <2> QED
    BY Zenon, <1>3, <2>1, <2>2, <2>3, <2>4, <2>5 DEF GuestStep
<1>4. ASSUME NEW c \in CPU,
             \/ LeaveKicked(c) \/ StepEnd(c) \/ SafeNest(c)
             \/ SpuriousWakeup(c) /\ UNCHANGED <<bql, at, loop>>
      PROVE  BqlHeld'
  <2>1. CASE LeaveKicked(c)
    BY Zenon, <2>1 DEF LeaveKicked, To, InGuest, BqlHeld
  <2>2. CASE StepEnd(c) \/ (SpuriousWakeup(c) /\ UNCHANGED <<bql, at, loop>>)
    BY Zenon, <2>2 DEF StepEnd, To, InGuest, BqlHeld
  <2>3. CASE SafeNest(c)
    BY Zenon, <2>3 DEF SafeNest, BqlHeld
  <2> QED
    BY Zenon, <1>4, <2>1, <2>2, <2>3
<1>5. CASE MainLock
  BY Zenon, <1>5 DEF MainLock, MainWake, BqlLock, MainGoto,
     MainRunWake, PauseWake, PauseLock, BqlHeld
<1>6. CASE MainStep
  BY Zenon, <1>6 DEF MainStep, MainRunWait, MainGoto, PauseWait,
     ResetResume, BqlHeld
<1>7. CASE MainLeave
  BY Zenon, <1>7 DEF MainLeave, MainIdle, MainGoto, PauseAll, BqlHeld
<1>8. CASE MainHandler
  <2>1. CASE \E c \in CPU : MainInterrupt(c)
    BY Zenon, <2>1 DEF MainInterrupt, BqlHeld
  <2>2. CASE \E c \in CPU : MainRunOnCpu(c)
    BY Zenon, <2>2 DEF MainRunOnCpu, MainGoto, BqlHeld
  <2>3. CASE \E c \in CPU, item \in {"async", "safe"} : MainQueue(c, item)
    BY Zenon, <2>3 DEF MainQueue, BqlHeld
  <2>4. CASE MainResetRequest
    BY Zenon, <2>4 DEF MainResetRequest, BqlHeld
  <2> QED
    BY Zenon, <1>8, <2>1, <2>2, <2>3, <2>4 DEF MainHandler
<1>9. ASSUME NEW t \in CPU \cup {Main}, SpuriousWake(t) PROVE BqlHeld'
  BY Zenon, <1>9 DEF SpuriousWake, vars, BqlHeld
<1> QED
  BY Zenon, <1>1, <1>2, <1>3, <1>4, <1>5, <1>6, <1>7, <1>8, <1>9 DEF VNext

\* A stopped vCPU is away from the guest until it is resumed; the main loop
\* goes on from the pause when all are.
Parked ==
  /\ \A c \in CPU : stopped[c] => at[c] \in {"loop", "event", "idle", "asleep", "work",
                                             "safe", "unwind", "safe_done"}
  /\ main \in {"paused", "resetting"} => \A c \in CPU : stopped[c]

\* A vCPU is stopped by its own thread, and resumed by the reset only.
LEMMA ParkedStep ==
  ASSUME Types, Parked, VNext
  PROVE  Parked'
<1>0. at \in [CPU -> Spot] /\ stopped \in [CPU -> BOOLEAN]
  BY Zenon DEF Types
<1> USE <1>0
<1>1. ASSUME NEW c \in CPU, VcpuLock(c) PROVE Parked'
  <2>1. CASE MmioLock(c)
    BY Zenon, <2>1 DEF MmioLock, To, loop, Parked
  <2>2. CASE AtomicLock(c)
    BY Zenon, <2>2 DEF AtomicLock, To, loop, Parked
  <2>3. CASE BackLock(c)
    BY Zenon, <2>3 DEF BackLock, To, loop, Parked
  <2>4. CASE EventWake(c) \/ SafeLock(c)
    BY Zenon, <2>4 DEF EventWake, To, loop, SafeLock, Parked
  <2> QED
    BY Zenon, <1>1, <2>1, <2>2, <2>3, <2>4 DEF VcpuLock
<1>2. ASSUME NEW c \in CPU, VcpuStep(c) PROVE Parked'
  <2>1. CASE LoopTop(c) \/ Enter(c) \/ Inner(c)
    BY Zenon, <2>1 DEF LoopTop, To, loop, Enter, Inner, Parked
  <2>2. CASE MmioDone(c) \/ QueueKick(c) \/ StepBegin(c) \/ StepLeave(c)
    BY <2>2, Zenon DEF MmioDone, To, QueueKick, StepBegin, loop, StepLeave, Parked
  <2>3. CASE EventIdle(c) \/ EventSleep(c) \/ EventCommon(c)
    BY <2>3, Zenon DEF EventIdle, To, loop, EventSleep, EventCommon, Parked
  <2>4. CASE WorkItem(c) \/ WorkSafe(c) \/ SafeEnd(c) \/ WorkDone(c)
    BY <2>4, Zenon DEF WorkItem, WorkSafe, To, SafeEnd, loop, WorkDone, Parked
  <2> QED
    BY Zenon, <1>2, <2>1, <2>2, <2>3, <2>4 DEF VcpuStep
<1>3. ASSUME NEW c \in CPU, GuestStep(c) PROVE Parked'
  <2>1. CASE Unhalt(c)
    BY Zenon, <2>1 DEF Unhalt, Parked
  <2>2. CASE Access(c) \/ MmioReset(c)
    BY <2>2, Zenon DEF Access, loop, InGuest, MmioReset, To, Parked
  <2>3. CASE \E d \in CPU, item \in {"async", "safe"} : Queue(c, d, item)
    BY Zenon, <2>3 DEF Queue, InGuest, Parked
  <2>4. CASE LeaveHalted(c) \/ LeaveAtomic(c)
    BY <2>4, Zenon DEF LeaveHalted, To, InGuest, LeaveAtomic, loop, Parked
  <2> QED
    BY Zenon, <1>3, <2>1, <2>2, <2>3, <2>4 DEF GuestStep
<1>4. ASSUME NEW c \in CPU,
             \/ LeaveKicked(c) \/ StepEnd(c) \/ SafeNest(c)
             \/ SpuriousWakeup(c) /\ UNCHANGED <<bql, at, loop>>
      PROVE  Parked'
  <2>1. CASE LeaveKicked(c)
    BY Zenon, <2>1 DEF LeaveKicked, To, loop, InGuest, Parked
  <2>2. CASE StepEnd(c)
    BY Zenon, <2>2 DEF StepEnd, To, loop, InGuest, Parked
  <2>3. CASE SpuriousWakeup(c) /\ UNCHANGED <<bql, at, loop>>
    BY Zenon, <2>3 DEF loop, Parked
  <2>4. CASE SafeNest(c)
    BY Zenon, <2>4 DEF SafeNest, loop, Parked
  <2> QED
    BY Zenon, <1>4, <2>1, <2>2, <2>3, <2>4
<1>5. CASE MainLock
  BY Zenon, <1>5 DEF MainLock, MainWake, MainGoto, MainRunWake, PauseWake, PauseLock, Parked
<1>6. CASE MainStep
  BY Zenon, <1>6 DEF MainStep, MainRunWait, MainGoto, PauseWait, ResetResume, Parked
<1>7. CASE MainLeave
  BY Zenon, <1>7 DEF MainLeave, MainIdle, MainGoto, PauseAll, Parked
<1>8. CASE MainHandler
  <2>1. CASE \E c \in CPU : MainInterrupt(c)
    BY Zenon, <2>1 DEF MainInterrupt, Parked
  <2>2. CASE \E c \in CPU : MainRunOnCpu(c)
    BY Zenon, <2>2 DEF MainRunOnCpu, MainGoto, Parked
  <2>3. CASE \E c \in CPU, item \in {"async", "safe"} : MainQueue(c, item)
    BY Zenon, <2>3 DEF MainQueue, Parked
  <2>4. CASE MainResetRequest
    BY Zenon, <2>4 DEF MainResetRequest, Parked
  <2> QED
    BY Zenon, <1>8, <2>1, <2>2, <2>3, <2>4 DEF MainHandler
<1>9. ASSUME NEW t \in CPU \cup {Main}, SpuriousWake(t) PROVE Parked'
  BY Zenon, <1>9 DEF SpuriousWake, vars, Parked
<1> QED
  BY Zenon, <1>1, <1>2, <1>3, <1>4, <1>5, <1>6, <1>7, <1>8, <1>9 DEF VNext

-----------------------------------------------------------------------------
(* The count *)

INSTANCE FiniteSetTheorems

\* The marked CPUs are counted as any finite set is.
LEMMA MarkedCounted == Counting
<1>1. IsFiniteSet(Marked)
  BY Zenon, CpuAssumption, FS_Subset DEF Marked
<1>2. Cardinality(Marked) \in Nat /\ (Cardinality(Marked) = 0 <=> Marked = {}) /\ Cardinality({}) = 0
  BY Zenon, <1>1, FS_CardinalityType, FS_EmptySet
<1>3. \A c \in CPU \ Marked : Cardinality(Marked \cup {c}) = Cardinality(Marked) + 1
  BY Zenon, <1>1, FS_AddElement
<1>4. \A c \in Marked : Cardinality(Marked \ {c}) = Cardinality(Marked) - 1
  BY Zenon, <1>1, FS_RemoveElement
<1>5. Marked = {} <=> \A c \in CPU : ~has_waiter[c]
  BY Zenon DEF Marked
<1> QED
  BY Zenon, <1>2, <1>3, <1>4, <1>5 DEF Counting

-----------------------------------------------------------------------------
(* The exclusive sections on their own *)

\* Every step keeps the invariant.
LEMMA NextIInv == IInv /\ [Next]_vars => IInv'
<1> SUFFICES ASSUME IInv, [Next]_vars PROVE IInv'
  BY Zenon
<1>1. CASE Next
  BY Zenon, <1>1, QuietStep, InternalInv, MarkedCounted DEF Next
<1>2. CASE UNCHANGED vars
  <2>1. Marked' = Marked
    BY Zenon, <1>2 DEF vars, Marked
  <2> QED
    BY Zenon, <1>2, <2>1 DEF vars, IInv, TypeOK, OneOwner, Places, Scanning, Waiting, Inside
<1> QED
  BY Zenon, <1>1, <1>2

\* The invariant holds in every reachable state.
LEMMA SpecIInv == Spec => []IInv
BY InitIInv, NextIInv, PTL DEF Spec

\* Type correctness of the exclusive sections.
THEOREM ExclusiveTypes == Spec => []TypeOK
<1>1. IInv => TypeOK
  BY Zenon DEF IInv
<1> QED
  BY <1>1, SpecIInv, PTL

\* While a vCPU is in an exclusive section no other one is in the guest or in
\* an exclusive section, for any number of vCPUs.
THEOREM ExclusiveSections == Spec => []Exclusion
<1>1. IInv => Exclusion
  BY Zenon DEF IInv, OneOwner, Inside, Exclusion, Owner
<1> QED
  BY <1>1, SpecIInv, PTL

\* No section under way, nobody marked, nobody counted: pending_cpus is zero
\* exactly when no thread owns a section, and who asks for one is not running.
THEOREM ExclusiveNothingLeft == Spec => []NothingLeft
<1>1. IInv => NothingLeft
  BY Zenon DEF IInv, TypeOK, OneOwner, Places, NothingLeft, Owner
<1> QED
  BY <1>1, SpecIInv, PTL

-----------------------------------------------------------------------------
(* The threads together *)

\* The locks: the invariant of the exclusive sections, and who holds the bql.
LockInv == IInv /\ Types /\ BqlHeld

\* The invariant holds when the machine is started.
LEMMA LockInit == VInit => LockInv
<1> SUFFICES ASSUME VInit PROVE LockInv
  BY Zenon
<1>1. IInv
  BY Zenon, InitIInv DEF VInit
<1>2. Types
  BY SpotFacts DEF VInit, Types
<1>3. BqlHeld
  BY Zenon, CpuAssumption, MainAssumption DEF VInit, BqlHeld
<1> QED
  BY Zenon, <1>1, <1>2, <1>3 DEF LockInv

\* Every step keeps the invariant.
LEMMA LockNext == LockInv /\ [VNext]_vvars => LockInv'
<1> SUFFICES ASSUME LockInv, [VNext]_vvars PROVE LockInv'
  BY Zenon
<1>1. CASE VNext
  BY Zenon, <1>1, IInvStep, MarkedCounted, TypesStep, BqlHeldStep DEF LockInv
<1>2. CASE UNCHANGED vvars
  <2>1. IInv'
    BY Zenon, <1>2, SameInv DEF vvars, LockInv
  <2>2. Types' /\ BqlHeld'
    BY Zenon, <1>2 DEF vvars, loop, LockInv, Types, BqlHeld
  <2> QED
    BY Zenon, <2>1, <2>2 DEF LockInv
<1> QED
  BY Zenon, <1>1, <1>2

\* The invariant holds in every reachable state.
LEMMA LockSpec == VSpec => []LockInv
BY LockInit, LockNext, PTL DEF VSpec

\* The sections stay exclusive when they are used by the vCPU loop, by work
\* items and by single steps of the guest.
THEOREM VcpuExclusion == VSpec => []Exclusion
<1>1. LockInv => Exclusion
  BY Zenon DEF LockInv, IInv, OneOwner, Inside, Exclusion, Owner
<1> QED
  BY <1>1, LockSpec, PTL

\* Device handlers and the handlers of the main loop run one at a time.
THEOREM VcpuBqlHeld == VSpec => []BqlHeld
<1>1. LockInv => BqlHeld
  BY Zenon DEF LockInv
<1> QED
  BY <1>1, LockSpec, PTL

VInv == LockInv /\ AtPc /\ Parked /\ Kicked

\* The invariant holds when the machine is started.
LEMMA VInitInv == VInit => VInv
<1> SUFFICES ASSUME VInit PROVE VInv
  BY Zenon
<1>1. AtPc /\ Parked /\ Kicked
  BY Zenon DEF VInit, Init, AtPc, Parked, Kicked
<1> QED
  BY Zenon, <1>1, LockInit DEF VInv

\* Every step keeps the invariant.
LEMMA VNextInv == VInv /\ [VNext]_vvars => VInv'
<1> SUFFICES ASSUME VInv, [VNext]_vvars PROVE VInv'
  BY Zenon
<1>1. LockInv'
  BY Zenon, LockNext DEF VInv
<1>2. CASE VNext
  BY Zenon, <1>1, <1>2, AtPcStep, ParkedStep, KickedStep DEF VInv, LockInv
<1>3. CASE UNCHANGED vvars
  <2>1. AtPc'
    BY <1>3, Zenon DEF vvars, vars, VInv, AtPc
  <2>2. Parked'
    BY <1>3, Zenon DEF vvars, loop, VInv, Parked
  <2>3. Kicked'
    BY <1>3, Zenon DEF vvars, vars, loop, VInv, Kicked
  <2> QED
    BY Zenon, <1>1, <2>1, <2>2, <2>3 DEF VInv
<1> QED
  BY Zenon, <1>2, <1>3

\* The invariant holds in every reachable state.
LEMMA VSpecInv == VSpec => []VInv
BY VInitInv, VNextInv, PTL DEF VSpec

\* The machine is reset while no vCPU is in the guest or in a device handler.
THEOREM VcpuResetAlone == VSpec => []ResetAlone
<1>1. VInv => ResetAlone
  BY Zenon DEF VInv, LockInv, IInv, Places, AtPc, Parked, ResetAlone
<1> QED
  BY <1>1, VSpecInv, PTL

\* No guest goes on for long with work in the queue of its vCPU.
THEOREM VcpuKickNotLost == VSpec => []KickNotLost
<1>1. VInv => KickNotLost
  BY Zenon DEF VInv, AtPc, Kicked, KickNotLost
<1> QED
  BY <1>1, VSpecInv, PTL
=============================================================================
