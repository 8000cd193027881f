----------------------------- MODULE Exclusive ------------------------------
(***************************************************************************)
(* Exclusive sections of the vCPU threads, cpu-common.c: start_exclusive,  *)
(* end_exclusive, cpu_exec_start and cpu_exec_end.  A vCPU outside of an   *)
(* exclusive section enters and leaves the guest without the lock, as long *)
(* as pending_cpus is zero.                                                *)
(*                                                                         *)
(* A step is one access to a variable that other threads access without    *)
(* qemu_cpu_list_lock (running and pending_cpus); what happens with the    *)
(* lock held and touches neither is part of the step.  The accesses are    *)
(* sequentially consistent: the code has an smp_mb wherever a write is     *)
(* followed by a read of the other variable.                               *)
(***************************************************************************)
EXTENDS Naturals, FiniteSets

CONSTANTS
  CPU,        \* the vCPUs, each with its thread
  NoCpu,      \* the owner of a free lock
  MaxNest     \* BOUND: how deeply exclusive sections are nested

ASSUME CpuAssumption ==
  IsFiniteSet(CPU) /\ NoCpu \notin CPU /\ MaxNest \in Nat \ {0}

VARIABLES
  lock,                     \* the owner of qemu_cpu_list_lock between steps
  pending_cpus,
  running,                  \* cpu->running
  has_waiter,               \* cpu->has_waiter
  exit_request,             \* cpu->exit_request, set by qemu_cpu_kick
  exclusive_context_count,
  todo,                     \* start_exclusive: the CPUs still to look at
  running_cpus,             \* start_exclusive: how many were running
  asleep,                   \* the threads in qemu_cond_wait
  pc

vars == <<lock, pending_cpus, running, has_waiter, exit_request,
          exclusive_context_count, todo, running_cpus, asleep, pc>>

Init ==
  /\ lock = NoCpu /\ pending_cpus = 0
  /\ running = [c \in CPU |-> FALSE]
  /\ has_waiter = [c \in CPU |-> FALSE]
  /\ exit_request = [c \in CPU |-> FALSE]
  /\ exclusive_context_count = [c \in CPU |-> 0]
  /\ todo = {} /\ running_cpus = 0 /\ asleep = {}
  /\ pc = [c \in CPU |-> "outside"]

Goto(c, from, to) == pc[c] = from /\ pc' = [pc EXCEPT ![c] = to]

\* The lock can be had; a thread that slept in qemu_cond_wait needs it again.
CanLock(c) == lock = NoCpu /\ c \notin asleep

\* Those that wait for exclusive_resume; only one waits for exclusive_cond.
Resumable == {c \in asleep : pc[c] \in {"es_idle", "se_idle"}}

-----------------------------------------------------------------------------
(* cpu_exec_start *)

StartRunning(c) ==
  /\ Goto(c, "outside", "es_check")
  /\ running' = [running EXCEPT ![c] = TRUE]
  /\ UNCHANGED <<lock, pending_cpus, has_waiter, exit_request,
                 exclusive_context_count, todo, running_cpus, asleep>>

StartCheck(c) ==
  /\ Goto(c, "es_check", IF pending_cpus # 0 THEN "es_lock" ELSE "exec")
  /\ UNCHANGED <<lock, pending_cpus, running, has_waiter, exit_request,
                 exclusive_context_count, todo, running_cpus, asleep>>

\* A slow path that lets every CPU go ahead.
StartCountedAlways(c) ==
  /\ CanLock(c)
  /\ Goto(c, "es_lock", "exec")
  /\ UNCHANGED <<lock, pending_cpus, running, has_waiter, exit_request,
                 exclusive_context_count, todo, running_cpus, asleep>>

\* Counted in pending_cpus: go ahead.
StartCounted(c) ==
  /\ CanLock(c) /\ has_waiter[c]
  /\ Goto(c, "es_lock", "exec")
  /\ UNCHANGED <<lock, pending_cpus, running, has_waiter, exit_request,
                 exclusive_context_count, todo, running_cpus, asleep>>

\* Not counted: exclusive_idle.  running is set again with the lock held.
StartIdle(c) ==
  /\ CanLock(c)
  /\ \/ pc[c] = "es_lock" /\ ~has_waiter[c]
     \/ pc[c] = "es_idle"
  /\ running' = [running EXCEPT ![c] = pending_cpus = 0]
  /\ IF pending_cpus = 0
       THEN pc' = [pc EXCEPT ![c] = "exec"] /\ UNCHANGED asleep
       ELSE pc' = [pc EXCEPT ![c] = "es_idle"] /\ asleep' = asleep \cup {c}
  /\ UNCHANGED <<lock, pending_cpus, has_waiter, exit_request,
                 exclusive_context_count, todo, running_cpus>>

-----------------------------------------------------------------------------
(* cpu_exec_end *)

\* The guest is left for a reason of its own: it halts, or needs a single step.
EndRunning(c) ==
  /\ Goto(c, "exec", "ee_check")
  /\ running' = [running EXCEPT ![c] = FALSE]
  /\ UNCHANGED <<lock, pending_cpus, has_waiter, exit_request,
                 exclusive_context_count, todo, running_cpus, asleep>>

\* cpu_handle_interrupt takes the request to exit, then cpu_exec_end.
EndRequested(c) ==
  /\ exit_request[c] /\ exit_request' = [exit_request EXCEPT ![c] = FALSE]
  /\ Goto(c, "exec", "ee_check")
  /\ running' = [running EXCEPT ![c] = FALSE]
  /\ UNCHANGED <<lock, pending_cpus, has_waiter, exclusive_context_count, todo,
                 running_cpus, asleep>>

EndCheck(c) ==
  /\ Goto(c, "ee_check", IF pending_cpus # 0 THEN "ee_lock" ELSE "outside")
  /\ UNCHANGED <<lock, pending_cpus, running, has_waiter, exit_request,
                 exclusive_context_count, todo, running_cpus, asleep>>

\* An end that signals one CPU late.
EndReleaseLate(c) ==
  /\ CanLock(c)
  /\ Goto(c, "ee_lock", "outside")
  /\ has_waiter' = [has_waiter EXCEPT ![c] = FALSE]
  /\ pending_cpus' = IF has_waiter[c] THEN pending_cpus - 1 ELSE pending_cpus
  /\ asleep' = IF has_waiter[c] /\ pending_cpus' = 0
                 THEN {t \in asleep : pc[t] # "se_wait"} ELSE asleep
  /\ UNCHANGED <<lock, running, exit_request, exclusive_context_count, todo,
                 running_cpus>>

\* An end that does not reset has_waiter.
EndReleaseMarked(c) ==
  /\ CanLock(c)
  /\ Goto(c, "ee_lock", "outside")
  /\ pending_cpus' = IF has_waiter[c] THEN pending_cpus - 1 ELSE pending_cpus
  /\ asleep' = IF has_waiter[c] /\ pending_cpus' = 1
                 THEN {t \in asleep : pc[t] # "se_wait"} ELSE asleep
  /\ UNCHANGED <<lock, running, has_waiter, exit_request,
                 exclusive_context_count, todo, running_cpus>>

EndRelease(c) ==
  /\ CanLock(c)
  /\ Goto(c, "ee_lock", "outside")
  /\ has_waiter' = [has_waiter EXCEPT ![c] = FALSE]
  /\ pending_cpus' = IF has_waiter[c] THEN pending_cpus - 1 ELSE pending_cpus
  /\ asleep' = IF has_waiter[c] /\ pending_cpus' = 1
                 THEN {t \in asleep : pc[t] # "se_wait"} ELSE asleep
  /\ UNCHANGED <<lock, running, exit_request, exclusive_context_count, todo,
                 running_cpus>>

\* The vCPU loop clears the request before the next cpu_exec_start.
ExitSeen(c) ==
  /\ pc[c] = "outside"
  /\ exit_request' = [exit_request EXCEPT ![c] = FALSE]
  /\ UNCHANGED <<lock, pending_cpus, running, has_waiter,
                 exclusive_context_count, todo, running_cpus, asleep, pc>>

-----------------------------------------------------------------------------
(* start_exclusive *)

CallExclusive(c) ==
  /\ Goto(c, "outside", "se_lock")
  /\ UNCHANGED <<lock, pending_cpus, running, has_waiter, exit_request,
                 exclusive_context_count, todo, running_cpus, asleep>>

\* exclusive_idle
ExclusiveIdle(c) ==
  /\ CanLock(c) /\ pc[c] \in {"se_lock", "se_idle"}
  /\ pending_cpus # 0
  /\ pc' = [pc EXCEPT ![c] = "se_idle"] /\ asleep' = asleep \cup {c}
  /\ UNCHANGED <<lock, pending_cpus, running, has_waiter, exit_request,
                 exclusive_context_count, todo, running_cpus>>

\* Make all other cpus stop executing; the lock is kept.
ExclusiveBegin(c) ==
  /\ CanLock(c) /\ pc[c] \in {"se_lock", "se_idle"}
  /\ pending_cpus = 0
  /\ pc' = [pc EXCEPT ![c] = "se_scan"]
  /\ lock' = c /\ pending_cpus' = 1
  /\ todo' = CPU /\ running_cpus' = 0
  /\ UNCHANGED <<running, has_waiter, exit_request, exclusive_context_count, asleep>>

ExclusiveScan(c, other) ==
  /\ pc[c] = "se_scan" /\ other \in todo
  /\ todo' = todo \ {other}
  /\ IF running[other]
       THEN /\ has_waiter' = [has_waiter EXCEPT ![other] = TRUE]
            /\ exit_request' = [exit_request EXCEPT ![other] = TRUE]
            /\ running_cpus' = running_cpus + 1
       ELSE UNCHANGED <<has_waiter, exit_request, running_cpus>>
  /\ UNCHANGED <<lock, pending_cpus, running, exclusive_context_count, asleep, pc>>

\* The end of the loop: wait for those that were running.
ExclusiveCount(c) ==
  /\ pc[c] = "se_scan" /\ todo = {}
  /\ pending_cpus' = running_cpus + 1
  /\ lock' = NoCpu
  /\ IF running_cpus = 0
       THEN /\ pc' = [pc EXCEPT ![c] = "exclusive"]
            /\ exclusive_context_count' = [exclusive_context_count EXCEPT ![c] = 1]
            /\ UNCHANGED asleep
       ELSE /\ pc' = [pc EXCEPT ![c] = "se_wait"]
            /\ asleep' = asleep \cup {c}
            /\ UNCHANGED exclusive_context_count
  /\ UNCHANGED <<running, has_waiter, exit_request, todo, running_cpus>>

ExclusiveWait(c) ==
  /\ CanLock(c) /\ pc[c] = "se_wait"
  /\ IF pending_cpus > 1
       THEN asleep' = asleep \cup {c} /\ UNCHANGED <<pc, exclusive_context_count>>
       ELSE /\ pc' = [pc EXCEPT ![c] = "exclusive"]
            /\ exclusive_context_count' = [exclusive_context_count EXCEPT ![c] = 1]
            /\ UNCHANGED asleep
  /\ UNCHANGED <<lock, pending_cpus, running, has_waiter, exit_request, todo,
                 running_cpus>>

-----------------------------------------------------------------------------
\* start_exclusive within an exclusive section.
ExclusiveNest(c) ==
  /\ pc[c] = "exclusive" /\ ~running[c]
  /\ exclusive_context_count[c] < MaxNest
  /\ exclusive_context_count' = [exclusive_context_count EXCEPT ![c] = @ + 1]
  /\ UNCHANGED <<lock, pending_cpus, running, has_waiter, exit_request, todo,
                 running_cpus, asleep, pc>>

\* cpu_exec_step_atomic runs one instruction of the guest in its section.
StepAtomic(c) ==
  /\ pc[c] = "exclusive"
  /\ running' = [running EXCEPT ![c] = ~ @]
  /\ UNCHANGED <<lock, pending_cpus, has_waiter, exit_request,
                 exclusive_context_count, todo, running_cpus, asleep, pc>>

EndExclusive(c) ==
  /\ pc[c] = "exclusive" /\ ~running[c]
  /\ exclusive_context_count' = [exclusive_context_count EXCEPT ![c] = @ - 1]
  /\ pc' = [pc EXCEPT ![c] = IF exclusive_context_count[c] = 1 THEN "xe_lock" ELSE @]
  /\ UNCHANGED <<lock, pending_cpus, running, has_waiter, exit_request, todo,
                 running_cpus, asleep>>

EndExclusiveLocked(c) ==
  /\ CanLock(c)
  /\ Goto(c, "xe_lock", "outside")
  /\ pending_cpus' = 0
  /\ asleep' = asleep \ Resumable
  /\ UNCHANGED <<lock, running, has_waiter, exit_request,
                 exclusive_context_count, todo, running_cpus>>

\* pthread_cond_wait may return without a signal.
SpuriousWakeup(c) ==
  /\ c \in asleep /\ asleep' = asleep \ {c}
  /\ UNCHANGED <<lock, pending_cpus, running, has_waiter, exit_request,
                 exclusive_context_count, todo, running_cpus, pc>>

\* What a thread does by itself in these functions.
Internal(c) ==
  \/ StartCheck(c) \/ StartCounted(c) \/ StartIdle(c)
  \/ EndCheck(c) \/ EndRelease(c)
  \/ ExclusiveIdle(c) \/ ExclusiveBegin(c)
  \/ \E other \in CPU : ExclusiveScan(c, other)
  \/ ExclusiveCount(c) \/ ExclusiveWait(c)
  \/ EndExclusiveLocked(c)

Next ==
  \E c \in CPU :
    \/ Internal(c)
    \/ StartRunning(c) \/ EndRunning(c) \/ EndRequested(c)
    \/ exit_request[c] /\ ExitSeen(c)
    \/ CallExclusive(c) \/ ExclusiveNest(c) \/ StepAtomic(c) \/ EndExclusive(c)
    \/ SpuriousWakeup(c)

Spec == Init /\ [][Next]_vars

-----------------------------------------------------------------------------
Place == {"outside", "es_check", "es_lock", "es_idle", "exec", "ee_check",
          "ee_lock", "se_lock", "se_idle", "se_scan", "se_wait", "exclusive",
          "xe_lock"}

TypeOK ==
  /\ lock \in CPU \cup {NoCpu} /\ pending_cpus \in Nat
  /\ running \in [CPU -> BOOLEAN] /\ has_waiter \in [CPU -> BOOLEAN]
  /\ exit_request \in [CPU -> BOOLEAN]
  /\ exclusive_context_count \in [CPU -> Nat]
  /\ todo \subseteq CPU /\ running_cpus \in Nat /\ asleep \subseteq CPU
  /\ pc \in [CPU -> Place]

\* While a vCPU is in an exclusive section no other one is in the guest or in
\* an exclusive section, although cpu_exec_start and cpu_exec_end do not take
\* the lock when pending_cpus reads zero (the three cases that the comments of
\* both functions argue about).
Exclusion ==
  \A c, d \in CPU :
    c # d /\ pc[c] = "exclusive" => pc[d] \notin {"exec", "exclusive"}

\* start_exclusive is called outside of the guest only ("Ensure we are not
\* running, or start_exclusive will be blocked"), and nobody is left behind
\* marked or counted when no section is under way: pending_cpus is zero
\* exactly when no thread is between the write of 1 and the reset to 0, and
\* no CPU has a waiter then.
NothingLeft ==
  LET busy == {c \in CPU : pc[c] \in {"se_scan", "se_wait", "exclusive", "xe_lock"}}
  IN /\ pending_cpus = 0 <=> busy = {}
     /\ busy = {} => \A c \in CPU : ~has_waiter[c]
     /\ \A c \in CPU : pc[c] \in {"se_lock", "se_idle", "se_wait"} => ~running[c]

\* A vCPU that asks for an exclusive section does not ask in vain: some vCPU
\* gets into one, whatever the guests of the others do.
SomeoneEnters ==
  (\E c \in CPU : pc[c] = "se_lock") ~> (\E c \in CPU : pc[c] = "exclusive")
=============================================================================
