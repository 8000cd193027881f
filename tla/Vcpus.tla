------------------------------- MODULE Vcpus --------------------------------
(***************************************************************************)
(* The vCPU threads and the main loop of QEMU: the big QEMU lock (bql),    *)
(* the loop of mttcg_cpu_thread_fn, the work queues (cpu-common.c), and    *)
(* the pause, reset and resume of the machine (system/cpus.c,              *)
(* system/runstate.c).  The exclusive sections are the module Exclusive;   *)
(* a thread moves through both.                                            *)
(*                                                                         *)
(* What a thread does with the bql held is one step, unless it gives the   *)
(* bql up in between or another thread can see the middle without it (the  *)
(* work queue, exit_request).                                              *)
(***************************************************************************)
EXTENDS Exclusive, Sequences

CONSTANTS
  Main,       \* the thread of the main loop
  Queuing,    \* BOUND: the items <<who, vCPU, kind>> that are queued
  Resetting,  \* BOUND: the threads that ask for a reset
  Halting,    \* BOUND: the vCPUs whose guests halt and are interrupted
  Stepping,   \* BOUND: the vCPUs whose guests need cpu_exec_step_atomic
  MaxWork     \* BOUND: items in the queue of a vCPU

ASSUME MainAssumption == Main \notin CPU /\ Main # NoCpu /\ MaxWork \in Nat

VARIABLES
  bql,              \* who holds the big QEMU lock
  at,               \* where the vCPU thread is in its loop
  stop, stopped,    \* cpu->stop, cpu->stopped
  halted,           \* cpu->halted
  interrupt,        \* cpu->interrupt_request is not zero
  work,             \* cpu->work_list
  kicks,            \* queue_work_on_cpu: the vCPU to kick next
  main,             \* where the main loop is
  reset_requested,
  done,             \* wi.done of the main loop's run_on_cpu
  csleep            \* the threads in qemu_cond_wait with the bql

loop == <<stop, stopped, halted, interrupt, work, kicks, main, reset_requested,
          done, csleep>>
vvars == <<vars, bql, at, loop>>

Item == {"async", "safe", "run"}

Spot == {"loop", "enter", "guest", "mmio_lock", "mmio", "back", "atomic", "step",
         "stepped", "event", "idle", "asleep", "work", "safe", "unwind", "safe_done"}

\* qemu_init: every thread has been created and sleeps, its vCPU is stopped;
\* the machine is reset and then started.
VInit ==
  /\ Init
  /\ bql = Main /\ main = "resetting"
  /\ at = [c \in CPU |-> "asleep"] /\ csleep = CPU
  /\ stop = [c \in CPU |-> FALSE] /\ stopped = [c \in CPU |-> TRUE]
  /\ halted = [c \in CPU |-> FALSE] /\ interrupt = [c \in CPU |-> FALSE]
  /\ work = [c \in CPU |-> << >>] /\ kicks = [c \in CPU |-> NoCpu]
  /\ reset_requested = FALSE /\ done = TRUE

To(c, from, to) == at[c] = from /\ at' = [at EXCEPT ![c] = to]

\* A thread gets the bql when no other thread has it, and not while it sleeps.
BqlLock(t) == bql \in {NoCpu, t} /\ t \notin csleep /\ bql' = t

\* qemu_cpu_kick: wakes the vCPU from halt_cond, or makes it leave the guest.
Kick(S) ==
  /\ csleep' = csleep \ S
  /\ exit_request' = [c \in CPU |-> c \in S \/ exit_request[c]]
  /\ UNCHANGED <<lock, pending_cpus, running, has_waiter, exclusive_context_count,
                 todo, running_cpus, asleep, pc>>

-----------------------------------------------------------------------------
(* mttcg_cpu_thread_fn *)

\* A loop that clears exit_request on its way into the guest.
LoopTopClear(c) ==
  /\ bql = c
  /\ IF ~stop[c] /\ ~stopped[c]
       THEN To(c, "loop", "enter") /\ bql' = NoCpu /\ ExitSeen(c)
       ELSE To(c, "loop", "event") /\ UNCHANGED bql /\ ExitSeen(c)
  /\ UNCHANGED loop

\* The head of the loop, with the bql: into the guest if cpu_can_run.
LoopTop(c) ==
  /\ bql = c
  /\ IF ~stop[c] /\ ~stopped[c]
       THEN To(c, "loop", "enter") /\ bql' = NoCpu /\ UNCHANGED vars
       ELSE To(c, "loop", "event") /\ UNCHANGED bql /\ ExitSeen(c)
  /\ UNCHANGED loop

\* tcg_cpu_exec: cpu_exec_start, then the guest.
Enter(c) ==
  /\ To(c, "enter", "guest") /\ StartRunning(c)
  /\ UNCHANGED <<bql, loop>>

\* The steps of Exclusive that a thread takes wherever it is in this module.
Inner(c) == Internal(c) /\ UNCHANGED <<bql, at, loop>>

\* The guest runs, either in cpu_exec or in cpu_exec_step_atomic.
InGuest(c) ==
  /\ kicks[c] = NoCpu
  /\ \/ at[c] = "guest" /\ pc[c] = "exec"
     \/ at[c] = "step" /\ running[c]

\* cpu_handle_halt: an interrupt ends the halt.
Unhalt(c) ==
  /\ at[c] = "guest" /\ pc[c] = "exec" /\ halted[c] /\ interrupt[c]
  /\ halted' = [halted EXCEPT ![c] = FALSE]
  /\ UNCHANGED <<vars, bql, at, stop, stopped, interrupt, work, kicks, main,
                 reset_requested, done, csleep>>

\* A device register is accessed, or an interrupt taken: bql_lock.
Access(c) ==
  /\ InGuest(c) /\ ~halted[c]
  /\ at' = [at EXCEPT ![c] = "mmio_lock"]
  /\ UNCHANGED <<vars, bql, loop>>

MmioLock(c) ==
  /\ To(c, "mmio_lock", "mmio") /\ BqlLock(c)
  /\ UNCHANGED <<vars, loop>>

\* The handler of the device is done; it may have lowered the interrupt line.
MmioDone(c) ==
  /\ bql = c /\ bql' = NoCpu
  /\ To(c, "mmio", IF pc[c] = "exclusive" THEN "step" ELSE "guest")
  /\ \E lower \in BOOLEAN : interrupt' = [interrupt EXCEPT ![c] = @ /\ ~lower]
  /\ UNCHANGED <<vars, stop, stopped, halted, work, kicks, main,
                 reset_requested, done, csleep>>

\* The guest asks for a reset: qemu_system_reset_request, cpu_stop_current.
MmioReset(c) ==
  /\ c \in Resetting
  /\ bql = c /\ bql' = NoCpu
  /\ To(c, "mmio", IF pc[c] = "exclusive" THEN "step" ELSE "guest")
  /\ reset_requested' = TRUE
  /\ stop' = [stop EXCEPT ![c] = TRUE]
  /\ Kick({c})
  /\ UNCHANGED <<stopped, halted, interrupt, work, kicks, main, done>>

\* queue_work_on_cpu from the guest, without the bql: the item is inserted,
\* then its vCPU is kicked.
Queue(c, d, item) ==
  /\ <<c, d, item>> \in Queuing
  /\ InGuest(c) /\ ~halted[c]
  /\ Len(work[d]) < MaxWork
  /\ work' = [work EXCEPT ![d] = Append(@, item)]
  /\ kicks' = [kicks EXCEPT ![c] = d]
  /\ UNCHANGED <<vars, bql, at, stop, stopped, halted, interrupt, main,
                 reset_requested, done, csleep>>

QueueKick(c) ==
  /\ kicks[c] # NoCpu /\ kicks' = [kicks EXCEPT ![c] = NoCpu]
  /\ Kick({kicks[c]})
  /\ UNCHANGED <<bql, at, stop, stopped, halted, interrupt, work, main,
                 reset_requested, done>>

\* cpu_handle_interrupt takes exit_request between two blocks of guest code.
LeaveKicked(c) ==
  /\ InGuest(c) /\ To(c, "guest", "back") /\ EndRequested(c)
  /\ UNCHANGED <<bql, loop>>

\* wfi, or cpu_handle_halt of a vCPU that is still halted: EXCP_HALTED.
LeaveHalted(c) ==
  /\ c \in Halting
  /\ InGuest(c) /\ ~interrupt[c]
  /\ To(c, "guest", "back") /\ EndRunning(c)
  /\ halted' = [halted EXCEPT ![c] = TRUE]
  /\ UNCHANGED <<bql, stop, stopped, interrupt, work, kicks, main,
                 reset_requested, done, csleep>>

\* An instruction that needs the others stopped: EXCP_ATOMIC.
LeaveAtomic(c) ==
  /\ c \in Stepping
  /\ InGuest(c) /\ ~halted[c]
  /\ To(c, "guest", "atomic") /\ EndRunning(c)
  /\ UNCHANGED <<bql, loop>>

\* cpu_exec_step_atomic: bql_lock and bql_unlock, then start_exclusive.
AtomicLock(c) ==
  /\ bql = NoCpu
  /\ To(c, "atomic", "step") /\ CallExclusive(c)
  /\ UNCHANGED <<bql, loop>>

StepBegin(c) ==
  /\ at[c] = "step" /\ ~running[c] /\ StepAtomic(c)
  /\ UNCHANGED <<bql, at, loop>>

StepEnd(c) ==
  /\ InGuest(c) /\ To(c, "step", "stepped") /\ StepAtomic(c)
  /\ UNCHANGED <<bql, loop>>

StepLeave(c) ==
  /\ To(c, "stepped", "back") /\ EndExclusive(c)
  /\ UNCHANGED <<bql, loop>>

\* Back from the guest with the bql; the request to exit is cleared before
\* qemu_wait_io_event looks for its cause.
BackLock(c) ==
  /\ To(c, "back", "event") /\ BqlLock(c) /\ ExitSeen(c)
  /\ UNCHANGED loop

\* cpu_thread_is_idle
Idle(c) ==
  /\ ~stop[c] /\ work[c] = << >>
  /\ stopped[c] \/ (halted[c] /\ ~interrupt[c])

\* qemu_wait_io_event: the vCPU has nothing to do.
EventIdle(c) ==
  /\ bql = c /\ Idle(c) /\ To(c, "event", "idle")
  /\ UNCHANGED <<vars, bql, loop>>

\* qemu_cond_wait(halt_cond)
EventSleep(c) ==
  /\ To(c, "idle", "asleep")
  /\ bql' = NoCpu /\ csleep' = csleep \cup {c}
  /\ UNCHANGED <<vars, stop, stopped, halted, interrupt, work, kicks, main,
                 reset_requested, done>>

EventWake(c) ==
  /\ To(c, "asleep", "event") /\ BqlLock(c)
  /\ UNCHANGED <<vars, loop>>

\* A stop that does not broadcast qemu_pause_cond.
EventCommonSilent(c) ==
  /\ bql = c /\ ~Idle(c)
  /\ To(c, "event", IF work[c] = << >> THEN "loop" ELSE "work")
  /\ stop' = [stop EXCEPT ![c] = FALSE]
  /\ stopped' = [stopped EXCEPT ![c] = @ \/ stop[c]]
  /\ UNCHANGED csleep
  /\ UNCHANGED <<vars, bql, halted, interrupt, work, kicks, main,
                 reset_requested, done>>

\* qemu_wait_io_event_common: qemu_cpu_stop, then process_queued_cpu_work.
EventCommon(c) ==
  /\ bql = c /\ ~Idle(c)
  /\ To(c, "event", IF work[c] = << >> THEN "loop" ELSE "work")
  /\ stop' = [stop EXCEPT ![c] = FALSE]
  /\ stopped' = [stopped EXCEPT ![c] = @ \/ stop[c]]
  /\ csleep' = IF stop[c] /\ main = "pause_sleep" THEN csleep \ {Main} ELSE csleep
  /\ UNCHANGED <<vars, bql, halted, interrupt, work, kicks, main,
                 reset_requested, done>>

-----------------------------------------------------------------------------
(* process_queued_cpu_work *)

\* An item that stays in the queue.
WorkItemKept(c) ==
  /\ at[c] = "work" /\ bql = c /\ work[c] # << >>
  /\ Head(work[c]) # "safe"
  /\ done' = (done \/ Head(work[c]) = "run")
  /\ UNCHANGED <<vars, bql, at, stop, stopped, halted, interrupt, work, kicks,
                 main, reset_requested, csleep>>

WorkItem(c) ==
  /\ at[c] = "work" /\ bql = c /\ work[c] # << >>
  /\ Head(work[c]) # "safe"
  /\ work' = [work EXCEPT ![c] = Tail(@)]
  /\ done' = (done \/ Head(work[c]) = "run")
  /\ UNCHANGED <<vars, bql, at, stop, stopped, halted, interrupt, kicks, main,
                 reset_requested, csleep>>

\* An exclusive item is run without the bql.
WorkSafe(c) ==
  /\ bql = c /\ bql' = NoCpu /\ work[c] # << >>
  /\ Head(work[c]) = "safe"
  /\ To(c, "work", "safe") /\ CallExclusive(c)
  /\ work' = [work EXCEPT ![c] = Tail(@)]
  /\ UNCHANGED <<stop, stopped, halted, interrupt, kicks, main,
                 reset_requested, done, csleep>>

\* An exclusive item calls start_exclusive itself.
SafeNest(c) ==
  /\ at[c] = "safe" /\ ExclusiveNest(c)
  /\ UNCHANGED <<bql, at, loop>>

SafeEnd(c) ==
  /\ at[c] \in {"safe", "unwind"} /\ EndExclusive(c)
  /\ at' = [at EXCEPT ![c] =
              IF exclusive_context_count[c] = 1 THEN "safe_done" ELSE "unwind"]
  /\ UNCHANGED <<bql, loop>>

\* The bql is not taken again after an exclusive item.
SafeNoLock(c) ==
  /\ pc[c] = "outside"
  /\ To(c, "safe_done", "work") /\ UNCHANGED bql
  /\ UNCHANGED <<vars, loop>>

SafeLock(c) ==
  /\ pc[c] = "outside"
  /\ To(c, "safe_done", "work") /\ BqlLock(c)
  /\ UNCHANGED <<vars, loop>>

\* An end that does not broadcast qemu_work_cond.
WorkDoneSilent(c) ==
  /\ bql = c /\ work[c] = << >> /\ To(c, "work", "loop")
  /\ UNCHANGED csleep
  /\ UNCHANGED <<vars, bql, stop, stopped, halted, interrupt, work, kicks, main,
                 reset_requested, done>>

\* The queue is empty: broadcast qemu_work_cond.
WorkDone(c) ==
  /\ bql = c /\ work[c] = << >> /\ To(c, "work", "loop")
  /\ csleep' = IF main = "run_sleep" THEN csleep \ {Main} ELSE csleep
  /\ UNCHANGED <<vars, bql, stop, stopped, halted, interrupt, work, kicks, main,
                 reset_requested, done>>

-----------------------------------------------------------------------------
(* The main loop: os_host_main_loop_wait gives the bql up while it polls. *)

MainGoto(from, to) == main = from /\ main' = to

MainWake ==
  /\ MainGoto("poll", "dispatch") /\ BqlLock(Main)
  /\ UNCHANGED <<vars, at, stop, stopped, halted, interrupt, work, kicks,
                 reset_requested, done, csleep>>

\* An interrupt that does not kick its vCPU.
MainInterruptSilent(c) ==
  /\ c \in Halting
  /\ main = "dispatch" /\ ~interrupt[c]
  /\ interrupt' = [interrupt EXCEPT ![c] = TRUE] /\ UNCHANGED <<vars, csleep>>
  /\ UNCHANGED <<bql, at, stop, stopped, halted, work, kicks, main,
                 reset_requested, done>>

\* A handler raises the interrupt line of a vCPU: tcg_handle_interrupt.
MainInterrupt(c) ==
  /\ c \in Halting
  /\ main = "dispatch" /\ ~interrupt[c]
  /\ interrupt' = [interrupt EXCEPT ![c] = TRUE] /\ Kick({c})
  /\ UNCHANGED <<bql, at, stop, stopped, halted, work, kicks, main,
                 reset_requested, done>>

\* async_run_on_cpu and async_safe_run_on_cpu
MainQueue(c, item) ==
  /\ <<Main, c, item>> \in Queuing
  /\ main = "dispatch" /\ Len(work[c]) < MaxWork
  /\ work' = [work EXCEPT ![c] = Append(@, item)] /\ Kick({c})
  /\ UNCHANGED <<bql, at, stop, stopped, halted, interrupt, kicks, main,
                 reset_requested, done>>

\* run_on_cpu: queue the item, then wait until it is done.
MainRunOnCpu(c) ==
  /\ <<Main, c, "run">> \in Queuing
  /\ MainGoto("dispatch", "run_on_cpu") /\ Len(work[c]) < MaxWork
  /\ work' = [work EXCEPT ![c] = Append(@, "run")] /\ Kick({c})
  /\ done' = FALSE
  /\ UNCHANGED <<bql, at, stop, stopped, halted, interrupt, kicks,
                 reset_requested>>

MainRunWait ==
  /\ IF done THEN MainGoto("run_on_cpu", "dispatch") /\ UNCHANGED <<bql, csleep>>
             ELSE /\ MainGoto("run_on_cpu", "run_sleep")
                  /\ bql' = NoCpu /\ csleep' = csleep \cup {Main}
  /\ UNCHANGED <<vars, at, stop, stopped, halted, interrupt, work, kicks,
                 reset_requested, done>>

MainRunWake ==
  /\ MainGoto("run_sleep", "run_on_cpu") /\ BqlLock(Main)
  /\ UNCHANGED <<vars, at, stop, stopped, halted, interrupt, work, kicks,
                 reset_requested, done, csleep>>

\* system_reset of the monitor
MainResetRequest ==
  /\ Main \in Resetting
  /\ main = "dispatch" /\ reset_requested' = TRUE
  /\ UNCHANGED <<vars, bql, at, stop, stopped, halted, interrupt, work, kicks,
                 main, done, csleep>>

\* main_loop_should_exit: without a request, back to the poll.
MainIdle ==
  /\ ~reset_requested /\ MainGoto("dispatch", "poll") /\ bql' = NoCpu
  /\ UNCHANGED <<vars, at, stop, stopped, halted, interrupt, work, kicks,
                 reset_requested, done, csleep>>

\* pause_all_vcpus
PauseAll ==
  /\ reset_requested /\ reset_requested' = FALSE
  /\ MainGoto("dispatch", "pausing")
  /\ stop' = [c \in CPU |-> TRUE] /\ Kick(CPU)
  /\ UNCHANGED <<bql, at, stopped, halted, interrupt, work, kicks, done>>

\* A pause that waits for one vCPU only.
PauseWaitAny ==
  /\ IF \E c \in CPU : stopped[c]
       THEN MainGoto("pausing", "paused") /\ UNCHANGED csleep
       ELSE MainGoto("pausing", "pause_sleep") /\ csleep' = csleep \cup {Main}
  /\ bql' = NoCpu
  /\ UNCHANGED <<vars, at, stop, stopped, halted, interrupt, work, kicks,
                 reset_requested, done>>

PauseWait ==
  /\ IF \A c \in CPU : stopped[c]
       THEN MainGoto("pausing", "paused") /\ UNCHANGED csleep
       ELSE MainGoto("pausing", "pause_sleep") /\ csleep' = csleep \cup {Main}
  /\ bql' = NoCpu
  /\ UNCHANGED <<vars, at, stop, stopped, halted, interrupt, work, kicks,
                 reset_requested, done>>

PauseWake ==
  /\ MainGoto("pause_sleep", "pausing") /\ BqlLock(Main) /\ Kick(CPU)
  /\ UNCHANGED <<at, stop, stopped, halted, interrupt, work, kicks,
                 reset_requested, done>>

\* The bql is taken again, and qemu_system_reset runs.
PauseLock ==
  /\ MainGoto("paused", "resetting") /\ BqlLock(Main)
  /\ UNCHANGED <<vars, at, stop, stopped, halted, interrupt, work, kicks,
                 reset_requested, done, csleep>>

\* A resume that leaves cpu->stop as it is.
ResetResumeStop ==
  /\ MainGoto("resetting", "poll") /\ bql' = NoCpu
  /\ halted' = [c \in CPU |-> FALSE] /\ interrupt' = [c \in CPU |-> FALSE]
  /\ UNCHANGED stop /\ stopped' = [c \in CPU |-> FALSE]
  /\ Kick(CPU)
  /\ UNCHANGED <<at, work, kicks, reset_requested, done>>

\* The CPUs are reset (cpu_common_reset_hold), then resume_all_vcpus.
ResetResume ==
  /\ MainGoto("resetting", "poll") /\ bql' = NoCpu
  /\ halted' = [c \in CPU |-> FALSE] /\ interrupt' = [c \in CPU |-> FALSE]
  /\ stop' = [c \in CPU |-> FALSE] /\ stopped' = [c \in CPU |-> FALSE]
  /\ Kick(CPU)
  /\ UNCHANGED <<at, work, kicks, reset_requested, done>>

\* pthread_cond_wait may return without a signal.
SpuriousWake(t) ==
  /\ t \in csleep /\ csleep' = csleep \ {t}
  /\ UNCHANGED <<vars, bql, at, stop, stopped, halted, interrupt, work, kicks,
                 main, reset_requested, done>>

-----------------------------------------------------------------------------
\* A vCPU thread takes the bql.
VcpuLock(c) ==
  MmioLock(c) \/ AtomicLock(c) \/ BackLock(c) \/ EventWake(c) \/ SafeLock(c)

\* What a vCPU thread goes on to do by itself.
VcpuStep(c) ==
  \/ LoopTop(c) \/ Enter(c) \/ Inner(c) \/ MmioDone(c) \/ QueueKick(c)
  \/ StepBegin(c) \/ StepLeave(c)
  \/ EventIdle(c) \/ EventSleep(c) \/ EventCommon(c)
  \/ WorkItem(c) \/ WorkSafe(c) \/ SafeEnd(c) \/ WorkDone(c)

\* What the guest chooses to do.
GuestStep(c) ==
  \/ Unhalt(c) \/ Access(c) \/ MmioReset(c)
  \/ \E d \in CPU, item \in {"async", "safe"} : Queue(c, d, item)
  \/ LeaveHalted(c) \/ LeaveAtomic(c)

MainLock == MainWake \/ MainRunWake \/ PauseWake \/ PauseLock

MainStep == MainRunWait \/ PauseWait \/ ResetResume

MainLeave == MainIdle \/ PauseAll

MainHandler ==
  \/ \E c \in CPU : MainInterrupt(c) \/ MainRunOnCpu(c)
  \/ \E c \in CPU, item \in {"async", "safe"} : MainQueue(c, item)
  \/ MainResetRequest

VNext ==
  \/ \E c \in CPU :
       \/ VcpuLock(c) \/ VcpuStep(c) \/ GuestStep(c)
       \/ LeaveKicked(c) \/ StepEnd(c) \/ SafeNest(c)
       \/ SpuriousWakeup(c) /\ UNCHANGED <<bql, at, loop>>
  \/ MainLock \/ MainStep \/ MainLeave \/ MainHandler
  \/ \E t \in CPU \cup {Main} : SpuriousWake(t)

\* The poll may end at any time, but has to end only when it is notified:
\* qemu_system_reset_request sets reset_requested, then calls qemu_notify_event.
MainNotified == reset_requested /\ MainWake

\* Threads run; a thread that keeps asking for the bql gets it; a kicked vCPU
\* leaves the guest, an instruction comes to its end, the handlers of the
\* main loop come to their end.
VSpec ==
  /\ VInit /\ [][VNext]_vvars
  /\ \A c \in CPU :
       /\ WF_vvars(VcpuStep(c)) /\ SF_vvars(VcpuLock(c))
       /\ SF_vvars(LeaveKicked(c)) /\ SF_vvars(StepEnd(c))
  /\ WF_vvars(MainStep) /\ SF_vvars(MainLeave)
  /\ SF_vvars(MainNotified \/ MainRunWake \/ PauseWake \/ PauseLock)

-----------------------------------------------------------------------------
\* Device handlers, the bookkeeping of the vCPU loop and the handlers of the
\* main loop run one at a time, with the bql held (tcg_handle_interrupt
\* asserts bql_locked): it is given up and taken again around the guest, the
\* exclusive items and every wait.
BqlHeld ==
  /\ \A c \in CPU : bql = c <=> at[c] \in {"loop", "mmio", "event", "idle", "work"}
  /\ bql = Main <=> main \in {"dispatch", "run_on_cpu", "pausing", "resetting"}

\* While qemu_system_reset runs no vCPU is on its way into the guest, in it or
\* in a device handler: a reset falls between two instructions of the guest,
\* although pause_all_vcpus gives the bql up after it saw all vCPUs stopped.
ResetAlone ==
  main \in {"paused", "resetting"} =>
    \A c \in CPU : /\ stopped[c] /\ pc[c] # "exec" /\ ~running[c]
                   /\ at[c] \notin {"enter", "guest", "mmio_lock", "mmio", "step"}

\* A guest that has work in its queue is on its way out: the kick is not lost,
\* although the loop clears exit_request and queue_work_on_cpu does not hold
\* the bql.
KickNotLost ==
  \A c \in CPU :
    pc[c] = "exec" /\ work[c] # << >> =>
      exit_request[c] \/ \E d \in CPU : kicks[d] = c

\* Nobody keeps the bql for ever: no thread waits for an exclusive section
\* with the bql held ("start_exclusive() is sleeping too, so neither CPU can
\* proceed", process_queued_cpu_work), and the queue of a vCPU is worked off.
BqlReleased == \A t \in CPU \cup {Main} : bql = t ~> bql # t

\* A requested reset is done, by the guest or by the main loop, whatever work is
\* queued: pause_all_vcpus comes to its end.
ResetHappens == reset_requested ~> main = "resetting"

\* After a reset every vCPU gets into the guest again, unless the next reset
\* comes first: no stop request is left over from the pause.
GuestResumes ==
  \A c \in CPU : main = "resetting" ~> pc[c] = "exec" \/ main = "pausing"

\* run_on_cpu returns: its item is run, also on a vCPU that is halted, and the
\* wait for qemu_work_cond ends.
RunReturns == main = "run_on_cpu" ~> main = "dispatch"

\* An interrupt raised by the main loop ends the sleep of a halted vCPU.
InterruptWakes ==
  \A c \in CPU : interrupt[c] /\ at[c] = "asleep" ~> at[c] # "asleep"
=============================================================================
