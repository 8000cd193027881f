-------------------------------- MODULE Rcu ---------------------------------
(***************************************************************************)
(* Read-copy-update in QEMU: rcu_read_lock and rcu_read_unlock of the      *)
(* reading threads, and synchronize_rcu of the thread that waits for them  *)
(* before it reclaims what was removed.  Readers take no lock; each shared *)
(* access of theirs is a step, and so is each access of the waiting thread *)
(* to a reader's fields.  Readers protect one pointer, which writers       *)
(* replace.                                                                *)
(*                                                                         *)
(* The barriers make these accesses sequentially consistent, which the     *)
(* interleaving of steps assumes.  Nested sections only count a depth of   *)
(* the thread itself and are left out.  The waiting thread is registered,  *)
(* too; its own ctr is zero while it waits, so the registry is never empty *)
(* when it starts and its entry never holds it up: it is left out.         *)
(***************************************************************************)
EXTENDS Integers

CONSTANTS
  Reader,         \* the threads that read
  Object,         \* what the pointer can point to; each is used once (BOUND)
  None,           \* not an object
  UnsignedSpace   \* the number of values of an unsigned int

ASSUME ObjectAssumption == None \notin Object \cup Reader
ASSUME UnsignedAssumption ==
  UnsignedSpace \in Nat \ {0} /\ \E h \in 0 .. UnsignedSpace : UnsignedSpace = 2 * h

RCU_GP_LOCKED == 1
RCU_GP_CTR == 2

VARIABLES
  wide,           \* the build: sizeof(rcu_gp_ctr) is 8
  rcu_gp_ctr,
  rcu_gp_event,   \* "SET", "FREE" or "BUSY", the values of a QemuEvent
  registry,       \* the registered readers
  qsreaders,      \* those that wait_for_readers has moved out of it
  locked,         \* the waiting thread holds rcu_registry_lock
  ctr,            \* rcu_reader_data.ctr of each reader
  waiting,        \* rcu_reader_data.waiting of each reader
  at,             \* where each reader is; "gone" if there is no such thread
  seen,           \* the local ctr of rcu_read_lock of each reader
  held,           \* the object each reader uses in its section
  pointer,        \* the protected pointer
  retired,        \* the objects that were removed from the pointer
  batch,          \* those removed when the grace period began
  freed,          \* those reclaimed
  sync,           \* where the waiting thread is
  phase,          \* 1 while a narrow build waits for the first parity, or 2
  todo,           \* the readers that its loop has not come to
  moved           \* the reader it has just moved to qsreaders, or None

readerVars == <<ctr, waiting, at, seen, held>>
listVars == <<registry, qsreaders, locked>>
objectVars == <<pointer, retired, batch, freed>>
syncVars == <<sync, phase, todo, moved>>
rcuVars == <<wide, rcu_gp_ctr, rcu_gp_event, readerVars, listVars, objectVars, syncVars>>

Init ==
  /\ wide \in BOOLEAN
  /\ rcu_gp_ctr = RCU_GP_LOCKED /\ rcu_gp_event = "SET"
  /\ registry = {} /\ qsreaders = {} /\ locked = FALSE
  /\ ctr = [r \in Reader |-> 0] /\ waiting = [r \in Reader |-> FALSE]
  /\ at \in [Reader -> {"out", "gone"}] /\ seen = [r \in Reader |-> 0]
  /\ held = [r \in Reader |-> None]
  /\ pointer \in Object /\ retired = {} /\ batch = {} /\ freed = {}
  /\ sync = "idle" /\ phase = 2 /\ todo = {} /\ moved = None

-----------------------------------------------------------------------------
(* The readers *)

Goes(r, from, to) == at[r] = from /\ at' = [at EXCEPT ![r] = to]

\* Registering and unregistering take rcu_registry_lock.
rcu_register_thread(r) ==
  /\ Goes(r, "out", "idle")
  /\ ~locked /\ registry' = registry \cup {r}
  /\ UNCHANGED <<wide, rcu_gp_ctr, rcu_gp_event, ctr, waiting, seen, held,
                 qsreaders, locked, objectVars, syncVars>>

\* The reader is in one list or the other.
rcu_unregister_thread(r) ==
  /\ Goes(r, "idle", "out")
  /\ ~locked /\ registry' = registry \ {r} /\ qsreaders' = qsreaders \ {r}
  /\ UNCHANGED <<wide, rcu_gp_ctr, rcu_gp_event, ctr, waiting, seen, held,
                 locked, objectVars, syncVars>>

\* rcu_read_lock reads the counter into an unsigned int.
ReadLock(r) ==
  /\ Goes(r, "idle", "lock")
  /\ seen' = [seen EXCEPT ![r] = rcu_gp_ctr % UnsignedSpace]
  /\ UNCHANGED <<wide, rcu_gp_ctr, rcu_gp_event, ctr, waiting, held,
                 listVars, objectVars, syncVars>>

\* Then it announces it; the section begins.
ReadLocked(r) ==
  /\ Goes(r, "lock", "in")
  /\ ctr' = [ctr EXCEPT ![r] = seen[r]] /\ seen' = [seen EXCEPT ![r] = 0]
  /\ UNCHANGED <<wide, rcu_gp_ctr, rcu_gp_event, waiting, held,
                 listVars, objectVars, syncVars>>

\* The section reads the pointer, at any time.  One object for each section is
\* enough for what is said of each object.
Dereference(r) ==
  /\ at[r] = "in" /\ held[r] = None
  /\ held' = [held EXCEPT ![r] = pointer]
  /\ UNCHANGED <<wide, rcu_gp_ctr, rcu_gp_event, ctr, waiting, at, seen,
                 listVars, objectVars, syncVars>>

\* rcu_read_unlock: the section ends.
ReadUnlock(r) ==
  /\ Goes(r, "in", "left")
  /\ held' = [held EXCEPT ![r] = None] /\ ctr' = [ctr EXCEPT ![r] = 0]
  /\ UNCHANGED <<wide, rcu_gp_ctr, rcu_gp_event, waiting, seen,
                 listVars, objectVars, syncVars>>

\* Somebody waits or not.
UnlockTest(r) ==
  /\ at[r] = "left"
  /\ at' = [at EXCEPT ![r] = IF waiting[r] THEN "clear" ELSE "idle"]
  /\ UNCHANGED <<wide, rcu_gp_ctr, rcu_gp_event, ctr, waiting, seen, held,
                 listVars, objectVars, syncVars>>

UnlockClear(r) ==
  /\ Goes(r, "clear", "set")
  /\ waiting' = [waiting EXCEPT ![r] = FALSE]
  /\ UNCHANGED <<wide, rcu_gp_ctr, rcu_gp_event, ctr, seen, held,
                 listVars, objectVars, syncVars>>

\* qemu_event_set: a load that finds EV_SET, or the exchange, is the step that
\* counts; the waiting thread sleeps no longer than the event is busy.
UnlockSet(r) ==
  /\ Goes(r, "set", "idle")
  /\ rcu_gp_event' = "SET"
  /\ UNCHANGED <<wide, rcu_gp_ctr, ctr, waiting, seen, held,
                 listVars, objectVars, syncVars>>

-----------------------------------------------------------------------------
(* The writer and the waiting thread *)

\* A writer points the pointer to another object; the old one is removed.
Replace(x) ==
  /\ x \in Object \ (retired \cup {pointer})
  /\ pointer' = x /\ retired' = retired \cup {pointer}
  /\ UNCHANGED <<wide, rcu_gp_ctr, rcu_gp_event, readerVars, listVars, batch,
                 freed, syncVars>>

Toggled == IF rcu_gp_ctr = RCU_GP_LOCKED THEN RCU_GP_LOCKED + RCU_GP_CTR ELSE RCU_GP_LOCKED

\* A narrow build that waits for one parity only.
SyncStartOnce ==
  /\ sync = "idle" /\ sync' = "reset"
  /\ batch' = retired \ freed
  /\ rcu_gp_ctr' = IF wide THEN rcu_gp_ctr + RCU_GP_CTR ELSE Toggled
  /\ phase' = 2 /\ locked' = TRUE
  /\ UNCHANGED <<wide, rcu_gp_event, readerVars, registry, qsreaders, pointer,
                 retired, freed, todo, moved>>

\* synchronize_rcu: the next grace period, or the other parity.
SyncStart ==
  /\ sync = "idle" /\ sync' = "reset"
  /\ batch' = retired \ freed
  /\ rcu_gp_ctr' = IF wide THEN rcu_gp_ctr + RCU_GP_CTR ELSE Toggled
  /\ phase' = IF wide THEN 2 ELSE 1
  /\ locked' = TRUE
  /\ UNCHANGED <<wide, rcu_gp_event, readerVars, registry, qsreaders, pointer,
                 retired, freed, todo, moved>>

\* wait_for_readers: qemu_event_reset, then every reader is told to wake us.
WaitReset ==
  /\ sync = "reset" /\ sync' = "mark"
  /\ rcu_gp_event' = IF rcu_gp_event = "SET" THEN "FREE" ELSE rcu_gp_event
  /\ todo' = registry
  /\ UNCHANGED <<wide, rcu_gp_ctr, readerVars, listVars, objectVars, phase, moved>>

WaitMark(r) ==
  /\ sync = "mark" /\ r \in todo
  /\ todo' = todo \ {r} /\ waiting' = [waiting EXCEPT ![r] = TRUE]
  /\ UNCHANGED <<wide, rcu_gp_ctr, rcu_gp_event, ctr, at, seen, held, listVars,
                 objectVars, sync, phase, moved>>

WaitMarked ==
  /\ sync = "mark" /\ todo = {}
  /\ sync' = "walk" /\ todo' = registry
  /\ UNCHANGED <<wide, rcu_gp_ctr, rcu_gp_event, readerVars, listVars,
                 objectVars, phase, moved>>

rcu_gp_ongoing(r) == ctr[r] # 0 /\ ctr[r] # rcu_gp_ctr

\* A reader that is in no section, or in one that began since, is not waited
\* for.
WaitWalk(r) ==
  /\ sync = "walk" /\ moved = None /\ r \in todo
  /\ todo' = todo \ {r}
  /\ \/ rcu_gp_ongoing(r) /\ UNCHANGED <<registry, qsreaders, moved>>
     \/ /\ ~rcu_gp_ongoing(r)
        /\ registry' = registry \ {r} /\ qsreaders' = qsreaders \cup {r}
        /\ moved' = r
  /\ UNCHANGED <<wide, rcu_gp_ctr, rcu_gp_event, readerVars, locked, objectVars,
                 sync, phase>>

\* It need not wake us.
WaitMove ==
  /\ sync = "walk" /\ moved # None
  /\ waiting' = [waiting EXCEPT ![moved] = FALSE] /\ moved' = None
  /\ UNCHANGED <<wide, rcu_gp_ctr, rcu_gp_event, ctr, at, seen, held, listVars,
                 objectVars, sync, phase, todo>>

\* Nobody is left: wait_for_readers returns, and a narrow build waits for the
\* other parity, too.
WaitDone ==
  /\ sync = "walk" /\ moved = None /\ todo = {} /\ registry = {}
  /\ registry' = qsreaders /\ qsreaders' = {}
  /\ IF phase = 1
       THEN /\ sync' = "reset" /\ phase' = 2 /\ rcu_gp_ctr' = Toggled
            /\ UNCHANGED locked
       ELSE /\ sync' = "done" /\ locked' = FALSE
            /\ UNCHANGED <<phase, rcu_gp_ctr>>
  /\ UNCHANGED <<wide, rcu_gp_event, readerVars, objectVars, todo, moved>>

\* A reset of the event after the walk.
WaitUnlockReset ==
  /\ sync = "walk" /\ moved = None /\ todo = {} /\ registry # {}
  /\ sync' = "wait" /\ locked' = FALSE /\ rcu_gp_event' = "FREE"
  /\ UNCHANGED <<wide, rcu_gp_ctr, readerVars, registry, qsreaders, objectVars,
                 phase, todo, moved>>

\* Somebody is: the lock is given up for the wait.
WaitUnlock ==
  /\ sync = "walk" /\ moved = None /\ todo = {} /\ registry # {}
  /\ sync' = "wait" /\ locked' = FALSE
  /\ UNCHANGED <<wide, rcu_gp_ctr, rcu_gp_event, readerVars, registry,
                 qsreaders, objectVars, phase, todo, moved>>

\* qemu_event_wait goes to sleep unless the event is set.
WaitEvent ==
  /\ sync = "wait"
  /\ \/ rcu_gp_event = "SET" /\ sync' = "lock" /\ UNCHANGED rcu_gp_event
     \/ rcu_gp_event # "SET" /\ sync' = "sleep" /\ rcu_gp_event' = "BUSY"
  /\ UNCHANGED <<wide, rcu_gp_ctr, readerVars, listVars, objectVars, phase, todo, moved>>

WaitWoken ==
  /\ sync = "sleep" /\ rcu_gp_event = "SET" /\ sync' = "lock"
  /\ UNCHANGED <<wide, rcu_gp_ctr, rcu_gp_event, readerVars, listVars,
                 objectVars, phase, todo, moved>>

WaitLock ==
  /\ sync = "lock" /\ sync' = "reset" /\ locked' = TRUE
  /\ UNCHANGED <<wide, rcu_gp_ctr, rcu_gp_event, readerVars, registry,
                 qsreaders, objectVars, phase, todo, moved>>

\* After the grace period what was removed before it is reclaimed.
Reclaim(x) ==
  /\ sync = "done" /\ x \in batch \ freed
  /\ freed' = freed \cup {x}
  /\ UNCHANGED <<wide, rcu_gp_ctr, rcu_gp_event, readerVars, listVars, pointer,
                 retired, batch, syncVars>>

SyncEnd ==
  /\ sync = "done" /\ sync' = "idle" /\ batch' = {}
  /\ UNCHANGED <<wide, rcu_gp_ctr, rcu_gp_event, readerVars, listVars, pointer,
                 retired, freed, phase, todo, moved>>

-----------------------------------------------------------------------------
\* The steps of a reader inside rcu_read_lock and rcu_read_unlock.
ReaderStep(r) == ReadLocked(r) \/ UnlockTest(r) \/ UnlockClear(r) \/ UnlockSet(r)

ReaderNext(r) ==
  \/ rcu_register_thread(r) \/ rcu_unregister_thread(r)
  \/ ReadLock(r) \/ Dereference(r) \/ ReadUnlock(r) \/ ReaderStep(r)

SyncStep ==
  \/ WaitReset \/ WaitMarked \/ WaitMove \/ WaitDone \/ WaitUnlock
  \/ WaitEvent \/ WaitWoken \/ WaitLock
  \/ \E r \in todo : WaitMark(r) \/ WaitWalk(r)

Next ==
  \/ \E r \in Reader : ReaderNext(r)
  \/ \E x \in Object : Replace(x) \/ Reclaim(x)
  \/ SyncStart \/ SyncStep \/ SyncEnd

Spec == Init /\ [][Next]_rcuVars

-----------------------------------------------------------------------------
TypeOK ==
  /\ wide \in BOOLEAN /\ rcu_gp_ctr \in Nat /\ rcu_gp_event \in {"SET", "FREE", "BUSY"}
  /\ registry \subseteq Reader /\ qsreaders \subseteq Reader /\ locked \in BOOLEAN
  /\ ctr \in [Reader -> Nat] /\ seen \in [Reader -> Nat]
  /\ waiting \in [Reader -> BOOLEAN]
  /\ at \in [Reader -> {"out", "gone", "idle", "lock", "in", "left", "clear", "set"}]
  /\ held \in [Reader -> Object \cup {None}]
  /\ pointer \in Object /\ retired \subseteq Object
  /\ batch \subseteq Object /\ freed \subseteq Object
  /\ sync \in {"idle", "reset", "mark", "walk", "wait", "sleep", "lock", "done"}
  /\ phase \in {1, 2} /\ todo \subseteq Reader /\ moved \in Reader \cup {None}

\* No reader uses an object that was reclaimed: its section began before the
\* object was removed, so synchronize_rcu waited for it, whatever counter the
\* reader had read, on builds with narrow and with wide counters, and whoever
\* registers and unregisters while the lock is given up.
NoUseAfterFree == \A r \in Reader : held[r] \notin freed
=============================================================================
