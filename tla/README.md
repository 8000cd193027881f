# TLA+ specifications of the emulated TPM 2.0 and its board

The repository is a QEMU with an emulated TPM 2.0 device on an NXP S32K3X8EVB board, and a bare-metal firmware that
drives the device from a menu on the UART. This directory specifies the parts that the project adds to QEMU and the
threads, locks and queues of QEMU that they rely on, checks them with TLC on small instances, and proves the main
results with TLAPS for every value of the constants.

## The system

| part | code | state | operations |
|---|---|---|---|
| register window | `hw/tpm/tpm_hw.c` (`tpm2_mmio_read`, `tpm2_mmio_write`, `tpm2_reset`) | `state`, `command_buffer`, `cmd_size`, `response_buffer`, `resp_size`, `resp_idx` | writes of CTRL, CMD and DATA, reads of STATUS and DATA, reset |
| command chain | `hw/tpm/tpm_cc.c`, `cc_unmarshal.h`, `tpm2_process_command` | none | header, mode, unmarshalling, dispatch |
| NV storage | `hw/tpm/tpm_nv.c` and the `handle_NV_*` functions | `nv_map`, `nv_bank`, `nv_alloc_offset`, `nv_count`, `nv_dirty` | NV_DefineSpace, NV_Write, NV_Read |
| keys | `hw/tpm/tpm_crypto.c`, `handle_CreatePrimary`, `handle_GetRandom` | `primary_sensitive`, `next_transient_handle` | CreatePrimary, GetRandom |
| firmware | `firmware/main.c` | the place in the menu loop, the response read so far, the flags of the UART | send a command, read a response |
| UART | `hw/char/nxps32k3x8evb_uart.c` | the receive FIFO, flags, interrupts, LCR, CR | register accesses, the handlers of the backend, reset |
| console | `chardev/char-mux.c`, `char-fd.c`, `char-io.c`, `firmware/uart.c` | the stored keys, the sleeping main loop | poll, deliver, `UART_getc`, `UART_putstr`, `UART_putc` |
| migration | `vmstate_tpm2` in `hw/tpm/tpm_hw.c` | what the stream names, and the RAM blocks | move the machine between two register accesses |
| exclusive sections | `cpu-common.c` | `pending_cpus`, `running`, `has_waiter`, the lock and two conditions | `cpu_exec_start`, `cpu_exec_end`, `start_exclusive`, `end_exclusive` |
| vCPU threads and main loop | `accel/tcg/`, `system/cpus.c`, `system/runstate.c`, `cpu-common.c` | the big lock (bql), `stop`, `stopped`, `halted`, `exit_request`, the work queues | run the guest, access a device, work, halt, interrupt, pause, reset, resume |
| read-copy-update | `util/rcu.c`, `include/qemu/rcu.h`, `util/qemu-thread-posix.c` | the counter of grace periods, the registry, two events, the queue of callbacks | `rcu_read_lock`, `rcu_read_unlock`, `synchronize_rcu`, `call_rcu1`, `drain_call_rcu` |

The firmware writes a command word by word into the window and starts it with CMD. The window cuts the command to the
size it announces and calls the chain, which calls a handler. The handler answers into the response buffer before the
write of CMD returns, and the firmware reads the answer word by word. Keys reach the firmware from the host through
the main loop of QEMU, the multiplexer of `-nographic` and the UART. Device handlers and the main loop exclude each
other (the bql), so a handler is one atomic step; the guest runs between any two of them, and the machine can be reset
there. The device models take this for granted. `Vcpus` models the threads that have to make it so and shows it:
handlers run with the bql held (`BqlHeld`), and a reset finds no vCPU in the guest or in a handler (`ResetAlone`).

What is hard here: register accesses in any order; sizes inside a command that are summed to offsets; one IV for all
writes of an index; state that changes in a command that is refused; a reset in the middle of a command; answers of
`can_receive` that are old when the bytes come; a FIFO that is overrun or resized; a main loop that must be woken. In
QEMU itself: flags that two threads read and write without a lock, on the way into and out of the guest; requests that
arrive while a flag is being cleared; a lock that is given up in the middle of a pause; wake-ups on conditions and
futexes; a queue whose nodes are counted and linked in different orders.

## Modules

| module | models | shown by |
|---|---|---|
| `Tpm2Fifo` | what the window promises: a command queue and a response queue | abstract |
| `Tpm2Mmio` | the window with its buffers and indices | runs and proofs: it implements `Tpm2Fifo` |
| `Tpm2Commands` | the five handlers over the bank, the key and the handle counter | runs and proofs |
| `Tpm2Chain` | extends it by the chain: what is refused before a handler acts | runs and proofs |
| `Firmware` | extends it by the menu loop and an instance of `Tpm2Fifo` as the window | runs and proofs |
| `UartQueue` | what the receiver promises: a queue | abstract |
| `NxpUart` | the UART between the guest and the backend | runs and proofs: it implements `UartQueue` |
| `Console` | extends it by the keyboard, the main loop, the multiplexer and the UART driver | runs and proofs |
| `Migration` | extends `Firmware` by a migration between any two register accesses | runs and proofs |
| `Exclusive` | the exclusive sections, one shared access at a time | proofs, and as a part of `Vcpus` |
| `Vcpus` | extends it by the loop of the vCPU threads, the work queues, the bql and the main loop | runs and proofs |
| `Rcu` | readers, a protected pointer and `synchronize_rcu` | proofs: what `CallRcu` implements |
| `CallRcu` | extends it by the queue of callbacks, the thread that runs them, drains, and vCPUs that take the bql in their sections | runs and proofs: it implements `Rcu` |
| `MC*` | instances for TLC | |
| `*Proofs` | theorems and proofs | |

`Firmware` uses the abstract window. That is sound because `Tpm2MmioProofs` proves that the real one implements it for
every buffer size and every set of responses that fit, and `ResponseFitsAlways` proves that the handlers build only
responses that fit.

### State and data

- A register write or read is one action. `Tpm2Mmio` keeps 16-bit halves of words, because the size field of a header
  lies across two words. The *i*-th half of a response *r* is the pair `<<r, i>>`; what no response defined is `Stale`,
  and the guest may read anything there.
- A command is a record with its tag, code, announced size and what the bytes of each parameter say. The parameters are
  there whether or not the size covers them: the checks of `Unmarshal_*`, a sequence of return codes of which the first
  failure counts, find out.
- The bank is a function from offsets to symbolic bytes. A ciphertext byte names the key, the IV, its position and the
  plaintext up to it. It decrypts to its plaintext under the same key, at the same position in a block and with the
  same feedback (the IV, or the ciphertext of the block before); otherwise it is `Garbled`. Keys are named by their
  hierarchy, since the code derives them from the fixed seed of the hierarchy.
- The mode of the TPM is `TPM_MODE_NORMAL` from its creation on: the code never assigns another one.
- `live` is a history variable: the writes whose bytes were not overwritten since.
- The firmware's program counter has one value per access to the TPM. Of the UART `Firmware` has the flags `FR`, which
  the driver waits for: RXFE before a key is read, and bit 5 while a response is printed in hexadecimal
  (`UART_print_hex` calls `UART_putc`). `uart.h` names bit 5 "Receive FIFO Full"; in the device it is TXFF, which is
  never set, and the receiver's bit, RXFF, is the next one. So a key that is typed while a response is printed fills the
  receiver and does not stop the output. The mutant of `BackToMenu` waits for RXFF, and TLC finds the menu gone. The
  other texts end in `UART_putstr`, which waits for nothing. `Console` has the accesses of the driver one by one.
- Registers of the UART that are sets of bits are sets of names. `read_trigger` is 1, whatever IFLS says.
- In `Console` the keys are numbered as they are typed. The firmware's `UART_init` writes to offsets that are no
  registers of this UART, so its FIFO stays off and it holds one key.
- A migration keeps the guest, and with it the firmware, where it is. The destination has a new TPM that was reset. The
  stream brings the bytes of the bank, which is a RAM block, but neither the entries nor the allocation offset, the
  selected key, the handle counter, the state of the window or its buffers: the indexes are those of a new device.
- In `Exclusive`, `Vcpus`, `Rcu` and `CallRcu` a step of a thread is one access to what other threads read or write
  without a common lock; what is done under a lock is one step up to the point where the lock is given up. Memory is
  sequentially consistent: the barriers of the code are there to make it so, and are not modelled. Waits on conditions
  can end without a signal.
- What a vCPU's guest does is what these parts see of it: it runs, accesses a device, asks for a reset, halts, needs
  an atomic step, queues work for a vCPU (a flush of another vCPU's TLB, for instance), and is left when it is asked.
- A `QemuEvent` is set, free or busy, as in the code. `qemu_event_set` is one step: a load that finds it set or the
  exchange, whichever decides. The test and the wait of a sleeper are separate from the access to what it waits for.
- `Rcu` has one pointer and lets a section use one object, which is enough for a property of each object. `retired`,
  `batch` and `freed` are the objects that were removed, those removed when the grace period began, and those reclaimed.
  In `CallRcu` the queue is the linked list of the code with its dummy node. Which objects are reclaimed follows from the
  list alone; that they belong to the batch is `ImplementsRcu`.

## Runs

| run | configuration | what it shows |
|---|---|---|
| `mmio` | 16-byte buffers; words that announce 0, 3, 12 and more than 65535 bytes; responses that end at each position in a word | indices stay inside the buffers, no state is left half-way, the window implements the queues |
| `chain` | a bank two indexes fill, one input per outcome of the handlers' checks, sizes that end inside, between and behind the parameters, blocks of one byte, a handle counter that wraps after 2 | layout, read-back, the written flag, response sizes, indexes are never lost or moved; a success had all of its parameters, a refusal changed nothing (CreatePrimary excepted, as stated) |
| `firmware` | the twelve commands of `main.c` with their real sizes, buffers of 1024 bytes, keys and resets anywhere | commands arrive whole, answers are read whole, data survives, negative tests are refused, the menu comes back |
| `uart` | FIFO depth 2, overrun by one, one byte and BREAK, one modem line, masks for the receiver and for the rest | flags and index are right, the ring buffer is a queue, no interrupt is lost |
| `console` | a multiplexer that stores two keys, five keys typed, resets anywhere | keys stay in order, reach the firmware, and a stall after a reset ends with the next key |
| `migration` | as `firmware`, with migrations and resets anywhere | a command cut in two is not carried out, an answer cut in two is a beginning followed by zeros, the menu comes back |
| `vcpus` | the one vCPU of the board, which halts, is interrupted, steps atomically, queues work and resets, and a main loop that does so too | what is asked for happens: resets, the return to the guest, `run_on_cpu`, the end of a halt |
| `vcpus_two` | two vCPUs, exclusive items queued across them, sections nested twice, resets by the main loop | exclusive sections exclude and come to an end, no kick is lost, a reset is alone, handlers hold the bql and nobody keeps it |
| `rcu` | three casts: two readers and a writer; one reader through two grace periods of each build; a vCPU, a writer, and a main loop that writes and drains | nothing is reclaimed while it is used, the queue hands over nothing early, everything is reclaimed, a drain returns |

`chain` has a `VIEW`: the NV state, the key, the handle counter and the values of `ResponseFits` and
`SuccessMeansComplete`. What it leaves out is the last command and its response, on which no step depends; the two
invariants that speak of them are in the view by their values, and TLC evaluates action properties on every transition,
also on one that leads to a view it has seen.

Three runs find that the code does something else than a comment of the repository says:

- `test_comments`: two negative tests of the menu are answered otherwise than their comments in `main.c` say. Option b
  reads an index that no option defines (`TPM_RC_HANDLE`, not `TPM_RC_NV_UNINITIALIZED`). Option 9 announces more bytes
  than its array has, so that the window refuses it (`TPM_RC_COMMAND_SIZE`) and not the unmarshalling. TLC stops at the
  first of the two.
- `transient_range`: handles leave the range of transient objects with the 32nd key.
- `uart_migration`: BREAK and loopback overrun the FIFO, and the sanity check of the migration refuses that state.

Further observations, which the properties are stated around:

- `NegativeTestsRefused` states that every negative test is refused and writes nothing, and the codes where the device
  gives what the comment says: always for options 6, 7 and c, and for option 8 (`TPM_RC_NV_RANGE`) once option 4 has
  written the index it reads. Before that the index is not defined or not written, which the code looks at first.
- `handle_CreatePrimary` reads the type and the curve of a key from the place of `inPublic` without looking at
  `inPublicSize` or at the end of the command. A public area that is too short is completed by what an earlier command
  left in `command_buffer`, and the command can succeed. The model takes either type then (`TypeIsEcc`), so the other
  properties hold whatever was left there; `SuccessMeansComplete` speaks of the other commands only.
- `handle_CreatePrimary` copies `userAuthSize` and `dataSize` bytes from a `params` that is not initialised, and
  `Unmarshal_CreatePrimary` leaves both sizes alone when `inSensitiveSize` is 0. In the build of the repository they are
  0 then: `meson.build` adds `-ftrivial-auto-var-init=zero`. The copies go to fields that nothing reads.
- A comment at the end of `vmstate_tpm2` says that the NV storage has to be maintained, next to a line that is
  commented out. The bytes of the bank are migrated anyway, but the entries that say where an index is are not.
- A vCPU for which work arrives without end stays in `process_queued_cpu_work` and keeps the bql. In the runs no
  vCPU queues asynchronous work for another one; the main loop does, but needs the bql for it.
- `RunReturns` and `GuestResumes` are checked for the board's one vCPU.
- `drain_call_rcu` has vCPUs kicked out of their sections by `wait_for_readers`, which looks at `in_drain_call_rcu` once
  for each reader and then sleeps. A drain that begins while it sleeps does not wake it. It returns only if the vCPU
  leaves the guest for another reason; hence the condition `call # "sync"` in `DrainReturns`, without which TLC finds the
  behaviour.
- `rcu_read_lock` keeps the 64-bit counter in an `unsigned`. This is safe (proved), but after 2^31 grace periods the
  copy is never equal to the counter, and a reader that enters its sections again at once does extend the wait, although
  `docs/devel/rcu.rst` says of sections that start after the beginning of the wait that they do not. With
  `UnsignedSpace = 4` TLC finds `EveryObjectReclaimed` violated; the property is claimed, and the run is, for a counter that fits the
  copy.

### Bounds

- Sizes. What matters of a size is its order relative to the limits. The instances have a size on each side of, and
  at, every limit. The proofs cover all sizes.
- `MaxCount` bounds how far the UART's FIFO is overrun. One item beyond the depth is the case that wraps onto an unread
  slot; further items repeat it.
- `handle_NV_Read`: a read of more than `MAX_NV_BUFFER_SIZE` bytes of an index that large is left out, because the
  buffer it is decrypted into is not modelled. Longer reads that the code refuses are in.
- `CopiesFit` in `Dispatch`: a CreatePrimary with more than `MAX_SYM_DATA` bytes of `data`, the size of the field that
  `handle_CreatePrimary` copies it to, is left out, for the same reason.
- `HandleSpace` stands for 2^32 in the counter of handles, `AES_BLOCK` for 16 where the instance is small; both are
  constants in the proofs.
- `MaxNest`, `MaxWork`, `Queuing`, `Resetting`, `Halting` and `Stepping` limit what the guests and the main loop of
  `Vcpus` ask for: each kind of request is there with a thread of the other kind in its way, and each can be repeated
  without end. The proofs are for any number of vCPUs and any values of these.
- `Object`, `Drain` and `Cast` in `CallRcu`: an object is removed once and a drain is done once, which bounds the
  counter of grace periods. Two grace periods are what it takes for a reader to come with the parity of the last but
  one; two writers, for a node that is linked and counted before the one in front of it. The proofs
  are for any objects, drains and casts, and any finite set of writers.
- Keys in `Console`: two more than the console holds at once, so that the main loop sleeps on a full one.

### Fairness

- `Firmware`: weak fairness of the firmware's own steps. The CPU runs and every device access returns. Typing and
  resetting are not fair.
- `Console`: weak fairness of the main loop's poll and delivery, of the two accesses of `UART_getc` and of the poll in
  `UART_putc`, and strong fairness of the last write of a text: texts are finite, and a text is a mixture of writes with
  and without a poll. That the poll ends is *not* assumed; it does because TXFF is not set. The main loop is *not*
  assumed to wake by itself: after a poll it acts only when a key arrives that it polled for, or when it was notified.
- `Vcpus` (`VSpec`): weak fairness of each thread's steps; strong fairness of taking a lock and of waking on a condition,
  since a thread that keeps trying gets a mutex some time; strong fairness of a guest that is asked to leave, which
  looks at `exit_request` between two translation blocks, of the end of an atomic step, and of the main loop's handlers
  coming to their end. The main loop wakes for a reset because `qemu_system_reset_request` notifies it (`MainNotified`);
  it is not assumed to wake otherwise. A guest that is not asked may run for ever. Requests are not fair.
- `CallRcu` (`CallSpec`): the same for the bql. A vCPU leaves its section only when it was notified; other readers leave
  theirs. `EveryObjectReclaimed` has the assumption that all readers do, now and then, in the property.
- `Migration`: as `Firmware`. The other runs check safety only and have no fairness.

## Proofs

All proofs are for arbitrary constants under the named assumptions, which TLC evaluates in the runs. They say that sizes
are natural numbers and that what the code sends fits its buffers (`SizeAssumption`, `CommandAssumption`,
`MenuAssumption`), that the FIFO of the UART has more than one slot and its masks are masks (`UartAssumption`,
`MaskAssumption`), that the nodes of a queue are different things (`ObjectAssumption`, `NodeAssumption`), and that there
are finitely many vCPUs and writers (`CpuAssumption`, `ThreadAssumption`). `TestAssumption` says what the arrays of
`main.c` have in common: only option 4 writes an index, option 5 reads what it writes, and each negative test is wrong
in its own way (option 8, for instance, reads more of the index of option 4 than any option defines). A leaf that needs
no arithmetic names Zenon; the others go to the SMT solver with the few facts they need, which the step before takes out
of the invariant. Type correctness is a conjunct of each inductive invariant and is not checked by a run of its own.

- `Tpm2MmioProofs`. Inductive invariant `TypeOK /\ ResponseInBuffer /\ StableStates`. Under it the refinement mapping
  takes every register access to a step of the queues (`MmioImplementsFifo`): the queue of command words is the first
  `cmd_size` bytes, the queue of response words those from `resp_idx` on.
- `Tpm2ChainProofs`, the handlers. Read-back is not inductive: it speaks about what a decryption will give. The
  invariant adds `LiveCells` (the bank holds the ciphertext of each live write, under the IV of its index and the key of
  its time) and `NoLocks` (nothing ever sets the read lock). With `NvLayout` a write to one index cannot touch the cells
  of another, and `DecryptEncrypted` turns `LiveCells` into `ReadBack`. No induction over the data is needed, because a
  ciphertext byte carries the plaintext up to it, which determines the feedback of its block. The action property
  `NvPermanent` follows from the same invariant, one handler at a time (`NvPermanentAlways`): only `NvLayout` keeps the
  bytes of the other indexes out of the reach of a write.
- `Tpm2ChainProofs`, the chain. A lemma per command says that the checks pass only if the parameters fit
  (`SuccessMeansComplete`, for all but CreatePrimary); `DispatchIsNext` maps a command that passes to a step of
  `Tpm2Commands`, which carries the invariant and `NvPermanent` over (`ChainInvariant`, `ChainNvPermanent`).
  `RefusedHasNoEffect` follows by cases.
- `FirmwareProofs`. The invariant `FInv` adds what is true at each program counter: while sending, the device's queue is
  the part of the command written so far; while reading, the response is what was read followed by what is queued.
  `CommandArrivesAlways`, `AnswerWholeAlways`, `FirmwareReadBack` and `FirmwareNvPermanent` follow; a reset
  re-establishes the invariant from any point. For the tests of the menu `TInv` adds `MenuEffect`, what no sequence of
  options and resets changes (the owner's key is selected, nothing but the test data is written, the index of option b
  is never defined), `Oversize`, that option 8 reads beyond every index that was defined under its name, and `Shown`,
  what this says about the response in the device. `TestReadsBackAlways` and `NegativeTestsRefusedAlways` follow, for
  every menu that satisfies `TestAssumption`.
- `MigrationProofs`. `FInv` fails here: a migration takes away what the firmware has sent, or what it has yet to read.
  `MInv` says at each program counter what can be left. While sending, the device has what was sent or is idle and stays
  so; while reading, the firmware has the words of the response that came before the migration and zeros after them,
  and no more than one such word after the header, since it looks at the state before each. `WholeOrIgnoredAlways` and
  `AnswerPrefixAlways` follow, for any number of migrations and resets. The invariant of the handlers survives, since the
  new device starts with no history: what was written since the last migration reads back (`MigrationReadBack`) and the
  slices are apart (`MigrationNvSound`) in a bank that still holds the bytes of the old device. What a migration loses is
  lost by the migration itself: every other step keeps the indexes, also one that executes what is left of a command
  (`OnlyMigrationForgets`). No run checks these three; they follow from the invariant that the run's properties rest on.
- `NxpUartProofs`. `Sound` is what holds of the receiver between any two puts: flags, count and positions agree, and the
  line is raised for what is pending and enabled. One lemma says that a put preserves it, and that nothing received loses
  its interrupt; a delivery is a recursive function over the numbers of its bytes, and the argument for it takes the
  least number for which the claim fails (`LeastNumber`, `UpTo`). `FlagsTellFifoAlways`, `NoLostInterruptAlways` and the
  action property `RxPendingAlways` follow. `QueueOf` reads the queue off the ring buffer; that a put beyond the depth
  replaces an unread item in the ring buffer and in the queue alike is arithmetic modulo the depth (`SameSlot`). With it
  every step is one of `UartQueue` (`UartImplementsQueue`).
- `ConsoleProofs`. The invariant says that the FIFO stays off and holds at most one key, that the firmware reads DR only
  when there is one, and that an answer of `mux_chr_can_read` the main loop still acts on is justified: what it was
  given for may be gone, but then there is room elsewhere. `KeysConservedAlways` follows, for any number of keys and any
  size of the multiplexer's buffer.
- `VcpusProofs`, exclusive sections. Exclusion is not inductive: it rests on who was counted. `IInv` says by the place of
  the owner of the section which guests may still run (those not yet scanned, those marked, none), that `pending_cpus`
  is the number of marked vCPUs and one, and that a mark is on a vCPU that will still count itself off.
  What the steps need of cardinalities is one formula, `Counting`, which they assume; `MarkedCounted` proves it from the
  theorems about finite sets. `ExclusiveSections` and `ExclusiveNothingLeft` follow, for any finite set of vCPUs.
- `VcpusProofs`, threads. Every step of `Vcpus` is a step of `Exclusive` or leaves its variables alone, which carries
  `IInv` over (`VcpuExclusion`); `LockInv` relates the owner of the bql to the places of all threads (`VcpuBqlHeld`).
  `VInv` adds where a thread is in both modules (`AtPc`), that a stopped vCPU stays away from the guest (`Parked`), and
  that a vCPU that is past the look at its queue is kicked for what is queued later (`Kicked`), also before it has
  entered the guest, where the property does not look. `VcpuResetAlone` and `VcpuKickNotLost` follow.
- `CallRcuProofs`, grace periods. A reader that uses an object of the batch is in the registry with a counter that is not
  the current one. In a build with 32-bit counters that holds in the second of the two waits; in the first a reader
  whose stale parity happens to be the current one is missed, and the toggle between the waits makes it the other one.
  `RcuSafe` follows for any readers, any number of grace periods and every width of the reader's copy of the counter.
- `CallRcuProofs`, deferred reclamation. The invariant says that there are places: a numbering of all the nodes that
  were ever put, of which those from *a* to *b* are in the queue and the dummy is at *d*. The links follow the places,
  except where a thread has exchanged the tail and has yet to store the link (`Pending`). There are at least as many
  nodes as were counted, since a node is put before it is counted (`Counted`; `UncountedCounted` has the cardinalities).
  The callbacks of a round are taken from the head by number, so they are not the nodes that were counted; but there is
  a place *k* up to which all nodes belong to the batch, and the number is too small to go beyond it, with the dummy
  allowed for (`Cutoff`). Hence no callback runs for an object outside of the batch, and every step is one of `Rcu`
  (`CallRcuImplementsRcu`), which carries `NoUseAfterFree` over (`CallRcuSafe`). `Order` says that what the main loop
  has removed is in front of its drain; hence all of it is reclaimed when `drain_call_rcu` returns
  (`DrainedInOrderAlways`).

Only model-checked: liveness, which the prover does not do. These are `BackToMenu`, `KeysReachFirmware`, `StallEnds`,
`BqlReleased`, `SomeoneEnters`, the properties of `vcpus` (`ResetHappens`, `GuestResumes`, `RunReturns`,
`InterruptWakes`), `EveryObjectReclaimed` and `DrainReturns`, of which `DrainedInOrder` is the part that is safety.

## Not modelled

- OpenSSL: external, symbolic. The parsing of the curve of a key, the bytes of the public area and the name.
- Migration of the UART, except for the predicate of `nxp_uart_post_load`; the transfer of the stream itself.
- `cc_handle.h`, `cc_auth.h` and `cc_session.h`, `TPM2_RSA_Sign`, `generate_rsa_key`, `nv_entry_free` and `UART_gets`:
  nothing calls them.
- Text: what `UART_printf` and `UART_print_hex` format (their writes and waits are modelled), logging.
- The multiplexer's escape sequences and the monitor; BREAK is in `NxpUart`, not in `Console`.
- Of the vCPU threads: hot-unplug, guest debugging, record and replay, the loop that runs all vCPUs in one thread, and
  accelerators other than TCG.
- Of read-copy-update: nested sections (a depth of the thread itself), `fork`, coroutines, hosts without futexes.
- Weak memory: see above.
- The board's construction: it runs once.
- The TPM devices of upstream QEMU (`tpm_tis*.c`, `tpm_crb.c`, `tpm_spapr.c`): this machine has none of them.
- The rest of QEMU. `src/` contains more than two million lines of it: targets, devices, block and network layers, tools,
  tests. The project does not change them, and nearly none of them runs on this board. What is modelled is what the
  repository adds, as a whole, and the parts of QEMU whose correctness the device models take for granted.

## Plan

Done: the window, the handlers, the chain, the firmware, the UART, the console, migration, the threads and the
read-copy-update of QEMU, and proofs of every safety property, action property and refinement that a passing run
checks. Next:

1. The composition of `Console` and `Firmware`: a command per key, in the order they were typed, across resets.
2. The multiplexer with BREAK, the escape character and the focus on the monitor.
