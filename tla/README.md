# A TLA+ verification project for Casa1

Casa1 runs Windows programs on macOS. It emulates the CPU, translates hot guest
code to native code, loads PE images and answers Win32, NT, Direct3D and audio
calls with host services. This directory models the parts of it in which several
threads, callbacks or queued operations meet: the guest synchronisation
primitives and thread pools, the completion port, the pump and the pool of native
workers that guest threads are parked on, the kernel objects and handles behind
them, compiled code that guest threads overwrite while others run it, the I/O
manager of the CasaK kernel, and the software TPM with its state file.

Contents: 1 the system, 2 modules, 3 runs, 4 fairness, 5 proofs, 6 where code and
comments disagree, 7 what is only model-checked, 8 what is not modelled, 9 plan.

## 1. The system and its parts

One host thread, the *runtime owner*, runs the guest: it interprets or executes
compiled blocks, dispatches imports to *host thunks*, and between blocks runs a
*safepoint*. A guest thread that has to wait is either polled by the owner (the
cooperative path) or parked on a *production worker*, a native thread that waits
in its stead and pushes a completion. In production mode runnable guest threads
are also run in *rounds* of *slices*: workers execute compiled blocks of several
guest threads at a time while the owner waits for the round to end.

Parts with state that several parties change:

| Part | Source | State | Operations | Hard behaviour |
|---|---|---|---|---|
| SRW lock | `threads.rs` 401-528 | `readers`, `writers_waiting` | acquire, try, release, shared and exclusive | barging, writer preference, spurious wake-ups |
| Mutex | `threads.rs` 158-254 | owner, recursion count, abandoned flag | acquire, try, release, mark_abandoned | nesting, owner dies, barging |
| Condition variable | `threads.rs` 962-1136 | wake generation, waiter count | sleep_cs, sleep_with_polling, wake, wake_all | release, check and block are three steps for a waker |
| Thread pool | `threads.rs` 700-830 | work queue, completed queue, flags | queue_work, dequeue_work, worker loop, drop | full queue, shutdown against a worker about to block |
| Pool with timers | `threads.rs` 1640-1900 | queues, timer queue, generation | create and delete timer, queue, dequeue, worker loop | two workers on one expiry, late periodic timers |
| Completion port | `win32.rs` | packets, active slots, concurrency, closed | post, wait, set concurrency, close, thread exit | limit changes while threads sleep, close against waiters |
| Pump wake | `runtime/scheduler.rs` | epoch, sources of work | publish, observe, scan, block | work published between scan and block |
| Production waits | `runtime/scheduler.rs`, `win32.rs` | parked threads, jobs, queue, completions | park, signal, close, post, APC, exit, terminate, reap, apply, drop | stale completions, signal in any phase of a job |
| Kernel objects | `runtime/object_manager.rs`, `runtime/handle_table.rs`, `win32.rs` | handle table, free list, names, counts, share claims | create, open, duplicate, move, protect, close | handle values are used again |
| Code caches and slices | `jit/code_cache.rs`, `jit/frontend.rs`, `runtime/scheduler.rs`, `runtime/shared.rs` | two block caches, watched pages, code-write log, epoch | compile, evict, invalidate, store, link, call, run a round | a thread overwrites code that it or a sibling runs |
| Software TPM | `tpm/` | state in memory, sessions, state file | the commands that change state, save, open | a crash, a failed save or a lost answer between two steps of a command |
| CasaK I/O manager | `casak/io.rs` | device links, IRPs, queues | create, attach, detach, delete, allocate, queue, complete, cancel | clones of the IRP core complete while a device is deleted |

How they meet: a wait on a mutex, an event, a port or a thread parks the guest
thread (ProductionWait); the workers' completions wake the pump (PumpWake); the
objects waited on are reached through handles (KernelObjects); a slice that ends
at a host barrier hands its thread back to the owner (SliceCode), which then may
park it. The condition variable contains a mutex and is composed with it. The I/O
manager is its devices (CasaKDevices) composed with its IRP core (IrpCore). The TPM
stands alone: the guest reaches it through TBS, one command at a time.

The other parts, from the CPU interpreter to the graphics back ends, are listed in
section 8 and, one by one with their sources, in `PROJECT.json`.

## 2. Modules

Each component has a module, an `MC` module where its instance for TLC needs
definitions of its own, and, for seven of them, a `Proofs` module. Two small modules,
ReadersWriterLock and DurableDevice, say what a component promises and nothing about
how; the component is shown to implement them. Three conventions hold everywhere. A section of
code under one host mutex is one step. `Condvar::wait` is two: a blocked thread is
moved by a notification (or spuriously) to a woken label and takes the mutex again
in a step of its own, so others may run in between. Variables called history only
record what was told to callers. A definition marked `mutant` is not part of the
specification; it is a plausible slip in the definition after it, used to see that
a property notices.

### GuestSRWLock
`readers` is -1 for an exclusive holder and otherwise the number of shared
holders; `writers_waiting` counts the writers asleep. `pc` is a thread's place:
`idle`, `waitX`/`waitS` (blocked), `wokenX`/`wokenS` (notified), `holdX`/`holdS`.
Every method is an action; a thread does not acquire a lock that it holds.
ReadersWriterLock knows only what each thread holds and which writers have started to
wait. The refinement mapping reads `mode` off `pc`, and takes a writer for waiting
while it is at `waitX` or `wokenX`.

### GuestMutex, GuestConditionVariable
GuestMutex has `owner_tid`, `recursion_count` and `abandoned`, and `held`, what each
thread was told. `inherited` records that the latest owner took an abandoned mutex.
`MaxDepth` bounds nesting. GuestConditionVariable extends it with the monitor a
guest writes around a condition variable: waiters sleep until `ready`, signallers set it and wake,
pollers are the dispatch loop. `Visitors` are the other users of the mutex: they
nest, barge and may die holding it, so the run of the monitor is also the run of
GuestMutex. `wake` takes no lock that `sleep_cs` holds, so the
release of the guest mutex, the snapshot of the generation, the predicate and the
block are separate steps.

### GuestThreadPool, EnhancedGuestThreadPool
Workers evaluate their predicate and block under the mutex of the work queue;
`shutdown`, and in the enhanced pool the timer operations, change what the
predicate reads without it, and the model keeps those steps apart. The enhanced
pool has a clock `now`, timers with due time and period, and several consumers that
call `dequeue_completed_timeout`. A worker pushes a result under the mutex and
notifies after it has dropped it, in two steps (`PushCompleted`, `NotifyCompleted`), so
a consumer may look, take or block between them. History sets say what became of each
item and expiry. Nothing in `src/` owns a GuestThreadPool or calls `dequeue_work`, so the
model lets a caller collect results and does not make it.

### CompletionPort
`queue`, `configured`, `active`, `closed` as in `CompletionPortWaitState`; labels as
above with `expired` for a timeout that has not taken the mutex yet; with an empty queue
such a thread reports the timeout without a look at `closed`. One dequeue
takes one or two packets. `posted`, `delivered` and `discarded` are the history of
packets. A thread's exit releases its slot only with the last handle to it.

### PumpWake
The loop of the pump as labels: read the epoch, reap completions, scan the
cooperative sources, block on the epoch or on the pool. Publishers take up to four
steps: store the work, notify the pool (workers), bump the epoch, notify.
Timeouts exist as steps without fairness: nothing may rely on them.

### ProductionWait
The owner's guest operations (`Wait`, `Signal`, `CloseObject`, `ClosePort`, `QueueApc`,
`Post`, `Exit`, `Terminate`), its loops (`loop` is `direct`, `pump` or `drain`) with `Reap` and
`Apply`, and the workers (`Take`, `Finish...`, `Push`). A job's ParkSignal is its
`reason`. A wait is a descriptor: any, all, sleep or port, its targets, with or
without a timeout, and for a port the most packets it takes (`entry_count` of
GetQueuedCompletionStatusEx; `held` is what a worker has dequeued). `workers` is the size of
the pool, chosen from `PoolSizes`; when it is smaller than the number of parked threads a
job waits in the queue behind workers that wait. A job number is used again once no queue holds it; the code
counts in 64 bits, which the model cannot tell apart.

### KernelObjects
`entries`, `generations`, `closed_handle_values` and `next_handle` are the handle
table with its free list; `kind`, `name`, `names`, `handle_counts` the object manager;
`claims` the share claims of files. `stale` (closed incarnations) and `opened` (opens
not yet closed) are history. The owner runs every operation, so each is one step.

### SliceCode
A page of guest code holds at most one block in the dispatcher's cache and one in
the slice cache. A cached block is `fresh`, or stale because of a store that was
recorded (`seen`), one that went through `jit_helper_store` or `jit_helper_lock_xadd`,
the helpers that record, and was not recorded (`missed`), or one from code that records
nothing (`unseen`): the interpreter, a thunk of the owner (`UnseenStore`), or
`jit_helper_execute_insn` and `jit_helper_inline_api`, which run an instruction or an import
for a compiled block (`HelperStore`). Between rounds the owner
compiles, promotes, evicts and stores. `StartRound` compiles slice blocks and hands
a job to each slice; a slice goes through `run_slice` (dispatch, the guard in a
block's prologue, the body, the end of the block) and `run_thread` (a barrier, a
worker-safe thunk, the next `run_slice`, the final drain). A recorded store is three
steps: the word, the entry in the log, the flag with the epoch. `FinishRound` acts
on what the completions report. `moved[s]` says that the epoch differs from the one
that the chain of s started from.

### SoftTpm
`state` is the `PersistedState` in memory, `sessions` and `objects` what only memory
has. A command is several steps: the handler (one action per command), the system calls
of `persist::save` (`WriteTemp`, `SyncTemp`, `Rename`), and the answer. `phase` says how far
it is. Every system call may fail (`SaveFails`), an answer may not fit the caller's buffer
(`AnswerLost`), the process may die between any two steps (`Restart`), and the power may go
(`PowerLoss`), after which the directory leads to the old file or to the new one. `guest` is
the groups of commands that one guest uses; it keeps unrelated commands apart in TLC and
the proofs hold for every choice. DurableDevice has the state the device answers from,
the states a restart may bring back (`kept`), and the states a power loss may bring back.

### CasaKDevices, IrpCore, CasaKIo
CasaKDevices has the links between devices as functions: the stack (`attached_device`,
`lower_device`) and the chain of a driver (`first_device`, `next_device`). IrpCore has the
IRPs and a FIFO per device, behind one mutex; the completion routines of an IRP are
reduced to whether it has any, and what they return is open. CasaKIo composes them: the
owner deletes a device by unlinking it, taking its queue in one critical section
and cancelling the IRPs of that queue one by one (`sweep`), and sends a synchronous
request by allocating an IRP and completing it in a later critical section (`sending`),
while `Drive` completes and cancels IRPs from other threads.

## 3. Runs

Bounds are named in the modules. "States" are distinct states.

| Run | Instance | What it shows |
|---|---|---|
| `srw_lock` | 3 writers, 2 readers; 3,008 states | the lock implements ReadersWriterLock, strands no waiter when it is free, and a waiting writer gets in although readers come and go |
| `monitor` | a waiter and a poller with timeouts, a signaller, a visitor, nesting 2; 22,585 states | what threads were told matches owner and count, also when an owner dies; no waiter stranded; monitor exclusion; a result says "woken" only after a wake; a timed sleep always returns holding the mutex |
| `cv_lost_wakeup` | a waiter without timeout, a signaller | violated: section 6 |
| `pool_work` | 2 workers, 3 items, cap 1; 7,064 states | an item is delivered once or dropped at the cap, and is finished unless the pool is shut down |
| `enhanced_pool` | 2 workers, 2 consumers, an item, a timer, cap 2, times to 2; 1,918,274 states | each expiry and item is delivered once; workers do not sleep past work; while a consumer sleeps every result is covered by a worker about to notify or a consumer about to look; a rescheduled timer is never in the past |
| `completion_port` | 2 threads, 3 packets, limits default and 1; 114,556 states | FIFO and exactly once, no packet beside a free slot and a sleeping thread, close wakes all, growth within the limit, timed waits return |
| `pump_wake` | a host, a worker, 3 publications each; 95,333 states | the pump never sleeps on work that was published; completions are run |
| `production_wait` | 2 threads, an event, a pool of 1 or 2 workers, 3 jobs, 2 packets; 232,584 states | jobs are accounted for once, no wait misses its wake, packets are lost only with a terminated thread and no more than its wait takes, timed waits return in the pump-driven loop unless the pool stays full, dropping the pool ends its workers |
| `kernel_objects` | 2 objects, 3 handles, a name; 1,247,528 states | exact handle counts, names lead to live objects, no leaked claim, closed incarnations are rejected, a live handle keeps its object |
| `slice_code` | 2 pages, 2 slices, budget 2, cache of 1; 2,469,006 states | every recorded code write reaches the owner and is acted on, no store of a recording helper passes a page of the dispatcher's blocks, a thread stops after its own code write |
| `soft_tpm` | an index, a session, an object, 2 draws, 2 boots, 2 faults; 1,092,984 states | the TPM implements DurableDevice, the state file always opens, an acknowledged write lock holds, random bytes are not handed out twice, quotes of one boot agree (those answered while a failed save is outstanding are excluded) |
| `casak_io` | 3 devices of a driver, 2 IRPs; 325,876 states | stacks and chains stay lists, an IRP is completed once and waits in one queue, a deletion leaves no IRP behind |

Some properties are conjunctions whose parts are defined and commented one by one in
the module: `NobodyStranded`, `NoLostWake`, `TablesAgree`, `OwnerBlocksCurrent`. Each part
has a mutant.

Why the bounds are enough for the cases that matter. Two workers or waiters are
the least that can compete for one item or slot; a third writer lets one hold, one
wait and one barge. A cap or cache of one makes every second insertion meet the
limit. Three packets and two threads let a batch of two and a single packet meet
both sides of a limit of one. Three handle values with two objects let a value be
closed, used again for the other object and looked up by its old reference. Two
threads and three job numbers let a stale job of a wait that was abandoned coexist with
the current jobs of both; a pool of one worker puts a timed job behind an endless wait,
a pool of two never does. Two packets let one wait take several and a terminated thread
lose as many. Two consumers let the notified one find that the other has taken the
result. A budget of two blocks lets a slice store
in one block and try to enter the next, link or be dispatched, before and after a thunk.
Two faults let a save fail and the process die before the next save, or the power
go twice; two draws and two boots are the least that can repeat. Three devices are the
least with a middle of a stack and of a chain, and with two IRPs a deletion can give up
its lock between two cancellations. The proofs of section 5 remove the bounds for seven
of the modules.

`CHECK_DEADLOCK FALSE` stands where the system may stop: all threads dead or
exited, a pool dropped, all publications, packets or IRPs of the bound used.

## 4. Fairness

| Specification | Weakly fair (strongly where said) | Why the code gives it |
|---|---|---|
| `GuestSRWLock!FairSpec` | a woken thread runs; a holder releases | host scheduling; guests that keep a lock for ever are out of scope |
| `CVFairSpec` | a thread's own steps; deadlines pass | host scheduling and clock. Wakes and notifications are not fair by themselves |
| `GuestThreadPool!Spec` | a worker's step; the caller's notify and join | host scheduling. Nobody has to collect a result: a full completed queue drops it |
| `CompletionPort!FairSpec` | a woken thread takes the mutex; deadlines pass | host scheduling and `wait_timeout`. Nobody has to post |
| `PumpWake!FairSpec` | the pump; a publisher that has begun | host scheduling. The pump's own timeouts are not fair, so no wake-up is owed to them |
| `ProductionWait!FairSpec` | workers take and finish jobs; the owner reaps and applies; the clock; strong: the pump's look at each thread | host scheduling; the pump takes the first ready record and puts it back at the end, so it passes over none for ever. Guest code need do nothing |
| `SliceCode!FairSpec` | a slice takes steps; the owner ends the round | blocks and worker-safe thunks end, and `run_thread_contexts` waits for every completion |

## 5. Proofs

All theorems are proved for every value of the constants under the named
assumptions; the provers are SMT, Zenon and LS4 for the temporal steps. Each proof
has an inductive invariant `IInv`, a lemma that `Init` implies it, a lemma per action
or operator, and a lemma `NextInv` (`NextIInv`) with one step per action.

* **SRWLockSafety** (`GuestSRWLockProofs`): exclusion, exact counters, no stranded
  waiter. Assumes finitely many threads. The three properties and the types are
  inductive together: a release decides whom to wake from the counters, so a
  stranded waiter can be excluded only if the counters are exact, and exclusion
  follows from the sign of `readers`.
* **SRWImplementsLock** (`GuestSRWLockProofs`): the lock implements ReadersWriterLock
  under the mapping of section 2. Besides the invariant it needs that only writers
  are ever on the exclusive side (`WritersOnly`). Each action maps to one abstract step or a
  stutter; that a reader enters only when no writer waits follows from the exact
  `writers_waiting`, which also counts the writers that were woken.
* **MutexSafety** (`GuestMutexProofs`): `OwnershipExact` and `NoStrandedWaiter`, for any
  threads and nesting. Added to the invariant: a thread that waits, was woken or
  died does not own the mutex.
* **CompletionPortSafety**, **CompletionPortFifo**, **CompletionPortGrowth**
  (`CompletionPortProofs`): no stranded packet and none asleep on a closed port; what
  was posted is what was delivered, is queued or was discarded, in order; active
  slots grow only within the limit. Assumes finitely many threads and limits in
  Nat. `NoStrandedPacket` is far from inductive. The invariant counts: while somebody
  sleeps, the threads that are awake but have not taken the mutex are at least as
  many as the packets, or with the active threads they fill the limit (`Balance`).
* **PumpWakeSafety** (`PumpWakeProofs`): no published work behind a sleeping pump, for
  any publishers and any number of publications. The invariant follows the pass:
  work in a source that the pass has left behind belongs to a publisher that will
  still bump the epoch, or the epoch has already left the value the pass read
  (`Announced`); a pump asleep on an old epoch is about to be notified.
* **KernelObjectsSafety**, **HandleStability** (`KernelObjectsProofs`): exact counts,
  names that resolve, stale references rejected, no leaked claim; and no handle
  changes its object. For any names and bounds. The invariant has the shape of the
  free list (minted values, not live, no value twice) and that closed incarnations
  are older than the generation of their value.
* **SliceCodeSafety**, **OwnerBlocksSafety**, **OwnWriteSafety** (`SliceCodeProofs`): every
  recorded write is in the completions when the owner looks; after a round no block is
  stale by a recorded store, and none of the dispatcher's by a store through a recording
  helper that was not recorded; a thread enters no block after its own code write. For any
  pages, slices, budget and cache limit. Stores that nothing records are outside (item 16
  of section 6). The invariant says where a recorded page can be (in the log, in a report,
  or pending in a slice that is about to push it), that a log that is not empty has a slice
  left to drain it, that blocks known to be stale are on recorded pages, that the pages of
  the dispatcher's cache are watched, and where a slice can be after its own store.
* **StateFileSafety**, **TpmImplementsDevice** (`SoftTpmProofs`): the state file opens after
  every fault; the TPM implements DurableDevice, for any guest and any number of
  commands and faults. The invariant says what the system calls of `persist::save` leave in
  turn: what is renamed was synced, the file is a state that a restart may bring back, and
  a saving command about to be acknowledged is in the file. `CommandIsFrame` reduces
  all commands to what they leave alone.

## 6. Where code and comments disagree

Each item names a configuration in which TLC finds the behaviour; the first is run
`cv_lost_wakeup`. A configuration is checked with the module it is named after
(`MCKernelObjectsDisagree.cfg` and `MCSliceCodeUntracked.cfg` with `-continue`, for all
their properties). Paths are under `src/src/`.

1. `GuestConditionVariableLost.cfg`, NoLostWakeup. `threads.rs:1022` releases the mutex
   before it snapshots the generation; a wake in between, or between predicate and
   block, is lost. `threads.rs:1016`: "The mutex is released atomically with the wait".
2. `GuestMutexAbandon.cfg`, AbandonmentObserved. `threads.rs:207` clears the flag in
   the acquisition that, by `threads.rs:241`, should observe it.
3. `GuestThreadPoolDrop.cfg`, DropReturns. `threads.rs:799` stores the flag and
   notifies outside the mutex; a worker between predicate and block misses both and
   the join does not return. `threads.rs:713`: "Signals workers that a work item
   arrived (or shutdown)".
4. `MCEnhancedGuestThreadPoolTimer.cfg`, TimerNotSleptPast. `create_timer`
   (`threads.rs:1849`) has the same window. `threads.rs:1688`: "a wake cannot be missed
   between the evaluation and the blocking wait".
5. `MCCompletionPortExit.cfg`, ExitedHoldsNoSlot. `win32.rs:7536` returns while a handle
   to the thread is open, before the slot is released. `win32.rs:7557`: "A guest thread
   stops holding completion-port concurrency slots when it exits".
6. `MCProductionWaitJoin.cfg`, JoinLearnsOfExit. `terminate_thread` (`win32.rs:6632`)
   records the exit without `notify_thread_exit`. `win32.rs:6475`: "a join parked on a
   native worker learns about every exit source, including TerminateThread".
7. `MCProductionWaitStarve.cfg`, ApcEndsWait. A job behind workers that wait without end
   (`runtime/scheduler.rs:2821`) is not looked at although it was notified; the header
   at 1865-1869 says that a wait is "woken by a real event". A timed wait behind them does not
   end either, which is why TimedWaitReturns excepts a pool that stays full.
8. `MCProductionWaitDirect.cfg`, TimedWaitAlwaysReturns. Only the pump-driven loop reaps
   (`runtime/scheduler.rs:1139`); `runtime/execution_glue_impl.rs:196` speaks of "a
   Sleep(20) worker" that finishes "while the main thread spins".
9. `MCProductionWaitClose.cfg`, RunSurvivesClose. A handle of a parked wait-any that was
   closed ends the run with an error (`runtime/scheduler.rs:684`); 3678 says of the same
   hand-over that it "never loses the wait".
10. `MCKernelObjectsDisagree.cfg`, ClaimWhileOpen. `win32.rs:3219` drops the share claim before
    the table refuses to close a protected handle, so the file stays open without its
    claim; 3193: "The GE share-state claim dies with the LAST handle to the object".
11. `MCKernelObjectsName.cfg`, NewestKeepsName. The last close of an object removes
    its name even if a newer object has taken it (`runtime/object_manager.rs:558`); `win32.rs:2700`: "the new
    object wins the name".
12. `MCKernelObjectsDisagree.cfg`, OpenKeepsObject. A named mutex that is opened again returns
    the same handle uncounted (`win32.rs:2696`), so one close ends it for all; 2682:
    "mirroring `create_event`", which mints "a FRESH handle" (1729).
13. `MCKernelObjectsDisagree.cfg`, ProtectionIsOfLiveHandle. `runtime/handle_table.rs:207`
    protects a value without asking whether it is live; its next use starts protected.
    29-31 describe the flag as a part of one live handle.
14. `MCSliceCodePush.cfg`, PushStops. `slice_push_return` sets the flag after `run_slice`
    has read it (`jit/code_cache.rs:1682`), so a thread can go on through a worker-safe
    thunk into the next slice of the program. `jit/code_cache.rs:1089`: "the runtime owner
    must invalidate stale blocks before the next slice".
15. `MCSliceCodeUntracked.cfg`, SliceStoresSeen. `rebuild_code_pages`
    (`jit/code_cache.rs:3362`) keeps only the dispatcher's pages, and a slice block
    compiled after a miss in the AOT cache (2929-2936) is not entered at all; a store to
    such a page is not noticed. 3359: "from all currently cached blocks"; 3483: "a code
    write invalidates them just like dispatcher blocks".
16. `MCSliceCodeUntracked.cfg`, InterpreterStoresSeen. `note_guest_code_write` is called by
    `jit_helper_store` and `jit_helper_lock_xadd` only (`jit/frontend.rs:207` and 314). The
    interpreter marks no page, nor do `jit_helper_execute_insn` (336) and
    `jit_helper_inline_api` (702) on behalf of a compiled block, so the drain on entry finds
    nothing of theirs. `jit/code_cache.rs:3663`: "The interpreter may have written guest code
    pages between JIT executions. Drain those writes before running a stale block". A block
    is still compared with its hash when `get_or_compile` looks it up.
17. `MCSoftTpmSession.cfg`, SessionsUsable. `authorize` rolls a session's nonce
    (`tpm/session.rs:137`) before the handler's own checks; when one of them fails, the
    answer has no session area (`tpm/engine.rs:205`) and the caller cannot learn the new nonce.
    `tpm/engine.rs:4`: "Every handler validates sizes, handles, and authorization before it
    mutates state".
18. `MCCasaKIoQueue.cfg`, QueueExact. A clone of the IRP core queues without asking whether
    the device was deleted, and the IRP waits in a queue that nobody sweeps again.
    `casak/io.rs:25`: "the shared IRP core and completion ports are safe to drive from another
    thread"; 1401: deletion "cancels its pending IRPs".

## 7. What is only model-checked

Liveness is out of the prover's reach and stays with TLC: WriterNotStarved,
TimedSleepReturns, WorkCompletes, TimedWaitReturns, DropReturns, CompletionRuns, and
RoundEnds of SliceCode (`MCSliceCodeLive.cfg`: one page, budget 1, 9,934 states).
The condition variable, both thread pools, ProductionWait and CasaKIo have no proofs, and of
the TPM LockedFrozen, RandomNotRepeated and QuotesComparable are only model-checked. The
links of CasaKDevices would need induction along a walk, which is out of reach too.

## 8. What is not modelled, and why

* Instruction semantics, lifting, native emission, shaders, image parsing, codecs,
  cryptography, DirectML: functions on data, with tests against reference results.
* Host I/O behind a thin translation: network, files, input, printing, audio devices,
  browser and CLR bridges, Steam, graphics back ends.
* The thunk catalogue and the router: argument marshalling for some ten thousand
  imports. Handlers that change scheduling state are in ProductionWait and
  CompletionPort.
* Within modelled parts: `recursion_count` at `u32::MAX`, diagnostic counters, pipe and
  overlapped waits and suspension in ProductionWait, the overflow of the dirty ring (after
  which the code drops the dispatcher's blocks and of the slice cache only the blocks at
  their addresses), Tier-2 functions, predictors and inline caches in SliceCode, completion ports and
  parameter checks in CasaKIo, the clock and the key material in SoftTpm. Memory orderings are taken
  as sequentially consistent; the atomics involved are acquire/release pairs on one
  location, or under a mutex.

## 9. Plan

Done: the primitives, pools, port, pump, production waits, kernel objects, code caches,
I/O manager and TPM above, with two refinements. Next, in this order:

1. `SliceRounds`: the worker pool under a round (slots, affinity, start gate,
   completions, retirement, drop; `runtime/scheduler.rs` 2270-2926 and 3505-3600), composed
   with ProductionWait's workers; abstract specification: each context handed out comes
   back once.
2. `KernelWaits`: `wait_satisfaction` and `consume_wait` with mutex ownership, semaphores,
   wait-all; refinement of an abstract atomic wait, and ProductionWait against it.
3. An abstract queue that CompletionPort implements, with the refinement proved, and the
   completion ports of `casak/io.rs` against the same queue.
4. `AudioRingBuffer` (lock-free, one producer and one consumer), the background pipeline
   compiler, the remaining primitives of `threads.rs`.
5. `crash_recovery.rs`, with the fault model of SoftTpm.
6. CasaK's ALPC queues and plug-and-play states, the driver island's IRPs, the service
   control manager, UMDF hosts and the device proxy.
7. Proofs for GuestThreadPool, the job accounting of ProductionWait and IrpCore.
