# A TLA+ verification of the ArmOS kernel

ArmOS is a Unix-like kernel in C for ARM32 and ARM64 machines with several CPUs.
It has its own scheduler, processes, signals, pipes, futexes, memory management,
file systems, sockets and drivers, and it ports newlib with a pthread library.

This directory specifies the concurrent core of that system in TLA+. TLC checks
the specifications on small instances; TLAPS proves the most important
properties of the scheduler, the process tree and `waitpid`, signals, pipes, the
pthread objects, the ext2 lock, terminal readers and the block driver for every
number of CPUs, tasks, threads and requests. `PROJECT.json` maps every definition
to the lines it models and lists the components, the runs, the mutants and the hazards.

- [The system](#the-system)
- [Modules](#modules)
- [Runs](#runs)
- [Fairness](#fairness)
- [Proofs](#proofs)
- [Findings and deviations](#findings-and-deviations)
- [What is not modelled](#what-is-not-modelled)
- [Next](#next)

## The system

Paths are relative to `src/`.

| Part | Source | State | Operations | What makes it hard |
|---|---|---|---|---|
| SMP scheduler | `kernel/task/task.c`, `kernel/drivers/power.c` | `state`, `running_cpu`, `ready_queue`, `current_tasks[]`, kernel stacks | `schedule`, `yield`, `switch_to_idle`, claim, commit, rollback, context save, sleep, wake, exit, reap, forced termination | a task is READY, or dead, while its CPU is still on its stack |
| Poll wait queues | `kernel/task/task.c` | `poll_generation`, sleepers and their keys | `task_poll_generation`, `task_poll_wait`, `task_poll_notify_key` | a notification between the scan and the sleep |
| Pipes | `kernel/syscalls/process_syscalls.c` | ring buffer, reader and writer counts | `pipe_read`, `pipe_write`, `pipe_close` | both ends block, signals, a close that frees the buffer |
| Process life cycle | `kernel/syscalls/syscalls.c`, `kernel/process/fork.c`, `kernel/task/task.c` | the family tree, zombies, stop and continue reports | `sys_fork`, `sys_exit`, `kernel_waitpid`, `scheduler_scan_waiters` | several critical sections per call; two kinds of reaping |
| Signals | `kernel/process/signal.c` | `pending`, `blocked`, `in_handler`, one frame | `send_signal`, `check_pending_signals`, `sys_sigreturn`, `sys_sigsuspend`, stop, continue | `pending` is updated without a lock |
| Futexes | `kernel/task/task.c`, `kernel/syscalls/thread.c` | who sleeps on which address | `task_futex_wait`, `task_futex_wake` | a wake between the user's test and the sleep |
| pthread synchronisation | `newlib-port/pthread_sync.c`, `newlib-port/pthread.c` | mutex, condition, barrier, semaphore and rwlock slots | lock, wait, post, cancel, owner death | atomics in user mode around a kernel sleep |
| Threads | `newlib-port/pthread.c`, `kernel/syscalls/thread.c` | thread control blocks and their table | create, exit, join, detach, reap, cancel | a block is used without the lock by creator, joiner and the exiting thread |
| FIFOs | `kernel/syscalls/process_syscalls.c` | reader and writer counts and epochs | `pipe_open_named`, `pipe_close` | a counterpart that opens and closes while the opener sleeps, a signal meanwhile |
| Local sockets | `kernel/net/armos_socket.c` | accept queue, channels, control messages | connect, accept, read, write, sendmsg, shutdown, close | files tied to bytes by an offset only, wake-ups after the unlock |
| ext2 | `kernel/fs/ext2_vfs.c` | block cache, kept-back inodes, bitmap; the operation lock and its wait queue | write, truncate, chmod, sync; acquire, release | power failure, full tables, failing requests; a sleeping lock |
| Block driver | `kernel/drivers/virtio_block.c` | rings, owner, failed flag | submit, wait, interrupt, timeout | a device that answers late or never |
| Terminals | `kernel/drivers/tty.c` | input buffer, one reader slot, settings | read, input, flush, set modes | one slot for several readers |
| Open files, poll, timers | `kernel/syscalls/file.c`, `process_syscalls.c` | descriptor tables, deadlines | open, dup, close, poll, select | not modelled |
| Memory | `kernel/memory`, `arch/arm64/mmu`, `kernel/syscalls/shm.c` | page reference counts, areas, page tables, shared memory objects | allocate, map, fault, fork, unmap, `shm_*`, exit | pages with several holders, calls that fail half-way |
| Network | `kernel/net` | connections, queues | connect, send, retransmit | not modelled |

How the parts interact: every sleep and wake-up of the other parts ends in the
scheduler, under one spin lock, `task_lock`. Descriptor waits go through the
poll wait queues, pthread waits through futexes. Signals end sleeps of either
kind, and exit and stop report to the parent through the life cycle. The
specifications are composed along these lines: `Pipe`, `FifoOpen` and
`LocalSocket` extend `PollWait`, the pthread modules extend `Futex`,
`PthreadCond` extends `PthreadMutex`. `Ext2` takes the mutual exclusion that
`Ext2Lock` shows for granted. Their
liveness assumes of the scheduler that what is READY eventually runs. `Scheduler`
shows that, with one exception (`ReadyRuns`): every CPU may be kept for ever by a
task that does not give it up. Of the calls modelled, a writer to a pipe or a local
socket may do that; `Pipe` takes it into account, and no liveness is stated of
sockets.

Three behaviours recur and are what the properties are about:

1. *Test, then sleep.* A condition is tested under one lock and the sleep is
   published under another. The code closes the gap with a generation number
   (poll), a second comparison (futex), a recheck after the mark (ext2, tty) or a
   second round of questions (waitpid).
2. *Claim, unlock, act.* A task or a zombie is found under `task_lock` and used
   after the lock was dropped.
3. *Unlocked words.* Signals and pthread objects are updated with plain or
   atomic accesses between which anything may happen.

A fourth belongs to the disk: *order*. What is written through a cache reaches
the device in pieces, and a power failure keeps any of them.

## Modules

One action is one critical section of `task_lock` (or of the lock that guards
the state), or one access to a shared word where no lock guards it. Spin locks
are taken as correct, and memory as sequentially consistent.

| Module | Models | State and steps |
|---|---|---|
| `Scheduler` | `task.c`: runqueue and handoff; `power.c`: forced termination | one program counter per CPU. `ClaimNext` → `Commit` or `CommitRefused`/`Rollback`/`Restore` → `Switch` → `ContextSaveComplete`; task steps `Sleep`, `CancelSleep`, `Wake`, `Yield`, `Exit`, `Reap`, `TaskCreate`; shutdown steps `ForceDequeue`, `ForceTerminate`, `Park` |
| `KernelStacks` | what the scheduler promises about stacks | `Allocate`, `Free`, `Enter`, `Leave`; abstract |
| `SchedulerProofs` | | theorems about `Scheduler`: types, the handoff, the implementation of `KernelStacks` |
| `PollWait` | `task_poll_*` | the generation is the bit "nobody notified since I read it" |
| `Pipe` | `pipe_read`, `pipe_write`, `pipe_close` | one step per lock section of the loop: generation, scan, notify, wait, sleep |
| `FifoOpen` | `pipe_open_named`, and `pipe_close` of a FIFO | announce, notify, wait, recheck, withdraw; the counts and epochs |
| `PipeProofs` | | theorems about `Pipe` (sleepers, the end of the buffer, the implementation of `ByteQueue`) and `FifoOpen` |
| `LocalSocket` | `armos_socket.c` | per process the locals of its call and the keys it still has to notify; per side of a channel its data, control messages, offsets and flags |
| `ByteQueue` | what a pipe promises | a bounded sequence of bytes with a final end of file; abstract |
| `Lifecycle` | fork, exit, waitpid, the scan | one step per question of `kernel_waitpid`; the scan collects under the lock and acts later |
| `LifecycleProofs`, `WaitpidProofs` | | theorems about `Lifecycle`: the tree and the statuses; who sleeps in `waitpid` |
| `Memory` | `physical.c`, `virtual.c`, `usercopy.c`, `arch/arm64/mmu/virtual.c`, `shm.c` | per page its count, per space its areas and page table; a copy-on-write fault, fork and the end of a space take several steps |
| `Signals` | the signal state of one process other than PID 1 | senders and target with separate load and store of `pending` |
| `SignalsProofs` | | theorems about `Signals`: the one frame, the mask |
| `Futex` | `task_futex_wait`, `task_futex_wake` | the address each thread sleeps on |
| `PthreadMutex` | mutexes of every type, trylock, timedlock, robustness | one step per access to `word` |
| `PthreadCond` | condition variables, in a monitor | `sequence`, `waiters`, over `PthreadMutex` |
| `PthreadBarrier` | barriers | `waiting`, `generation_word` |
| `PthreadSemaphore` | semaphores and deferred cancellation | `value`, `sequence`, `cancel_address` |
| `PthreadRwlock` | read-write locks | `state`, `waiting_writers`, `sequence` |
| `PthreadThread` | `pthread.c`, `sys_clone`, `sys_thread_exit` | the table and the words of each control block; a lookup and a change under the registry lock is one step |
| `PthreadProofs` | | theorems about `PthreadMutex`, `PthreadCond` and `PthreadThread` |
| `PthreadCounterProofs` | | theorems about `PthreadSemaphore`, `PthreadBarrier` and `PthreadRwlock` |
| `Ext2` | the write path of `ext2_vfs.c` over `block_device.c` and a device with or without a write cache | one step per operation (the lock is held), several for `ext2_sync` |
| `Ext2Lock` | `ext2_op_acquire`, `ext2_op_release` and the wait queue | mark, register, recheck, sleep; collect, wake |
| `VirtioBlock` | `virtio_block.c`: one request at a time; the device is external | submit, publish, poll, last look, sleep; the interrupt handler; the device fetches, answers or breaks |
| `Tty` | `tty_read_to`, `tty_input_char_to`, modes and flush | publish, mark, recheck, sleep; keys, wake-ups after the unlock |
| `BlockingProofs` | | theorems about `Ext2Lock`, `VirtioBlock` and `Tty` |
| `MC*` | | instances for TLC |

Abstractions worth knowing:

- *Scheduler.* The choice among READY candidates (priority, debt, affinity) is
  left open. All sleeping states are one, "BLOCKED". A deadline of a sleeper is
  a `Wake` at any time. The tick matters only for `wakeup_time` of a zombie,
  the bit `expired`.
- *PollWait.* The bit stands for the comparison of a 32-bit counter and agrees
  with it while fewer than 2^32 - 1 notifications fall between read and
  comparison.
- *Pipe.* Bytes are members of a small set. The ring keeps its positions and
  wraps as the code does.
- *Lifecycle.* Processes are single-threaded and PIDs are not reused. `left`
  stands for "its CPU has left its stack and a tick has passed", which is the
  part of the handoff that `Scheduler` models.
- *Signals.* Six signals stand for the classes of default actions. `Includes`
  says what the program does, so that a run can state for which programs a
  property holds.
- *Memory.* A block is one page, a page directory too; the tables below it are left
  out, but that one cannot be had is a fault. Page contents are the number of the
  last write. Calls that fail and put everything back are left out. One thread per
  process faults at a time in the runs (see *Deviations*).
- *pthread.* Slots exist; allocation and destruction are left out. Deadlines and
  interruptions may end a wait at any time. A barrier is used by as many threads
  as it was initialised for.
- *FifoOpen.* The ring is left out, and who opens may open again; the buffer
  lives as long as the inode.
- *LocalSocket.* A byte is the bit "files were sent with it". Rings are
  sequences (`Pipe` has the wrapping positions). A client connects once; the
  listener's descriptor is shared, connected sockets have one holder. Calls that
  fail without a change are left out. The keys that `armos_socket_channel_notify`
  finds in `endpoint[]` are looked up when their turn comes, as in the code.
- *PthreadThread.* A control block stands for its stack and TLS. Failures of
  `pthread_create` before the clone leave nothing behind and are left out.
- *Ext2.* Files are whole, direct blocks; free counters of superblock and group
  are left out, the bitmap is kept. A clean cache entry equals the device's block
  and is not kept. After a power failure a block holds any of the values written
  to it since the last flush that reached the device. A failed request may or may
  not have changed the block. `blk_flush` returns 0 without doing anything when
  the driver has no flush operation or VIRTIO does not offer the feature, and the
  flush of the SD drivers is empty too (`ops_flush` is false): such a
  device is taken to have no volatile cache, which nothing in the code checks.
- *VirtioBlock.* A request is its number and its buffers are its own. The device
  may answer once, at any time or never, may fail requests and may ask for a
  reset. Ring indices have their 16 bits.
- *Tty.* A character is a plain one or a newline; echo, output and the editing
  keys that repeat the erase key's step are left out.

`MCFiles`, `MCPipePair`, `MCBlocking`, `MCLifecycle`, `MCSignalsLive`,
`MCPthreadLocks` and `MCPthreadCounters` several instances in one run: a variable chosen in the initial state says
which one a behaviour uses, and the variables of the others keep their initial
values.

Operators marked *Mutant* are deliberately wrong variants of the definition that
follows them. No specification uses them. They show that a property can fail:
with the variant in place of the definition TLC refutes the property named in
`PROJECT.json`.

## Runs

`tlc -workers 2 -config X.cfg M` in this directory. Times are with two workers.

| Run | Module, configuration | Distinct states, time | Properties |
|---|---|---|---|
| `scheduler` | `MCScheduler`, `MCScheduler.cfg` | 77 k, ½ min | `StackOwned`, `HandoffInv`, `NoResurrection`, `StacksSpec`, `ReadyRuns` |
| `scheduler_shutdown` | `MCScheduler`, `MCSchedulerShutdown.cfg` | 565 k, ½ min | `QueueExact` |
| `scheduler_tick` | `MCScheduler`, `MCSchedulerTick.cfg` | finding | `StackLive` is violated |
| `files` | `MCFiles`, `MCFiles.cfg` | 854 k, 1½ min | `FilesTypeOK`, `PipeSleepers`, `BufferLive`, `OpensMeet`, `SocketSleepers`, `RightsKept`, `ReadsBack`, `SyncedSurvives`, `WritesOrdered`, `SleeperRegistered` |
| `pipe_pair` | `MCPipePair`, `MCPipePair.cfg` | 166 k, 2 min | `QueueSpec`, `CallsEnd` |
| `lifecycle` | `MCLifecycle`, `MCLifecycle.cfg` | 947 k, 1½ min | `ProgramTypeOK`, `TreeConsistent`, `ReportsCollectedOnce`, `NothingMissed`, `PagesAccounted`, `MemoryIsolated` |
| `lifecycle_echild` | `MCLifecycle`, `MCLifecycleEchild.cfg` | finding | `SomethingToWaitFor` is violated |
| `blocking` | `MCBlocking`, `MCBlocking.cfg` | 89 k, 2 min | `OpExclusion`, `SleeperKnown`, `RequestsSafe`, `WaitersServed` |
| `signals` | `MCSignals`, `MCSignals.cfg` | 2.5 M, 2 min | `OneFrame` |
| `signals_live` | `MCSignalsLive`, `MCSignalsLive.cfg` | 193 k, 2½ min | `MaskRestored`, `SignalsAct` |
| `pthread_locks` | `MCPthreadLocks`, `MCPthreadLocks.cfg` | 232 k, 2 min | `Exclusion`, `SleepersCovered`, `OneHeir`, `NoSleepBesideItem`, `BarrierHolds`, `LocksProgress` |
| `pthread_counters` | `MCPthreadCounters`, `MCPthreadCounters.cfg` | 1.6 M, 2 min | `TokensConserved`, `RwExclusion`, `JoinsSafe` |

What they show, and why the bounds are enough for the cases that matter:

- **scheduler.** Two CPUs, each with its idle task, and three processes: both
  CPUs can be busy while a third task is queued, woken, claimed or reaped, so
  every pair of handoff steps meets, and ticks come at any time. No stack is
  shared or freed under a CPU other than one between the commit and the switch of
  `switch_to_idle()` for an exiting task (`StackOwned`; in that window it happens,
  finding `scheduler_tick`), nothing dead is revived, the detailed handoff
  implements `KernelStacks`, and every READY task eventually executes unless every
  CPU is kept for ever by a task that does not give it up (`ReadyRuns`).
- **scheduler_shutdown.** The same with one caller of `kernel_poweroff()` that
  dequeues and terminates tasks claimed elsewhere. The runqueue still holds the
  runnable tasks and nothing else.
- **files.** Five kinds of open file.
  *Pipe*: a reader and two writers over a one-byte ring with calls of up to two
  bytes, so that every transfer can be partial; one writer is non-blocking, one
  is signalled, and another file bumps the shared generation (`PipeSleepers`,
  `BufferLive`; the proofs cover any number of either).
  *FIFO*: a reader and two writers, one of them non-blocking, and three opens
  between them, so that one can come and go while another sleeps; an open during
  which a counterpart came succeeds, signal or not (`OpensMeet`; the proof covers
  any number of opens).
  *Local sockets*: one server and one client over a one-byte buffer with room for
  one control message, with two messages of one byte, so that buffer and control
  queue are full in turn, or with one message of two, which cannot be stored in
  one pass; and two servers that accept from one listener and a client with
  signals. Nobody sleeps beside something to do
  (`SocketSleepers`); every passed file arrives with its byte or is closed, once,
  and channels are freed once (`RightsKept`).
  *ext2*: two files of two blocks on three data blocks, a cache of three, batches
  of two, room for one kept-back inode, one power failure, and three writes, or
  two and a failed request, these also with chmod or with truncate, or over a
  device without a flush operation: each limit is passed. Reads return what was
  written (`ReadsBack`), a successful sync is kept (`SyncedSurvives`), and for
  programs without chmod and truncate inodes do not overtake their data
  (`WritesOrdered`).
  *Terminal*: two readers, a buffer of two characters, line mode and a timed raw
  mode, flushes and mode changes (`SleeperRegistered`).
- **pipe_pair.** One reader and one writer over a ring of two; other files notify.
  In the "bytes" program there are two byte values, so that order and loss are
  visible; in "signals" one value, and both processes get signals. The pipe
  implements `ByteQueue`. Once the other files are quiet, every call returns if
  the partner keeps calling or closes, and a signal ends a blocked call whatever
  the partner does, with one exception for either: a writer that has stored part
  of its data may spin for ever, unseen by signals, and on one CPU it keeps
  everybody else from running (`CallsEnd`).
- **lifecycle.** init, a child and a grandchild, with room for one zombie per
  scan: the batch overflows, a parent dies before its child, and two CPUs scan at
  once. In the "reports" program parents want statuses; in "jobs" children stop
  and continue and waits are interrupted; in "ignoring" they stop and continue
  and parents may set SIGCHLD to `SIG_IGN`.
  In the "cow" program up to three processes share a private page by fork, write
  it and end, on five pages with counts up to three and one failed allocation, so
  that the arena runs out, a count is at its limit and fork fails half-way. In the
  "shm" program two processes open, resize, map, inherit, unmap, unlink and close
  an object of two pages. References equal holders at every step
  (`PagesAccounted`); private memory is private, shared memory is the object's
  (`MemoryIsolated`).
- **blocking.** Four places where the kernel sleeps: the ext2 lock (three tasks,
  nesting of two, one failed allocation), a block request (two callers, ring
  indices that wrap with the first request), terminal input, and waitpid. The
  lock has one owner and no forgotten waiter, the device never gets at freed
  memory and results belong to their request (`RequestsSafe`), and whoever waits
  is served (`WaitersServed`): for waitpid, if init keeps waiting, every process
  that dies is freed.
- **signals.** Two senders, three signals, `pending` updates that overlap with
  each other and with the target's, masks, `pause`, `sigsuspend` inside a handler,
  exec, `longjmp` and frames that cannot be written: still at most one frame.
- **signals_live.** Two senders, and `pending` updates that do not overlap. The
  "masks" program gets SIGINT and SIGKILL, each up to twice, and uses `sigsuspend`;
  the "jobs" program gets SIGINT, SIGKILL and SIGSTOP once each and may leave its
  handlers with `longjmp`. Handlers need not return. The program gets its mask
  back; every unblocked signal is taken and SIGKILL kills, unless a handler stays
  marked active for ever or, for SIGKILL, it came between the choice of a stop
  signal and the stop (`SignalsAct`).
- **pthread_locks.** Three threads on a robust recursive mutex (depth 2, so both
  ends of the recursion count are reached); two consumers and two producers, one
  signalling and one broadcasting, with one wait ended early; three threads and
  three barrier rounds, so that a fast thread is a round ahead of a slow one.
- **pthread_counters.** Two posters and two waiters, one of them cancelled, with
  `SEM_VALUE_MAX` 1, so that the limit is reached; two readers and two writers
  of which some try and some time out; four threads that create, join and detach
  each other, one of them cancelled, in a table for two.

Deadlock checking is off in every run except those of the scheduler. A program
may stop: all processes have closed the pipe, exited or died, or all threads are
done, and that is a state without successors. What must not stop is stated as
liveness or as a "nobody is left asleep" invariant.

## Fairness

| Specification | Fairness | Why the code gives it |
|---|---|---|
| `Scheduler!FairSpec` | weak on `HandoffStep`, `StartSecondary`, `IdleSchedule` of each CPU and on a sleeper between its mark and `schedule()` (`EnterSchedule` or `CancelSleep`) | `schedule()` runs to its end with interrupts off; the idle loop calls it. Nothing is assumed of a task that runs: the return from an interrupt does not preempt kernel code or threads |
| | strong on claiming each task | the pick policy ages waiting tasks, so none is passed over for ever |
| `Pipe!FairSpec` | weak on a process inside the kernel while no other one spins in `pipe_write`, and on a sender about to wake while nobody does | a process in the kernel is not preempted, so with one CPU a spinning writer stops the others; otherwise `ReadyRuns` |
| `Pipe!CallsReturn` | additionally `Busy`: a process in user mode calls again or closes; `Undisturbed`; the exception for a spinning writer only without `CpuForAll` | a premise of the property, not of the specification |
| `MCBlocking!MCSpec` | weak on each task inside the kernel, on wake-ups and deadlines that are due, on the interrupt handler; strong on the release of the ext2 lock | `ReadyRuns`; the tick wakes sleepers whose deadline is over; that an ext2 operation ends is a premise. Nothing is assumed of the device, and the timeout of the ext2 wait only after an allocation failed |
| `Lifecycle!CollectSpec`, in `MCBlocking` | weak on the steps of calls, exits and scans; strong on init's next `waitpid(-1)` and on the exit of the others | every CPU passes through the scheduler again and again; init's main loop waits. That processes end is a premise |
| `Signals!Fairness` | weak on senders, delivery and entry to the kernel | `ReadyRuns`; the timer interrupts user code. Nothing is assumed of handlers |
| pthread | weak on each thread's call, and on giving the mutex back | `ReadyRuns`; a holder that never unlocks is not the library's matter |

Where the table says `ReadyRuns`, that every CPU is not kept for ever by tasks
outside the model is a premise. Two more limits of the liveness results. Under weak
fairness `CallsReturn` holds for one reader and one writer, and like
`CallsKillable` only if notifications of other
files cease (`Undisturbed`): competing writers, or a foreign notification in every
pass, starve a call, and `task_poll_wait` compares generations before it looks for
signals. And the
mutex is free of deadlock, not of starvation: `SomeoneLocks`, a part of
`LocksProgress`, says that someone gets it. `virtio_blk_acquire` has no queue
either; `WaitersServed` bounds the number of requests, so nobody is overtaken there
for ever.

## Proofs

TLAPS checks eight modules: `SchedulerProofs`, `LifecycleProofs`, `WaitpidProofs`,
`SignalsProofs`, `PipeProofs`, `PthreadProofs`, `PthreadCounterProofs` and
`BlockingProofs`. Each theorem holds for every value of the constants that the
module's assumption admits.

**Scheduler.** The assumption is `ConstantsAssumption`: CPUs have distinct idle
tasks, which are not processes, and at most one task calls `kernel_poweroff()`.
The sets may be of any size.

- `TypeCorrect` holds for the whole specification, shutdown and ticks included.
  `TypeOK` is not inductive: which fields hold a task depends on the step the
  CPU is at. `TypeInv` adds that.
- The other theorems assume `Normal`: no forced termination. Ticks come at any time.
- `HandoffInv` is the inductive invariant. `StepInv(c)` says for each step of a
  CPU what it may rely on: whose stack it is on and in which state that task is,
  which task it has reserved, which it is saving. Ownership (`OwnerIsReal`) makes
  the facts about different CPUs independent: a task whose `running_cpu` is `c`
  is on `c`'s stack, being saved by `c` or reserved by `c`, so no step of another
  CPU changes it (`Owned`, `OtherCpu`). `HandoffTask`, `HandoffSections`,
  `HandoffCommit` and `HandoffStart` take the actions case by case.
- `StacksSafe`, `RunsPublishedCorrect` and `NoTaskLost` follow from it.
  `StacksSafe` states `StackOwned`: a CPU whose stack is freed or shared is, or
  shares it with, one that is `Abandoned`, between the commit and the switch of
  `switch_to_idle()` for an exiting task. So the finding `scheduler_tick` names the
  only window.
- `ImplementsKernelStacks`: `Switch` is `Enter`, `TaskCreate` is `Allocate`,
  `Reap` is `Free`, `StartSecondary` enters an idle stack, and the `Commit` of an
  exiting task is `Leave`, since from there on the code treats the stack as given
  back; all else stutters.
- `DeadStaysDead` is the action property `NoResurrection`.

**PthreadMutex.** The assumption is `MutexAssumption`: finitely many threads and
a positive recursion limit. All types, robust or not, are covered.

- `MutexInv` is the inductive invariant. `SleepersCovered` needs to know that
  only a thread that called `FUTEX_WAIT` sleeps and what FUTEX_WAKE does to the
  sleepers (lemma `WakeEffect`); `Exclusion` needs that the owner is in user
  code; `OneHeir` needs that only a robust mutex has a dead owner and that an
  unrecoverable one has no owner.
- `ExclusionCorrect`, `SleepersCoveredCorrect`, `OneHeirCorrect` and
  `NeverRecoveredCorrect` follow.

**PthreadCond.** `NoSleepBesideItemCorrect` is about a monitor with any numbers of
producers and consumers. The invariant `CondInv` counts, where the property only
asks for somebody: a consumer that takes an item is gone, so one bound thread is
needed per item (`OnePerItem`: producers from the item to the end of their
notification, consumers neither asleep nor leaving). A consumer that is about to
sleep and would find its sequence number unchanged saw no item, so all items there
are now came from producers that have not moved the sequence yet
(`NewItemsUnannounced`). That is what re-reading the word in `FUTEX_WAIT` buys, and
exclusion by the mutex is not even needed for it.

**PthreadSemaphore, PthreadBarrier, PthreadRwlock.** These count threads.

- `TokensConservedCorrect`: `SemInv` adds that a thread about to take a token saw
  one, and that `waiters` counts the threads between its two updates.
- `BarrierHoldsCorrect`: `BarrierInv` says in which round each thread is relative
  to the generation, and that the thread that completes a round is alone in that
  and has everyone with it.
- `RwExclusionCorrect`: `RwInv` ties `state` and `waiting_writers` to the program
  counters of the threads inside and waiting.

**PthreadThread.** `JoinsSafeCorrect` is about any number of threads and any size
of the table, and assumes `OnlyJoinable`: no thread is created detached
(`ControlsLive` under *Deviations*). `ControlsLive` and `JoinerWoken` are not
inductive. `ThreadInv` adds:

- at most one thread holds a control block (`OneHolder`): its creator until the id
  is stored, its joiner, or whoever took it out of the table to free it. It is in
  the table while used, and what is about to be freed is in no table and belongs
  to no running thread (`UsedInTable`, `FreeingUnused`, `HoldersKnow`);
- what the words of a block tell of its thread (`AliveWord`, `FinishedWord`,
  `Marks`): `alive` is cleared by the kernel after the thread has left its stack,
  which is why a joiner that saw it cleared may free the stack;
- which word a sleeping joiner sleeps on (`JoinersAsleep`).

**Lifecycle.** Any number of processes and of scanning CPUs.

- `TreeConsistentCorrect`: `TreeInv` adds that process 1 lives, that a process that
  handed its children over gets no more, and that what `waitpid` or the scan is
  about to destroy is dead.
- `ReportsOnceCorrect` assumes that nobody ignores SIGCHLD, and is false otherwise
  (`DestroyedOnce` under *Deviations*). `OnceInv` adds that two callers never hold
  the same zombie and that a held one is not freed.
- `NothingMissedCorrect` has no such assumption: `ZombieNotMissed` and
  `StopNotMissed` hold of every sleeper. `MissInv` adds who can be asleep and that
  a zombie stays marked until a scan has seen it off its stack.
- `SomethingToWaitForCorrect` assumes again that nobody ignores SIGCHLD: the
  finding `lifecycle_echild` needs `SIG_IGN`.

**Signals.** Any number of senders, handlers and masks.

- `OneFrameCorrect` covers overlapping updates of `pending`, `longjmp`, exec and
  frames that cannot be written. `FrameInv` adds that a handler is only started
  from a delivery that saw none active, and that only what was sent is pending.
- `MaskRestoredCorrect` assumes `SuspendEndsInHandler`: `sigsuspend` is not called
  in a handler, and what ends it is fatal or starts a handler that returns. TLC
  refutes `MaskRestored` when any one of its six clauses is dropped. `MaskInv` says
  where the mask to return to is at each step, and that a signal that ended the
  loop of `sigsuspend` is still pending at the delivery.

**Pipe.** The assumption is `PipeAssumption`. `IInv` adds to `PipeSleepers`:

- `SleepInv`: who sleeps is registered on this pipe, and who is about to sleep
  with a fresh generation has seen nothing happen that it waits for. This is what
  makes the generation comparison sufficient;
- `CountsInv`: a call that may sleep has bytes left to move;
- `EndsInv`: the last reference to an end makes its holder the one that closes
  it, and the second end closed frees the buffer. `BufferLive` follows.

`ImplementsByteQueue` shows that every step of the pipe is a step of `ByteQueue` or
leaves the queue alone. The queue is the `count` bytes of the ring from `read_pos`
on. `RingInv` says that `write_pos` is `count` places further, modulo the size; the
lemmas `TakeOldest` and `PutNewest` say what a step of either position, wrapped or
not, does to that sequence.

**FifoOpen.** `FifoOpensMeet` states `OpensMeet` and that the counts are exact, for
any finite number of processes and any number of opens. `FifoInv` adds that the
epoch of the other end has moved for every opener somebody met (`EpochsInv`): the
recheck after the sleep looks at it, so a counterpart that is gone again was still
seen. `OpenersWoken` covers the opener that has read a fresh generation and not
slept yet, as `SleepInv` does for `Pipe`.

**Ext2Lock.** `OpExclusion` needs `ListsInv` (a task that is not waiting is marked
RUNNING, so a stale wake-up finds nothing to change). `SleeperKnown` follows from
`WaitInv`: a task asleep is on the queue or on a list somebody works through, and
if the lock is free somebody is bound to collect the queue.

**Tty.** `SleeperRegistered` is inductive with `MarkedInv` (only a reader on its way
to sleep is marked). The theorem assumes `~LazyModes`, see *Deviations*.

**VirtioBlock.** The argument needs neither the handler nor the sleep: whatever
makes a caller look, only the used index lets it free its buffers. `RingInv` says
that at most one request is with the device, the one in the descriptors, and that
it is the waiting task's unless the driver has failed; `NamesInv` that buffers are
not freed before the call is over. `DmaSafe` and `AnswersTrue` follow, for any size
of the ring indices above 1.

Only model-checked:

- all liveness: fairness and ENABLED are outside the prover's reach;
- memory, sockets and ext2 files, whose invariants are not stated in inductive
  form yet.

## Findings and deviations

Two runs show a property that a comment of the code states and the code does not
keep. `PROJECT.json` quotes the comments.

- `scheduler_tick`: a tick between the release of a dead task's `running_cpu` and
  the switch off its stack lets another CPU free that stack (`task.c:2574`).
- `lifecycle_echild`: the scan discards the last child after the parent found it
  had one and before it blocks; the parent sleeps with nothing to wait for
  (`syscalls.c:1260`).

The following properties are stated in the modules and do **not** hold of the
code. TLC refutes each on the instance given, which differs from a
configuration here in the named constants and the property checked. No passing
run lists them, or it lists them under the condition in the last column.

| Property | Where | What happens | Instance | Checked under the condition |
|---|---|---|---|---|
| `NeverRunsDead` | `power.c:145` | a task that marked itself sleeping and is still executing is TERMINATED and runs on | `MCSchedulerShutdown.cfg` | no shutdown (`RunsPublished`, proved) |
| `WriteKillable` | `process_syscalls.c:676` | a writer that stored part of its data notifies in every pass, so it spins, neither sleeping nor seeing the signal; on one CPU it keeps the reader from running | `MCPipePair.cfg` | no writer spins for ever (`CallsKillable`, a part of `CallsEnd`) |
| `DestroyedOnce` | `syscalls.c:1310` | waitpid found a zombie, the parent ignores SIGCHLD, and the scan destroys the same one | `MCLifecycle.cfg`, `Dispositions = {"dfl", "ign"}`, `Programs = {"reports"}` | SIGCHLD not ignored (`ReportsCollectedOnce`, proved) |
| `ScanTouchesLive` | `task.c:2833` | a zombie the scan noted is freed by its parent before the scan uses it | `MCLifecycle.cfg`, `Programs = {"reports"}` | |
| `KillAlwaysKills` | `signal.c:1039` | a handler that does not return, or was left with `longjmp`, keeps `in_handler` set, and everything is deferred, SIGKILL too, though the comment at `signal.c:488` says that it cannot be blocked | `MCSignalsLive.cfg` | no handler stays active (`KillKills`, a part of `SignalsAct`) |
| `KillAlwaysKills` | `signal.c:491` | SIGKILL arrives between the choice of SIGSTOP and the stop | `MCSignalsLive.cfg`, `Used = {"KILL", "STOP"}` | SIGKILL does not meet a stop halfway (`KillKills`) |
| `KillKills` | `signal.c:490` | two unlocked updates of `pending` overlap, and SIGKILL is lost | `MCSignalsLive.cfg`, `Racing = TRUE` | no overlap |
| `EffectsBounded` | `signal.c:490` | the same, and a signal that was taken comes back | `MCSignals.cfg` | |
| `ContContinues` | `signal.c:500` | SIGCONT overtakes a pending SIGSTOP | `MCSignalsLive.cfg`, `Used = {"STOP", "CONT"}` | |
| `MaskRestored` | `signal.c:972` | a signal without a handler ends `sigsuspend`; the temporary mask stays | `MCSignalsLive.cfg`, `Used = {"INT", "CONT"}` | `SuspendEndsInHandler` (proved) |
| `NeverBlocksKill` | `signal.c:704` | `sa_mask` is not cleared of SIGKILL and SIGSTOP | `MCSignalsLive.cfg`, an action with `mask` `{"KILL"}` | |
| `PauseNotMissed` | `process_syscalls.c:1946` | a signal between the test and the sleep of `pause` | `MCSignalsLive.cfg`, `Includes` with `"pause"` | |
| `SizeAfterData` | `ext2_vfs.c:877` | chmod writes the inode through, new size included, before the data blocks | `MCFiles`, `Ext2!SizeAfterData` | neither chmod nor truncate (`WritesOrdered`) |
| `SleeperRegistered` | `tty.c` | TCSANOW changes the mode without a flush and wakes nobody; a reader sleeps beside input that is now ready | `MCFiles`, `LazyModes <- TRUE` | mode changes that flush (proved) |
| `ControlsLive` | `pthread.c:566` | a thread created detached frees its control block while its creator still stores into it | `MCPthreadCounters`, `Attrs` with `"detached"` | threads created joinable (`JoinsSafe`, proved) |
| `Isolated` | `process_syscalls.c:3824` | `mprotect` makes a page writable that fork has left shared for copy on write | `MCLifecycle`, `Calls` with `"mprotect"` | no `mprotect` (`MemoryIsolated`) |
| `Accounted` | `arch/arm64/mmu/virtual.c:276` | the remapping of a copied page fails after the old page was unmapped; its reference stays | `MCLifecycle`, `Calls` with `"remap_fails"` | remapping finds its tables (`PagesAccounted`) |
| `Accounted` | `arch/arm64/mmu/virtual.c:240` | two threads of a process copy the same page and both give the old one back | `MCLifecycle`, `Threads <- 2` | one thread faults at a time (`PagesAccounted`) |
| `NoSleepBesideToken` | `pthread_sync.c:1244` | the sequence is loaded after the value was seen 0; a post in between is missed | `MCPthreadCounters.cfg` | |
| `CancelReaches` | `pthread.c:180` | a cancellation just before the address is announced, or just after its change mark is cleared | `MCPthreadCounters.cfg` | |
| `SomeoneCares` | `pthread_sync.c:838` | the sequence is loaded after the lock was seen taken; an unlock in between is missed | `MCPthreadCounters.cfg`, `Rwlock!SomeoneCares` | |

Further behaviour met while modelling, which no property above is about:

- a block interrupt between the driver's last look and its sleep is lost, and
  only the deadline of two ticks ends the wait (`virtio_block.c:622`);
- `tty_read_to` does not look for signals between publishing itself and the
  sleep, so a signal in between waits for the next key (`tty.c:1255`);
- a full terminal buffer drops the newline, and a line reader waits on;
- truncate frees blocks in the bitmap before the inode gives them up
  (`ext2_vfs.c:3399`), and two open descriptions of a file have private inodes;
- `pthread_join` or `pthread_detach` before the creator stored the thread's id
  returns ESRCH, and a cancellation in the second loop of `pthread_join` leaves
  `joined` set;
- a socket writer that stored part of its data notifies its own key and spins,
  as `pipe_write` does.

## What is not modelled

`PROJECT.json` gives the reason for every component. In short:

- *Concurrent, and left out*: deadlines of poll and select on a tick counter that
  wraps, alarms and their batch, the limit of the task table, open-file tables
  under fork, ASIDs, TCP. Each is a specification of its own beside the ones here.
- *Data work*: ELF loading, on-disk formats, page-table formats, pixels, escape
  sequences, checksums, string and formatting functions.
- *Behaviour that is not in the source*: USB, SD, Wi-Fi and display controllers.
- *Once, before concurrency*: boot and platform set-up.

Inside the modelled parts: the pick policy, priorities and statistics of the
scheduler; process groups and sessions; the protection of PID 1; blocks of more
than one page, `brk`, stacks and file mappings; cancellation in `pthread_cond_wait`; `socketpair`,
poll on a socket and descriptors shared by fork; directories, unlink, indirect
blocks, read errors and the consistency check of ext2; weak memory orders.

## Next

In this order:

1. `FileTable` (reference counts under fork, dup, close and blocking reads) and
   poll deadlines on the wrapping tick counter.
2. `RunQueue` with the limit of the task table; `Alarm` with its batch.
3. `Asid`; `Tcp` over `PollWait`.
4. The lock word and interrupt flag of `spinlock`, under all of the above.

Proofs: `SocketSleepers` of `LocalSocket`, and `PagesAccounted` of `Memory`. Liveness stays with TLC.
