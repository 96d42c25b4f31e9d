----------------------------- MODULE Scheduler -----------------------------
(***************************************************************************)
(* The SMP scheduler of kernel/task/task.c: the runqueue, the claim, commit *)
(* and context-save handoff of a task between CPUs, sleeping and waking,   *)
(* task exit through switch_to_idle(), reaping, and the forced termination *)
(* of kernel/drivers/power.c.                                              *)
(*                                                                         *)
(* Every access to this state is made under the global task_lock, so one   *)
(* action is one task_lock critical section (or one step that touches only *)
(* the CPU's own registers), and CPUs interleave between critical sections.*)
(* Kernel code is not preempted: a CPU leaves a task only through          *)
(* schedule() or switch_to_idle().                                         *)
(***************************************************************************)
CONSTANTS
    CPUs,           \* the CPUs; ARMOS_MAX_CPUS in the code
    BootCpu,        \* the CPU that boots the kernel
    Procs,          \* slots for ordinary tasks (MAX_TASKS in the code)
    InitProc,       \* the first process, queued before scheduling starts
    idle_tasks,     \* idle_tasks[c] is the idle task of CPU c
    NoCpu,          \* TASK_CPU_NONE
    NoTask,         \* the NULL task pointer
    ShutdownCallers \* the tasks that may call kernel_poweroff(): none or one,
                    \* since shutdown_in_progress stops a second caller

Idles == {idle_tasks[c] : c \in CPUs}
Tasks == Procs \cup Idles

ASSUME ConstantsAssumption ==
    /\ BootCpu \in CPUs
    /\ InitProc \in Procs
    /\ NoCpu \notin CPUs
    /\ NoTask \notin Tasks
    /\ idle_tasks \in [CPUs -> Idles]
    /\ Procs \cap Idles = {}
    /\ \A c, d \in CPUs : idle_tasks[c] = idle_tasks[d] => c = d
    /\ ShutdownCallers \subseteq Procs
    /\ \A t, u \in ShutdownCallers : t = u

\* "BLOCKED" stands for every sleeping state: TASK_BLOCKED, _INTERRUPTIBLE,
\* _UNINTERRUPTIBLE and _STOPPED, which the scheduler treats alike.
\* "FREE" is a task slot with no task_t.
Dead == {"ZOMBIE", "TERMINATED"}
States == {"FREE", "READY", "RUNNING", "BLOCKED"} \cup Dead

\* Where a CPU is: "run" is the task's own code, "asleep" the task has marked
\* itself sleeping but not yet called schedule(), the others are steps of
\* schedule(), switch_to_idle() and shutdown_force_terminate_targets().
Pcs == {"off", "run", "asleep", "sched", "pick", "commit", "switch", "saved",
        "rollback", "restore", "force", "parked"}

VARIABLES
    state,        \* task->state
    running_cpu,  \* task->running_cpu
    runq,         \* the tasks linked in ready_queue
    expired,      \* get_system_ticks() >= task->wakeup_time, for a zombie
    current,      \* current_tasks[cpu]
    stack,        \* the task whose kernel stack the CPU's SP is in
    pc,           \* the step the CPU is at
    next,         \* the local next_task (or the task being terminated)
    old,          \* the task whose context __task_switch() is saving
    path          \* "save", "nosave": schedule() with or without a context
                  \* to save; "exit": switch_to_idle()

vars == <<state, running_cpu, runq, expired, current, stack, pc, next, old, path>>

-----------------------------------------------------------------------------
Init ==
    /\ state = [t \in Tasks |->
                  IF t = idle_tasks[BootCpu] THEN "RUNNING"
                  ELSE IF t = InitProc THEN "READY"
                  ELSE IF t \in Idles THEN "BLOCKED" ELSE "FREE"]
    /\ running_cpu = [t \in Tasks |->
                        IF t = idle_tasks[BootCpu] THEN BootCpu ELSE NoCpu]
    /\ runq = {InitProc}
    /\ expired = [t \in Tasks |-> FALSE]
    /\ current = [c \in CPUs |->
                    IF c = BootCpu THEN idle_tasks[c] ELSE NoTask]
    /\ stack = current
    /\ pc = [c \in CPUs |-> IF c = BootCpu THEN "run" ELSE "off"]
    /\ next = [c \in CPUs |-> NoTask]
    /\ old = [c \in CPUs |-> NoTask]
    /\ path = [c \in CPUs |-> "save"]

-----------------------------------------------------------------------------
\* Mutants of CanMakeReady: each drops one of its refusals.
CanMakeReadyDead(c, t) ==
    /\ state[t] # "FREE"
    /\ ~(state[t] = "READY" /\ running_cpu[t] # NoCpu)
    /\ ~(state[t] = "RUNNING" /\ running_cpu[t] \notin {NoCpu, c})

CanMakeReadyReserved(c, t) ==
    /\ state[t] \notin Dead \cup {"FREE"}
    /\ ~(state[t] = "RUNNING" /\ running_cpu[t] \notin {NoCpu, c})

\* task_make_ready_under_lock(t) on CPU c, when it is not refused.
CanMakeReady(c, t) ==
    /\ state[t] \notin Dead \cup {"FREE"}
    /\ ~(state[t] = "READY" /\ running_cpu[t] # NoCpu)
    /\ ~(state[t] = "RUNNING" /\ running_cpu[t] \notin {NoCpu, c})

\* Mutant of Enqueued: the idle task is queued too.
EnqueuedIdleToo(t) == runq \cup {t}

\* runqueue_enqueue_tail_locked() ignores the idle tasks.
Enqueued(t) == runq \cup ({t} \ Idles)

MakeReady(c, t) ==
    IF CanMakeReady(c, t)
    THEN /\ state' = [state EXCEPT ![t] = "READY"]
         /\ runq' = Enqueued(t)
    ELSE UNCHANGED <<state, runq>>

\* scheduler_mark_running_locked(t) on CPU c does not refuse.
CanMarkRunning(c, t) ==
    \/ state[t] = "RUNNING" /\ running_cpu[t] = c
    \/ /\ state[t] = "READY" \/ (t \in Idles /\ state[t] = "BLOCKED")
       /\ running_cpu[t] \in {NoCpu, c}

\* Mutant of Candidates: a task still in a handoff may be picked.
CandidatesInHandoff == {t \in runq : state[t] = "READY"}

\* The tasks schedule_next_task() may pick: queued, not in a handoff.
Candidates == {t \in runq : state[t] = "READY" /\ running_cpu[t] = NoCpu}

Goto(c, label) == pc' = [pc EXCEPT ![c] = label]

-----------------------------------------------------------------------------
\* task_start_secondary_scheduler(): a secondary CPU adopts its idle task.
StartSecondary(c) ==
    /\ pc[c] = "off"
    /\ CanMarkRunning(c, idle_tasks[c])
    /\ state' = [state EXCEPT ![idle_tasks[c]] = "RUNNING"]
    /\ running_cpu' = [running_cpu EXCEPT ![idle_tasks[c]] = c]
    /\ current' = [current EXCEPT ![c] = idle_tasks[c]]
    /\ stack' = [stack EXCEPT ![c] = idle_tasks[c]]
    /\ Goto(c, "run")
    /\ UNCHANGED <<runq, expired, next, old, path>>

\* add_to_ready_queue() of a new task by the task running on c.
TaskCreate(c, t) ==
    /\ pc[c] = "run"
    /\ stack[c] \notin Idles
    /\ state[t] = "FREE"
    /\ state' = [state EXCEPT ![t] = "READY"]
    /\ running_cpu' = [running_cpu EXCEPT ![t] = NoCpu]
    /\ runq' = Enqueued(t)
    /\ expired' = [expired EXCEPT ![t] = FALSE]
    /\ UNCHANGED <<current, stack, pc, next, old, path>>

\* yield(): the running task becomes READY and enters schedule().
Yield(c) ==
    /\ pc[c] = "run"
    /\ current[c] \notin Idles
    /\ IF state[current[c]] = "RUNNING"
       THEN MakeReady(c, current[c])
       ELSE UNCHANGED <<state, runq>>
    /\ Goto(c, "sched")
    /\ UNCHANGED <<running_cpu, expired, current, stack, next, old, path>>

\* idle_task_func(): the idle task enters schedule() when work is queued.
IdleSchedule(c) ==
    /\ pc[c] = "run"
    /\ current[c] \in Idles
    /\ runq # {}
    /\ Goto(c, "sched")
    /\ UNCHANGED <<state, running_cpu, runq, expired, current, stack, next, old, path>>

\* Mutant of Sleep: running_cpu is cleared before the context is saved.
SleepReleases(c) ==
    /\ pc[c] = "run"
    /\ current[c] \notin Idles
    /\ runq' = runq \ {current[c]}
    /\ state' = [state EXCEPT ![current[c]] = "BLOCKED"]
    /\ running_cpu' = [running_cpu EXCEPT ![current[c]] = NoCpu]
    /\ Goto(c, "asleep")
    /\ UNCHANGED <<expired, current, stack, next, old, path>>

\* task_set_state() and the *_under_lock setters: the running task marks
\* itself asleep; it keeps running_cpu until its context is saved.
Sleep(c) ==
    /\ pc[c] = "run"
    /\ current[c] \notin Idles
    /\ runq' = runq \ {current[c]}
    /\ state' = [state EXCEPT ![current[c]] = "BLOCKED"]
    /\ Goto(c, "asleep")
    /\ UNCHANGED <<running_cpu, expired, current, stack, next, old, path>>

\* task_set_state(task, TASK_RUNNING): the event came before the sleeper
\* called schedule(), so it takes its sleep back.
CancelSleep(c) ==
    /\ pc[c] = "asleep"
    /\ IF state[current[c]] \notin Dead
       THEN /\ runq' = runq \ {current[c]}
            /\ state' = [state EXCEPT ![current[c]] = "RUNNING"]
            /\ running_cpu' = [running_cpu EXCEPT ![current[c]] = c]
       ELSE UNCHANGED <<state, running_cpu, runq>>
    /\ Goto(c, "run")
    /\ UNCHANGED <<expired, current, stack, next, old, path>>

\* The sleeper calls schedule().  scheduler_entry_allowed() does not refuse a
\* task's call: critical_section is set with interrupts off only, and cleared
\* before the CPU leaves schedule().
EnterSchedule(c) ==
    /\ pc[c] = "asleep"
    /\ Goto(c, "sched")
    /\ UNCHANGED <<state, running_cpu, runq, expired, current, stack, next, old, path>>

\* task_wake(), task_set_ready() and the wake-ups of signals, futexes, polls
\* and scheduler_scan_waiters(), made by a task or an interrupt on c.  The
\* waker looked at t before it took task_lock, so t may be in any state by
\* now, but never the task running on c itself.
Wake(c, t) ==
    /\ pc[c] \in {"run", "asleep", "sched"}
    /\ t \in Procs
    /\ state[t] # "FREE"
    /\ t = current[c] => state[t] # "RUNNING"
    /\ MakeReady(c, t)
    /\ UNCHANGED <<running_cpu, expired, current, stack, pc, next, old, path>>

-----------------------------------------------------------------------------
\* schedule() up to scheduler_prepare_current_for_switch(): whether there is
\* a context to save is decided here, from the state read here.
Prepare(c) ==
    /\ pc[c] = "sched"
    /\ path' = [path EXCEPT ![c] =
                  IF state[current[c]] \in Dead THEN "nosave" ELSE "save"]
    /\ IF state[current[c]] = "RUNNING"
       THEN MakeReady(c, current[c])
       ELSE UNCHANGED <<state, runq>>
    /\ Goto(c, "pick")
    /\ UNCHANGED <<running_cpu, expired, current, stack, next, old>>

\* schedule_next_task() reserves t with scheduler_claim_ready_locked(): off
\* the queue, owned by c, still READY.  The choice among the candidates is
\* the policy's and is left open.
ClaimNext(c, t) ==
    /\ pc[c] = "pick"
    /\ t \in Candidates
    /\ runq' = runq \ {t}
    /\ running_cpu' = [running_cpu EXCEPT ![t] = c]
    /\ next' = [next EXCEPT ![c] = t]
    /\ Goto(c, "commit")
    /\ UNCHANGED <<state, expired, current, stack, old, path>>

\* schedule_next_task() with no candidate: the local idle task is marked
\* running at once, and stays on the CPU when it is the current task.
FallBackToIdle(c) ==
    /\ pc[c] = "pick"
    /\ Candidates = {}
    /\ CanMarkRunning(c, idle_tasks[c])
    /\ state' = [state EXCEPT ![idle_tasks[c]] = "RUNNING"]
    /\ running_cpu' = [running_cpu EXCEPT ![idle_tasks[c]] = c]
    /\ IF current[c] = idle_tasks[c]
       THEN /\ Goto(c, "run")
            /\ UNCHANGED next
       ELSE /\ Goto(c, "commit")
            /\ next' = [next EXCEPT ![c] = idle_tasks[c]]
    /\ UNCHANGED <<runq, expired, current, stack, old, path>>

\* A dead current task gives up its CPU before the stack is left.
ReleaseDead(c) ==
    IF /\ state[current[c]] \in Dead
       /\ running_cpu[current[c]] = c
    THEN [running_cpu EXCEPT ![current[c]] = NoCpu]
    ELSE running_cpu

\* scheduler_commit_next_for_switch(), and the same section of
\* switch_to_idle(): the claimed task becomes RUNNING and is published.
Commit(c) ==
    /\ pc[c] = "commit"
    /\ CanMarkRunning(c, next[c])
    /\ runq' = runq \ {next[c]}
    /\ state' = [state EXCEPT ![next[c]] = "RUNNING"]
    /\ running_cpu' = [ReleaseDead(c) EXCEPT ![next[c]] = c]
    /\ current' = [current EXCEPT ![c] = next[c]]
    /\ Goto(c, "switch")
    /\ UNCHANGED <<expired, stack, next, old, path>>

\* The claimed task changed state on another CPU: the commit is refused.
CommitRefused(c) ==
    /\ pc[c] = "commit"
    /\ ~CanMarkRunning(c, next[c])
    /\ running_cpu' = ReleaseDead(c)
    /\ Goto(c, "rollback")
    /\ UNCHANGED <<state, runq, expired, current, stack, next, old, path>>

\* scheduler_rollback_uncommitted_next(): the claim is put back once.
\* switch_to_idle() cannot return and commits the idle task instead.
Rollback(c) ==
    /\ pc[c] = "rollback"
    /\ IF /\ state[next[c]] \in {"READY", "RUNNING"}
          /\ running_cpu[next[c]] = c
          /\ current[c] # next[c]
          /\ next[c] \notin Idles
       THEN /\ running_cpu' = [running_cpu EXCEPT ![next[c]] = NoCpu]
            /\ state' = [state EXCEPT ![next[c]] = "READY"]
            /\ runq' = Enqueued(next[c])
       ELSE UNCHANGED <<state, running_cpu, runq>>
    /\ IF path[c] = "exit"
       THEN /\ next' = [next EXCEPT ![c] = idle_tasks[c]]
            /\ Goto(c, "commit")
       ELSE /\ next' = [next EXCEPT ![c] = NoTask]
            /\ Goto(c, "restore")
    /\ UNCHANGED <<expired, current, stack, old, path>>

\* scheduler_restore_current_if_needed() after a refused switch.
Restore(c) ==
    /\ pc[c] = "restore"
    /\ IF /\ path[c] = "save"
          /\ state[current[c]] = "READY"
          /\ CanMarkRunning(c, current[c])
       THEN /\ runq' = runq \ {current[c]}
            /\ state' = [state EXCEPT ![current[c]] = "RUNNING"]
            /\ running_cpu' = [running_cpu EXCEPT ![current[c]] = c]
       ELSE UNCHANGED <<state, running_cpu, runq>>
    /\ Goto(c, "run")
    /\ UNCHANGED <<expired, current, stack, next, old, path>>

\* __task_switch(): the CPU leaves the old stack.  With a context to save
\* it still has to report to task_context_save_complete().
Switch(c) ==
    /\ pc[c] = "switch"
    /\ stack' = [stack EXCEPT ![c] = next[c]]
    /\ next' = [next EXCEPT ![c] = NoTask]
    /\ IF path[c] = "save"
       THEN /\ old' = [old EXCEPT ![c] = stack[c]]
            /\ Goto(c, "saved")
       ELSE /\ Goto(c, "run")
            /\ UNCHANGED old
    /\ UNCHANGED <<state, running_cpu, runq, expired, current, path>>

\* Mutant of ContextSaveComplete: only a READY task is released.
ContextSaveReadyOnly(c) ==
    /\ pc[c] = "saved"
    /\ running_cpu' = IF state[old[c]] = "READY"
                      THEN [running_cpu EXCEPT ![old[c]] = NoCpu]
                      ELSE running_cpu
    /\ old' = [old EXCEPT ![c] = NoTask]
    /\ Goto(c, "run")
    /\ UNCHANGED <<state, runq, expired, current, stack, next, path>>

\* task_context_save_complete(): from here another CPU may run the old task.
ContextSaveComplete(c) ==
    /\ pc[c] = "saved"
    /\ running_cpu' = IF state[old[c]] # "RUNNING" /\ running_cpu[old[c]] = c
                      THEN [running_cpu EXCEPT ![old[c]] = NoCpu]
                      ELSE running_cpu
    /\ old' = [old EXCEPT ![c] = NoTask]
    /\ Goto(c, "run")
    /\ UNCHANGED <<state, runq, expired, current, stack, next, path>>

-----------------------------------------------------------------------------
\* sys_exit() and task_exit_current_thread(): the running task becomes a
\* zombie, reapable after the next tick, and leaves through switch_to_idle().
Exit(c) ==
    /\ pc[c] = "run"
    /\ current[c] \notin Idles
    /\ runq' = runq \ {current[c]}
    /\ state' = [state EXCEPT ![current[c]] = "ZOMBIE"]
    /\ expired' = [expired EXCEPT ![current[c]] = FALSE]
    /\ path' = [path EXCEPT ![c] = "exit"]
    /\ Goto(c, "pick")
    /\ UNCHANGED <<running_cpu, current, stack, next, old>>

\* timer_irq_handler() on the boot CPU advances system_ticks past the
\* wakeup_time = ticks + 1 of every zombie there is, wherever the other CPUs
\* are in their handoffs.
Tick ==
    /\ expired' = [t \in Tasks |-> expired[t] \/ state[t] = "ZOMBIE"]
    /\ UNCHANGED <<state, running_cpu, runq, current, stack, pc, next, old, path>>

\* Mutant of Reap: only the tick is waited for, not the zombie's CPU.
ReapOnCpu(c, t) ==
    /\ pc[c] \in {"run", "sched"}
    /\ state[t] = "ZOMBIE"
    /\ expired[t]
    /\ state' = [state EXCEPT ![t] = "FREE"]
    /\ runq' = runq \ {t}
    /\ UNCHANGED <<running_cpu, expired, current, stack, pc, next, old, path>>

\* scheduler_scan_waiters() on c finds a zombie off every CPU whose tick has
\* passed; the task, its kernel stack included, is then freed (at the
\* earliest here: a process may first wait for its parent's waitpid()).
Reap(c, t) ==
    /\ pc[c] \in {"run", "sched"}
    /\ state[t] = "ZOMBIE"
    /\ running_cpu[t] = NoCpu
    /\ expired[t]
    /\ state' = [state EXCEPT ![t] = "FREE"]
    /\ runq' = runq \ {t}
    /\ UNCHANGED <<running_cpu, expired, current, stack, pc, next, old, path>>

\* shutdown_force_terminate_targets(): remove_from_ready_queue(t) ...
ForceDequeue(c, t) ==
    /\ pc[c] = "run"
    /\ current[c] \in ShutdownCallers
    /\ t \in Procs \ {current[c]}
    /\ state[t] \notin Dead \cup {"FREE"}
    /\ runq' = runq \ {t}
    /\ state' = IF state[t] = "READY"
                THEN [state EXCEPT ![t] = "BLOCKED"] ELSE state
    /\ next' = [next EXCEPT ![c] = t]
    /\ Goto(c, "force")
    /\ UNCHANGED <<running_cpu, expired, current, stack, old, path>>

\* Mutant of ForceTerminate: a task woken since ForceDequeue stays queued.
ForceTerminateQueued(c) ==
    /\ pc[c] = "force"
    /\ state' = [state EXCEPT ![next[c]] =
                   IF @ \in {"FREE", "RUNNING"} THEN @ ELSE "TERMINATED"]
    /\ next' = [next EXCEPT ![c] = NoTask]
    /\ Goto(c, "run")
    /\ UNCHANGED <<running_cpu, runq, expired, current, stack, old, path>>

\* ... then task_set_terminated(t), refused while t runs on another CPU.
ForceTerminate(c) ==
    /\ pc[c] = "force"
    /\ IF \/ state[next[c]] = "RUNNING" /\ running_cpu[next[c]] \notin {NoCpu, c}
          \/ state[next[c]] = "FREE"
       THEN UNCHANGED <<state, runq>>
       ELSE /\ runq' = runq \ {next[c]}
            /\ state' = [state EXCEPT ![next[c]] = "TERMINATED"]
    /\ next' = [next EXCEPT ![c] = NoTask]
    /\ Goto(c, "run")
    /\ UNCHANGED <<running_cpu, expired, current, stack, old, path>>

\* secondary_idle_park_for_shutdown(): a secondary idle task stops its CPU.
Park(c) ==
    /\ ShutdownCallers # {}
    /\ c # BootCpu
    /\ pc[c] = "run"
    /\ current[c] = idle_tasks[c]
    /\ state' = [state EXCEPT ![current[c]] = "BLOCKED"]
    /\ running_cpu' = [running_cpu EXCEPT ![current[c]] = NoCpu]
    /\ Goto(c, "parked")
    /\ UNCHANGED <<runq, expired, current, stack, next, old, path>>

-----------------------------------------------------------------------------
\* The steps of schedule() and switch_to_idle(), which run with interrupts
\* disabled and do not wait for another task.
HandoffStep(c) ==
    \/ Prepare(c)
    \/ \E t \in Procs : ClaimNext(c, t)
    \/ FallBackToIdle(c)
    \/ Commit(c)
    \/ CommitRefused(c)
    \/ Rollback(c)
    \/ Restore(c)
    \/ Switch(c)
    \/ ContextSaveComplete(c)

\* What the task on CPU c chooses to do.
TaskStep(c) ==
    \/ \E t \in Procs : TaskCreate(c, t)
    \/ Yield(c)
    \/ IdleSchedule(c)
    \/ Sleep(c)
    \/ CancelSleep(c)
    \/ EnterSchedule(c)
    \/ \E t \in Procs : Wake(c, t)
    \/ Exit(c)
    \/ \E t \in Procs : Reap(c, t)

ShutdownStep(c) ==
    \/ \E t \in Procs : ForceDequeue(c, t)
    \/ ForceTerminate(c)
    \/ Park(c)

Next ==
    \/ \E c \in CPUs : StartSecondary(c)
    \/ \E c \in CPUs : HandoffStep(c)
    \/ \E c \in CPUs : TaskStep(c)
    \/ \E c \in CPUs : ShutdownStep(c)
    \/ Tick

Spec == Init /\ [][Next]_vars

\* schedule() and switch_to_idle() run to completion, a sleeper gets from its
\* mark to schedule() or takes the mark back, idle loops look for work, and
\* the pick policy (debt, aging, waiting time) passes over no candidate for
\* ever.  Nothing is assumed of the tasks: the interrupt return preempts only
\* processes in user mode, so a thread or a loop in the kernel may keep a CPU.
Fairness ==
    /\ \A c \in CPUs :
         /\ WF_vars(StartSecondary(c))
         /\ WF_vars(HandoffStep(c))
         /\ WF_vars(IdleSchedule(c))
         /\ WF_vars(EnterSchedule(c) \/ CancelSleep(c))
    /\ \A t \in Procs : SF_vars(\E c \in CPUs : ClaimNext(c, t))

FairSpec == Spec /\ Fairness

-----------------------------------------------------------------------------
TypeOK ==
    /\ state \in [Tasks -> States]
    /\ running_cpu \in [Tasks -> CPUs \cup {NoCpu}]
    /\ runq \subseteq Procs
    /\ expired \in [Tasks -> BOOLEAN]
    /\ current \in [CPUs -> Tasks \cup {NoTask}]
    /\ stack \in [CPUs -> Tasks \cup {NoTask}]
    /\ pc \in [CPUs -> Pcs]
    /\ next \in [CPUs -> Tasks \cup {NoTask}]
    /\ old \in [CPUs -> Tasks \cup {NoTask}]
    /\ path \in [CPUs -> {"save", "nosave", "exit"}]

\* switch_to_idle() has given up the dead task's running_cpu and has not left
\* its kernel stack yet.
Abandoned(c) == pc[c] = "switch" /\ path[c] = "exit"

\* Two CPUs on one kernel stack: one of them is on its way out of an exit.
\* This is the SMP handoff rule of task_make_ready_under_lock() and
\* task_context_save_complete(), with what switch_to_idle() takes from it.
StackExclusive ==
    \A c, d \in CPUs :
        stack[c] = stack[d] /\ stack[c] # NoTask /\ c # d
            => Abandoned(c) \/ Abandoned(d)

\* A CPU never executes on the stack of a task that has been freed: the exit
\* ordering that sys_exit() claims.
\* Does not hold (finding scheduler_tick, README).
StackLive ==
    \A c \in CPUs : stack[c] # NoTask => state[stack[c]] # "FREE"

\* A task that is not free, and that no other CPU is on either, owns the stack
\* a CPU is on, except between the commit and the switch of switch_to_idle():
\* claims, context saves, sleeps, wake-ups and reaping never take a stack from
\* under a CPU, and the exit does for these two instructions only.
StackOwned ==
    /\ StackExclusive
    /\ \A c \in CPUs :
         stack[c] # NoTask /\ state[stack[c]] = "FREE" => Abandoned(c)

\* Task code runs only in the published, RUNNING task owned by this CPU; a
\* dead or sleeping task never runs.
RunsPublished ==
    \A c \in CPUs : pc[c] = "run" =>
        /\ current[c] = stack[c]
        /\ state[stack[c]] = "RUNNING"
        /\ running_cpu[stack[c]] = c

\* A runnable task cannot be forgotten: it is linked in the runqueue or
\* reserved by the one CPU that is about to commit it.
NoLostTask ==
    \A t \in Procs : state[t] = "READY" =>
        \/ t \in runq
        \/ \E c \in CPUs : next[c] = t /\ pc[c] = "commit"

\* The runqueue holds READY tasks only, so schedule_next_task() never meets
\* the stale entries it is written to drop.
QueuedIsReady == \A t \in runq : state[t] = "READY"

\* Both: outside the window between a claim and its commit the runqueue is
\* exactly the set of runnable tasks, whatever remove_from_ready_queue() and
\* the refusals and rollbacks of schedule() do to it.
QueueExact == NoLostTask /\ QueuedIsReady

\* running_cpu names a CPU only while that CPU executes on the task's stack,
\* is saving its context, or has reserved it: no claim leaks.
OwnerIsReal ==
    \A t \in Tasks, c \in CPUs : running_cpu[t] = c =>
        t \in {stack[c], old[c], next[c]}

\* What each step of schedule() and switch_to_idle() may rely on about the
\* task the CPU is on, the task it has reserved and the task it is saving.
OnStack(c, S) ==
    /\ stack[c] \in Tasks
    /\ state[stack[c]] \in S
    /\ running_cpu[stack[c]] = c

Leaving(c) ==
    \/ path[c] = "save" /\ OnStack(c, {"READY", "BLOCKED"})
    \/ path[c] = "exit" /\ OnStack(c, {"ZOMBIE"}) /\ stack[c] \in Procs

Reserved(c) ==
    /\ next[c] \in Tasks \ {stack[c]}
    /\ running_cpu[next[c]] = c
    /\ \/ next[c] \in Procs /\ state[next[c]] = "READY" /\ next[c] \notin runq
       \/ next[c] \in Idles /\ state[next[c]] = "RUNNING"

StepInv(c) ==
    /\ pc[c] \in {"off", "run", "asleep", "sched", "pick", "commit", "switch", "saved"}
    /\ pc[c] \notin {"commit", "switch"} => next[c] = NoTask
    /\ pc[c] # "saved" => old[c] = NoTask
    /\ pc[c] # "switch" => current[c] = stack[c]
    /\ pc[c] = "off" => stack[c] = NoTask
    /\ pc[c] \in {"run", "saved"} => OnStack(c, {"RUNNING"})
    /\ pc[c] = "asleep" => OnStack(c, {"READY", "BLOCKED"}) /\ stack[c] \in Procs
    /\ pc[c] = "sched" => \/ OnStack(c, {"READY", "BLOCKED"}) /\ stack[c] \in Procs
                          \/ OnStack(c, {"RUNNING"}) /\ stack[c] \in Idles
    /\ pc[c] \in {"pick", "commit"} => Leaving(c)
    /\ pc[c] = "commit" => Reserved(c)
    /\ pc[c] = "switch" =>
         /\ current[c] = next[c]
         /\ next[c] \in Tasks \ {stack[c]}
         /\ state[next[c]] = "RUNNING"
         /\ running_cpu[next[c]] = c
         /\ \/ path[c] = "save" /\ OnStack(c, {"READY", "BLOCKED"})
            \/ path[c] = "exit" /\ stack[c] \in Procs /\ running_cpu[stack[c]] # c
    /\ pc[c] = "saved" =>
         /\ old[c] \in Tasks \ {stack[c]}
         /\ state[old[c]] \in {"READY", "BLOCKED"}
         /\ running_cpu[old[c]] = c

\* The inductive invariant of the handoff in normal operation: every CPU is
\* at a step whose assumptions hold, running_cpu is owned, nothing runnable
\* is lost and no stack is shared but by an exit.  It holds between any two task_lock
\* critical sections of schedule(), switch_to_idle() and the wake-up paths.
HandoffInv ==
    /\ \A c \in CPUs : StepInv(c)
    /\ StackExclusive
    /\ NoLostTask
    /\ QueuedIsReady
    /\ OwnerIsReal
    /\ \A t \in Tasks :
         /\ state[t] \in {"FREE", "TERMINATED"} => running_cpu[t] = NoCpu
         /\ state[t] = "RUNNING" => running_cpu[t] # NoCpu
         /\ t \in Idles => state[t] \in {"READY", "RUNNING", "BLOCKED"}

\* No step revives a dead task: from ZOMBIE or TERMINATED the only way is to
\* be freed.
NoResurrection ==
    [][\A t \in Tasks : state[t] \in Dead => state'[t] \in Dead \cup {"FREE"}]_vars

\* The scheduler never executes task code of a dead task.
\* Does not hold during a shutdown (README, Deviations).
NeverRunsDead ==
    \A c \in CPUs : pc[c] = "run" => state[stack[c]] \notin Dead

\* What the handoff is for: kernel stacks are entered by one CPU at a time and
\* freed only when no CPU uses them.  A CPU hands the stack of an exiting task
\* back at the commit of switch_to_idle(), where the code stops protecting it.
Stacks == INSTANCE KernelStacks
            WITH on <- [c \in CPUs |-> IF Abandoned(c) THEN NoTask ELSE stack[c]],
                 live <- {t \in Tasks : state[t] # "FREE"}
StacksSpec == Stacks!Spec

\* Every runnable task is eventually given a CPU, or from some time on every
\* CPU is kept by one task that does not come back to schedule(): no wake-up,
\* yield, handoff or exit strands a READY task.
ReadyRuns ==
    \/ \A t \in Procs :
         state[t] = "READY" ~> \E c \in CPUs : stack[c] = t /\ pc[c] = "run"
    \/ \A c \in CPUs : \E t \in Procs :
         <>[](stack[c] = t /\ pc[c] \in {"run", "asleep"})
=============================================================================
