-------------------------- MODULE SchedulerProofs --------------------------
(***************************************************************************)
(* Scheduler in normal operation, for any number of CPUs and tasks: its    *)
(* types, the handoff invariant and what follows from it, and the step     *)
(* properties: it implements KernelStacks, and the dead stay dead.         *)
(***************************************************************************)
EXTENDS Scheduler, TLAPS

\* The locals of schedule() point to tasks wherever the code uses them.
TypeInv ==
    /\ TypeOK
    /\ \A c \in CPUs :
         /\ pc[c] # "off" => current[c] \in Tasks
         /\ pc[c] \in {"commit", "switch", "rollback", "force"} => next[c] \in Tasks
         /\ pc[c] = "saved" => old[c] \in Tasks
         /\ pc[c] # "off" => stack[c] \in Tasks

\* Every CPU has an idle task, tasks are idle tasks or processes, never both,
\* and NoTask and NoCpu are neither task nor CPU.
LEMMA IdleFacts ==
    /\ \A c \in CPUs : idle_tasks[c] \in Idles
    /\ Idles \subseteq Tasks
    /\ Procs \subseteq Tasks
    /\ Tasks \ Idles \subseteq Procs
    /\ Procs \cap Idles = {}
    /\ NoTask \notin Tasks
    /\ NoCpu \notin CPUs
BY ConstantsAssumption DEF Idles, Tasks

\* Normal operation: no forced termination.
Normal == ShutdownCallers = {}

Inv == TypeInv /\ HandoffInv

\* The critical sections of schedule(), of the switch and of the context save
\* preserve the handoff invariant (the commit has a lemma of its own).
LEMMA HandoffSections ==
    ASSUME Inv, NEW c \in CPUs,
           \/ Prepare(c) \/ (\E t \in Procs : ClaimNext(c, t)) \/ FallBackToIdle(c)
           \/ Switch(c) \/ ContextSaveComplete(c)
    PROVE  HandoffInv'
<1> USE IdleFacts DEF Inv, TypeInv, TypeOK, Goto, HandoffInv, StepInv, OnStack, Leaving,
      Reserved, Abandoned, StackExclusive, NoLostTask, QueuedIsReady, OwnerIsReal
<1>1. CASE Prepare(c)
  BY <1>1, SMTT(30) DEF Prepare, MakeReady, Enqueued, CanMakeReady, Dead
<1>2. ASSUME NEW t \in Procs, ClaimNext(c, t) PROVE HandoffInv'
  BY <1>2, SMTT(30) DEF ClaimNext, Candidates
<1>3. CASE FallBackToIdle(c)
  BY <1>3, SMTT(30) DEF FallBackToIdle, CanMarkRunning
<1>4. CASE Switch(c)
  BY <1>4, SMTT(30) DEF Switch
<1>5. CASE ContextSaveComplete(c)
  BY <1>5, SMTT(30) DEF ContextSaveComplete
<1> HIDE DEF Inv, HandoffInv
<1> QED BY <1>1, <1>2, <1>3, <1>4, <1>5, Zenon

\* What tasks do to themselves and each other under task_lock (sleep, wake,
\* yield, create, exit, reap) preserves the handoff invariant.
LEMMA HandoffTask ==
    ASSUME Inv, NEW c \in CPUs, TaskStep(c)
    PROVE  HandoffInv'
<1> USE IdleFacts DEF Inv, TypeInv, TypeOK, Goto, HandoffInv, StepInv, OnStack, Leaving,
      Reserved, Abandoned, StackExclusive, NoLostTask, QueuedIsReady, OwnerIsReal
<1>1. ASSUME NEW t \in Procs, TaskCreate(c, t) PROVE HandoffInv'
  BY <1>1, SMTT(30) DEF TaskCreate, Enqueued
<1>2. CASE Yield(c)
  BY <1>2, SMTT(30) DEF Yield, MakeReady, Enqueued, CanMakeReady, Dead
<1>3. CASE IdleSchedule(c)
  BY <1>3 DEF IdleSchedule
<1>4. CASE Sleep(c)
  BY <1>4 DEF Sleep
<1>5. CASE CancelSleep(c)
  BY <1>5, SMTT(30) DEF CancelSleep, Dead
<1>6. CASE EnterSchedule(c)
  BY <1>6, SMTT(30) DEF EnterSchedule
<1>7. ASSUME NEW t \in Procs, Wake(c, t) PROVE HandoffInv'
  BY <1>7, SMTT(30) DEF Wake, MakeReady, Enqueued, CanMakeReady, Dead
<1>8. CASE Exit(c)
  BY <1>8, SMTT(30) DEF Exit
<1>9. ASSUME NEW t \in Procs, Reap(c, t) PROVE HandoffInv'
  BY <1>9 DEF Reap
<1> HIDE DEF Inv, HandoffInv
<1> QED
  BY <1>1, <1>2, <1>3, <1>4, <1>5, <1>6, <1>7, <1>8, <1>9, Zenon DEF TaskStep

\* So do a tick, wherever the CPUs are, and a step that changes nothing.
LEMMA HandoffQuiet ==
    ASSUME Inv, Tick \/ UNCHANGED vars
    PROVE  HandoffInv'
<1> USE IdleFacts DEF Inv, TypeInv, TypeOK, Goto, HandoffInv, StepInv, OnStack, Leaving,
      Reserved, Abandoned, StackExclusive, NoLostTask, QueuedIsReady, OwnerIsReal
<1>1. CASE Tick
  BY <1>1, SMTT(30) DEF Tick
<1>2. CASE UNCHANGED vars
  BY <1>2, SMTT(30) DEF vars
<1> HIDE DEF Inv, HandoffInv
<1> QED BY <1>1, <1>2, Zenon

\* What a CPU may rely on at each step, as the later proofs use it.  A claimed
\* task stays READY and owned until its commit, so in normal operation the
\* commit is never refused and nothing is rolled back.
LEMMA StepFacts ==
    ASSUME NEW c \in CPUs, StepInv(c)
    PROVE  /\ pc[c] # "force" /\ pc[c] # "rollback" /\ pc[c] # "restore"
           /\ stack[c] # NoTask /\ ~Abandoned(c) => state[stack[c]] # "FREE"
           /\ pc[c] = "off" => stack[c] = NoTask /\ next[c] = NoTask /\ old[c] = NoTask
           /\ pc[c] = "run" => /\ current[c] = stack[c] /\ stack[c] \in Tasks
                               /\ state[stack[c]] = "RUNNING" /\ running_cpu[stack[c]] = c
           /\ pc[c] \in {"asleep", "sched"} =>
                current[c] \in Tasks /\ state[current[c]] \in {"READY", "BLOCKED", "RUNNING"}
           /\ pc[c] = "commit" =>
                next[c] \in Tasks /\ CanMarkRunning(c, next[c])
           /\ pc[c] = "switch" => /\ next[c] \in Tasks /\ next[c] # stack[c]
                                  /\ state[next[c]] = "RUNNING" /\ running_cpu[next[c]] = c
<1> USE IdleFacts DEF StepInv, OnStack
<1>1. /\ pc[c] # "force" /\ pc[c] # "rollback" /\ pc[c] # "restore"
      /\ stack[c] # NoTask /\ ~Abandoned(c) => state[stack[c]] # "FREE"
  BY DEF Leaving, Abandoned
<1>2. /\ pc[c] = "off" => stack[c] = NoTask /\ next[c] = NoTask /\ old[c] = NoTask
      /\ pc[c] = "run" => /\ current[c] = stack[c] /\ stack[c] \in Tasks
                          /\ state[stack[c]] = "RUNNING" /\ running_cpu[stack[c]] = c
      /\ pc[c] \in {"asleep", "sched"} =>
           current[c] \in Tasks /\ state[current[c]] \in {"READY", "BLOCKED", "RUNNING"}
  OBVIOUS
<1>3. /\ pc[c] = "commit" => next[c] \in Tasks /\ CanMarkRunning(c, next[c])
      /\ pc[c] = "switch" => /\ next[c] \in Tasks /\ next[c] # stack[c]
                             /\ state[next[c]] = "RUNNING" /\ running_cpu[next[c]] = c
  BY DEF Reserved, CanMarkRunning
<1> HIDE DEF StepInv
<1> QED BY <1>1, <1>2, <1>3, Zenon

\* What a step of another CPU may do to a task: leave it alone or wake it.
Kept(u) ==
    /\ running_cpu'[u] = running_cpu[u]
    /\ \/ state'[u] = state[u]
       \/ state[u] \in {"READY", "BLOCKED"} /\ state'[u] = "READY"

\* The CPU d itself takes no step.
LocalsKept(d) ==
    /\ pc'[d] = pc[d] /\ current'[d] = current[d] /\ stack'[d] = stack[d]
    /\ next'[d] = next[d] /\ old'[d] = old[d] /\ path'[d] = path[d]

\* The task a CPU is on, has reserved or is saving names that CPU in
\* running_cpu, except the dead task whose stack switch_to_idle() gave up.
LEMMA Owned ==
    ASSUME NEW d \in CPUs, StepInv(d), NEW u \in Tasks, u \in {stack[d], next[d], old[d]}
    PROVE  \/ running_cpu[u] = d
           \/ Abandoned(d) /\ u = stack[d] /\ u # next[d] /\ u # old[d] /\ running_cpu[u] # d
BY IdleFacts DEF StepInv, OnStack, Leaving, Reserved, Abandoned

\* What a CPU relies on survives the steps of the others when they keep its
\* tasks, do not queue the one it has reserved and do not make it the owner of
\* a stack it gave up.
LEMMA OtherCpu ==
    ASSUME NEW d \in CPUs, StepInv(d), LocalsKept(d),
           \A u \in Tasks :
             u \in {stack[d], next[d], old[d]} /\ running_cpu[u] = d => Kept(u),
           Abandoned(d) => running_cpu'[stack[d]] # d,
           next[d] \in runq' => next[d] \in runq
    PROVE  StepInv(d)'
BY IdleFacts DEF StepInv, OnStack, Leaving, Reserved, Abandoned, LocalsKept, Kept

\* The state after init_process_system() satisfies the handoff invariant.
LEMMA HandoffInit == Init => HandoffInv
<1> SUFFICES ASSUME Init PROVE HandoffInv
  OBVIOUS
<1> QED
  BY IdleFacts, ConstantsAssumption
  DEF Init, HandoffInv, StepInv, OnStack, Leaving, Reserved, StackExclusive,
      NoLostTask, QueuedIsReady, OwnerIsReal

\* The commit of the claimed task: the task left behind keeps its CPU until
\* its context is saved, or gives it up at once when it is dead.
LEMMA HandoffCommit ==
    ASSUME Inv, NEW c \in CPUs, Commit(c)
    PROVE  HandoffInv'
<1> DEFINE o == stack[c]
           n == next[c]
<1>t. /\ state \in [Tasks -> States] /\ running_cpu \in [Tasks -> CPUs \cup {NoCpu}]
      /\ runq \subseteq Procs
      /\ current \in [CPUs -> Tasks \cup {NoTask}] /\ pc \in [CPUs -> Pcs]
  BY Zenon DEF Inv, TypeInv, TypeOK
<1>s. \A d \in CPUs : StepInv(d)
  BY Zenon DEF Inv, HandoffInv
<1>g. /\ StackExclusive /\ QueuedIsReady /\ NoLostTask /\ OwnerIsReal
      /\ \A t \in Tasks :
           /\ state[t] \in {"FREE", "TERMINATED"} => running_cpu[t] = NoCpu
           /\ state[t] = "RUNNING" => running_cpu[t] # NoCpu
           /\ t \in Idles => state[t] \in {"READY", "RUNNING", "BLOCKED"}
  BY Zenon DEF Inv, HandoffInv
<1>p. pc[c] = "commit"
  BY Zenon DEF Commit
<1>1. /\ current[c] = o /\ o \in Tasks /\ n \in Tasks /\ n # o
      /\ running_cpu[o] = c /\ running_cpu[n] = c /\ old[c] = NoTask
      /\ \/ path[c] = "save" /\ state[o] \in {"READY", "BLOCKED"}
         \/ path[c] = "exit" /\ state[o] = "ZOMBIE" /\ o \in Procs
  <2>1. StepInv(c)
    BY <1>s, Zenon
  <2> QED BY <2>1, <1>p, IdleFacts DEF StepInv, Leaving, OnStack, Reserved
<1>2. /\ current' = [current EXCEPT ![c] = n]
      /\ pc' = [pc EXCEPT ![c] = "switch"]
      /\ runq' = runq \ {n}
      /\ state' = [state EXCEPT ![n] = "RUNNING"]
      /\ running_cpu' = [ReleaseDead(c) EXCEPT ![n] = c]
      /\ UNCHANGED <<expired, stack, next, old, path>>
  BY Zenon DEF Commit, Goto
<1>3. \A t \in Tasks : state'[t] = IF t = n THEN "RUNNING" ELSE state[t]
  BY <1>t, <1>2
<1>4. /\ \A t \in Tasks \ {o} : running_cpu'[t] = running_cpu[t]
      /\ running_cpu'[o] = IF path[c] = "exit" THEN NoCpu ELSE c
  <2>1. CASE path[c] = "exit"
    <3>1. ReleaseDead(c) = [running_cpu EXCEPT ![o] = NoCpu]
      BY <1>1, <2>1 DEF ReleaseDead, Dead
    <3> QED BY <1>t, <1>1, <1>2, <2>1, <3>1
  <2>2. CASE path[c] = "save"
    <3>1. ReleaseDead(c) = running_cpu
      BY <1>1, <2>2 DEF ReleaseDead, Dead
    <3> QED BY <1>t, <1>1, <1>2, <2>2, <3>1
  <2> QED BY <1>1, <2>1, <2>2
<1>5. StepInv(c)'
  <2>1. pc'[c] = "switch" /\ current'[c] = n
    BY <1>t, <1>2
  <2> QED BY <1>1, <1>2, <1>3, <1>4, <2>1, IdleFacts DEF StepInv, OnStack
<1>6. ASSUME NEW d \in CPUs, d # c PROVE StepInv(d)'
  <2>1. LocalsKept(d)
    BY <1>t, <1>2, <1>6 DEF LocalsKept
  <2>2. ASSUME NEW u \in Tasks, running_cpu[u] = d PROVE Kept(u)
    BY <1>1, <1>3, <1>4, <1>6, <2>2 DEF Kept
  <2>4. Abandoned(d) => running_cpu'[stack[d]] # d
    <3>1. Abandoned(d) => stack[d] \in Tasks /\ running_cpu[stack[d]] # d
      BY <1>s, IdleFacts DEF StepInv, OnStack, Abandoned
    <3> QED BY <1>1, <1>4, <1>6, <3>1, IdleFacts
  <2>3. next[d] \in runq' => next[d] \in runq
    BY <1>2
  <2> QED BY <1>s, <2>1, <2>2, <2>3, <2>4, OtherCpu
<1>7. (StackExclusive /\ QueuedIsReady)'
  <2>1. \A d \in CPUs : Abandoned(d) => Abandoned(d)'
    BY <1>t, <1>p, <1>2 DEF Abandoned
  <2> QED BY <1>g, <1>2, <1>3, <1>t, <2>1, IdleFacts DEF StackExclusive, QueuedIsReady
<1>8. NoLostTask'
  <2> SUFFICES ASSUME NEW t \in Procs, state'[t] = "READY"
               PROVE  t \in runq' \/ \E d \in CPUs : next'[d] = t /\ pc'[d] = "commit"
    BY Zenon DEF NoLostTask
  <2>1. t \in Tasks /\ t # n /\ state[t] = "READY"
    BY <1>3, IdleFacts
  <2>2. CASE t \in runq
    BY <1>2, <2>1, <2>2
  <2>3. ASSUME NEW d \in CPUs, next[d] = t, pc[d] = "commit"
        PROVE  \E e \in CPUs : next'[e] = t /\ pc'[e] = "commit"
    BY <1>t, <1>2, <2>1, <2>3
  <2> QED BY <1>g, <2>1, <2>2, <2>3 DEF NoLostTask
<1>9. OwnerIsReal'
  BY <1>g, <1>1, <1>2, <1>4, IdleFacts DEF OwnerIsReal
<1>10. \A t \in Tasks :
         /\ state'[t] \in {"FREE", "TERMINATED"} => running_cpu'[t] = NoCpu
         /\ state'[t] = "RUNNING" => running_cpu'[t] # NoCpu
         /\ t \in Idles => state'[t] \in {"READY", "RUNNING", "BLOCKED"}
  BY <1>g, <1>1, <1>3, <1>4, IdleFacts
<1> HIDE DEF o, n
<1> QED BY <1>5, <1>6, <1>7, <1>8, <1>9, <1>10, Zenon DEF HandoffInv

\* task_start_secondary_scheduler() preserves the handoff invariant: the idle
\* task of a CPU that is off is owned by nobody.
LEMMA HandoffStart ==
    ASSUME Inv, NEW c \in CPUs, StartSecondary(c)
    PROVE  HandoffInv'
<1> DEFINE t == idle_tasks[c]
<1>t. /\ state \in [Tasks -> States] /\ running_cpu \in [Tasks -> CPUs \cup {NoCpu}]
      /\ runq \subseteq Procs /\ current \in [CPUs -> Tasks \cup {NoTask}]
      /\ stack \in [CPUs -> Tasks \cup {NoTask}] /\ pc \in [CPUs -> Pcs]
  BY Zenon DEF Inv, TypeInv, TypeOK
<1>s. \A d \in CPUs : StepInv(d)
  BY Zenon DEF Inv, HandoffInv
<1>g. /\ StackExclusive /\ QueuedIsReady /\ NoLostTask /\ OwnerIsReal
      /\ \A u \in Tasks :
           /\ state[u] \in {"FREE", "TERMINATED"} => running_cpu[u] = NoCpu
           /\ state[u] = "RUNNING" => running_cpu[u] # NoCpu
           /\ u \in Idles => state[u] \in {"READY", "RUNNING", "BLOCKED"}
  BY Zenon DEF Inv, HandoffInv
<1>1. /\ pc[c] = "off" /\ CanMarkRunning(c, t)
      /\ state' = [state EXCEPT ![t] = "RUNNING"]
      /\ running_cpu' = [running_cpu EXCEPT ![t] = c]
      /\ current' = [current EXCEPT ![c] = t]
      /\ stack' = [stack EXCEPT ![c] = t]
      /\ pc' = [pc EXCEPT ![c] = "run"]
      /\ UNCHANGED <<runq, expired, next, old, path>>
  BY Zenon DEF StartSecondary, Goto
<1>2. stack[c] = NoTask /\ next[c] = NoTask /\ old[c] = NoTask
  BY <1>s, <1>1, StepFacts, Zenon
<1>3. /\ t \in Tasks /\ t \in Idles /\ t \notin runq
      /\ running_cpu[t] = NoCpu /\ state[t] # "ZOMBIE"
  BY <1>t, <1>g, <1>1, <1>2, IdleFacts DEF CanMarkRunning, OwnerIsReal
<1> HIDE DEF t
<1>4. /\ \A u \in Tasks : state'[u] = IF u = t THEN "RUNNING" ELSE state[u]
      /\ \A u \in Tasks : running_cpu'[u] = IF u = t THEN c ELSE running_cpu[u]
      /\ \A d \in CPUs : stack'[d] = IF d = c THEN t ELSE stack[d]
      /\ \A d \in CPUs : current'[d] = IF d = c THEN t ELSE current[d]
      /\ \A d \in CPUs : pc'[d] = IF d = c THEN "run" ELSE pc[d]
  BY <1>t, <1>1
<1>5. StepInv(c)'
  BY <1>1, <1>2, <1>3, <1>4 DEF StepInv, OnStack
<1>6. ASSUME NEW d \in CPUs, d # c PROVE StepInv(d)' /\ stack[d] # t
  <2>1. LocalsKept(d)
    BY <1>1, <1>4, <1>6 DEF LocalsKept
  <2>2. ASSUME NEW u \in Tasks, running_cpu[u] = d PROVE u # t /\ Kept(u)
    BY <1>1, <1>3, <1>4, <2>2, IdleFacts DEF Kept
  <2>3. Abandoned(d) => stack[d] \in Procs /\ running_cpu[stack[d]] # d
    BY <1>s, IdleFacts DEF StepInv, OnStack, Abandoned
  <2>4. Abandoned(d) => running_cpu'[stack[d]] # d
    BY <1>4, <1>6, <2>3, IdleFacts
  <2>5. stack[d] # t
    BY <1>s, <1>3, <2>2, <2>3, Owned, IdleFacts
  <2> QED BY <1>s, <1>1, <2>1, <2>2, <2>4, <2>5, OtherCpu
<1>7. StackExclusive'
  BY <1>g, <1>1, <1>4, <1>6 DEF StackExclusive, Abandoned
<1>8. (QueuedIsReady /\ NoLostTask)'
  BY <1>t, <1>g, <1>1, <1>3, <1>4, IdleFacts DEF QueuedIsReady, NoLostTask
<1>9. OwnerIsReal'
  BY <1>g, <1>1, <1>2, <1>4, IdleFacts DEF OwnerIsReal
<1>10. \A u \in Tasks :
         /\ state'[u] \in {"FREE", "TERMINATED"} => running_cpu'[u] = NoCpu
         /\ state'[u] = "RUNNING" => running_cpu'[u] # NoCpu
         /\ u \in Idles => state'[u] \in {"READY", "RUNNING", "BLOCKED"}
  BY <1>g, <1>4, IdleFacts
<1> QED BY <1>5, <1>6, <1>7, <1>8, <1>9, <1>10, Zenon DEF HandoffInv

\* So does each critical section of schedule() and switch_to_idle().
LEMMA HandoffHandoff ==
    ASSUME Inv, NEW c \in CPUs, HandoffStep(c)
    PROVE  HandoffInv'
<1>1. ~CommitRefused(c) /\ ~Rollback(c) /\ ~Restore(c)
  <2>1. StepInv(c)
    BY Zenon DEF Inv, HandoffInv
  <2> QED BY <2>1, StepFacts, Zenon DEF CommitRefused, Rollback, Restore
<1> QED BY <1>1, HandoffSections, HandoffCommit, Zenon DEF HandoffStep

\* In normal operation nobody is between the two halves of a forced
\* termination, and so nobody takes a step of the shutdown.
LEMMA NoShutdownStep ==
    ASSUME Normal, HandoffInv, NEW c \in CPUs
    PROVE  ~ShutdownStep(c)
<1>0. StepInv(c)
  BY Zenon DEF HandoffInv
<1>1. pc[c] # "force"
  BY <1>0, StepFacts, Zenon
<1>2. ~ForceTerminate(c) /\ \A t \in Procs : ~ForceDequeue(c, t)
  BY <1>1, Zenon DEF ForceTerminate, ForceDequeue, Normal
<1>3. ~Park(c)
  BY Zenon DEF Park, Normal
<1> QED BY <1>2, <1>3, Zenon DEF ShutdownStep

\* The inductive step of the handoff invariant in normal operation.
LEMMA HandoffNext ==
    ASSUME Normal, Inv, [Next]_vars
    PROVE  HandoffInv'
<1>1. \A c \in CPUs : ~ShutdownStep(c)
  BY NoShutdownStep, Zenon DEF Inv
<1> QED BY <1>1, HandoffStart, HandoffQuiet, HandoffHandoff, HandoffTask, Zenon DEF Next

-----------------------------------------------------------------------------
\* The state after init_process_system() has its types.
LEMMA TypeInit == Init => TypeInv
BY IdleFacts, ConstantsAssumption DEF Init, TypeInv, TypeOK, States, Dead, Pcs

\* No step of schedule(), switch_to_idle() or the context save leaves the
\* types: the task a CPU reserves, saves or stands on is always a task.
LEMMA TypeHandoff ==
    ASSUME TypeInv, NEW c \in CPUs, HandoffStep(c)
    PROVE  TypeInv'
<1> USE IdleFacts DEF TypeInv, TypeOK, States, Dead, Pcs, Goto
<1>1. CASE Prepare(c)
  BY <1>1 DEF Prepare, MakeReady, Enqueued
<1>2. ASSUME NEW t \in Procs, ClaimNext(c, t) PROVE TypeInv'
  BY <1>2 DEF ClaimNext, Candidates
<1>3. CASE FallBackToIdle(c)
  BY <1>3 DEF FallBackToIdle
<1>4. CASE Commit(c)
  BY <1>4 DEF Commit, ReleaseDead
<1>5. CASE CommitRefused(c)
  BY <1>5 DEF CommitRefused, ReleaseDead
<1>6. CASE Rollback(c)
  BY <1>6 DEF Rollback, Enqueued
<1>7. CASE Restore(c)
  BY <1>7 DEF Restore
<1>8. CASE Switch(c)
  BY <1>8 DEF Switch
<1>9. CASE ContextSaveComplete(c)
  BY <1>9 DEF ContextSaveComplete
<1> HIDE DEF TypeInv
<1> QED BY <1>1, <1>2, <1>3, <1>4, <1>5, <1>6, <1>7, <1>8, <1>9 DEF HandoffStep

\* Nor does what a task does between two calls of schedule(), or a tick, a
\* reap or a shutdown step.
LEMMA TypeTask ==
    ASSUME TypeInv, NEW c \in CPUs, TaskStep(c) \/ ShutdownStep(c)
    PROVE  TypeInv'
<1> USE IdleFacts DEF TypeInv, TypeOK, States, Dead, Pcs, Goto
<1>1. ASSUME NEW t \in Procs, TaskCreate(c, t) PROVE TypeInv'
  BY <1>1 DEF TaskCreate, Enqueued
<1>2. CASE Yield(c)
  BY <1>2 DEF Yield, MakeReady, Enqueued
<1>3. CASE IdleSchedule(c)
  BY <1>3 DEF IdleSchedule
<1>4. CASE Sleep(c)
  BY <1>4 DEF Sleep
<1>5. CASE CancelSleep(c)
  BY <1>5 DEF CancelSleep
<1>6. CASE EnterSchedule(c)
  BY <1>6 DEF EnterSchedule
<1>7. ASSUME NEW t \in Procs, Wake(c, t) PROVE TypeInv'
  BY <1>7 DEF Wake, MakeReady, Enqueued
<1>8. CASE Exit(c)
  BY <1>8 DEF Exit
<1>9. ASSUME NEW t \in Procs, Reap(c, t) PROVE TypeInv'
  BY <1>9 DEF Reap
<1>10. ASSUME NEW t \in Procs, ForceDequeue(c, t) PROVE TypeInv'
  BY <1>10 DEF ForceDequeue
<1>11. CASE ForceTerminate(c)
  BY <1>11 DEF ForceTerminate
<1>12. CASE Park(c)
  BY <1>12 DEF Park
<1> HIDE DEF TypeInv
<1> QED
  BY <1>1, <1>2, <1>3, <1>4, <1>5, <1>6, <1>7, <1>8, <1>9, <1>10, <1>11, <1>12
  DEF TaskStep, ShutdownStep

\* The inductive step of type correctness.
LEMMA TypeNext == TypeInv /\ [Next]_vars => TypeInv'
<1> SUFFICES ASSUME TypeInv, [Next]_vars PROVE TypeInv'
  OBVIOUS
<1> USE IdleFacts DEF TypeInv, TypeOK, States, Dead, Pcs, Goto
<1>1. ASSUME NEW c \in CPUs, StartSecondary(c) PROVE TypeInv'
  BY <1>1 DEF StartSecondary
<1>2. CASE Tick
  BY <1>2 DEF Tick
<1>3. CASE UNCHANGED vars
  BY <1>3 DEF vars
<1> HIDE DEF TypeInv
<1> QED BY <1>1, <1>2, <1>3, TypeHandoff, TypeTask DEF Next

\* Type correctness of the scheduler's state, shutdown and ticks included: in
\* particular no step of schedule() queues a NULL or idle task.
THEOREM TypeCorrect == Spec => []TypeOK
<1>1. TypeInv => TypeOK
  BY DEF TypeInv
<1> QED BY <1>1, TypeInit, TypeNext, PTL DEF Spec

-----------------------------------------------------------------------------
\* Types and handoff together are an invariant of normal operation.
LEMMA InvInductive == ASSUME Normal PROVE Spec => []Inv
<1>1. Init => Inv
  BY TypeInit, HandoffInit DEF Inv
<1>2. Inv /\ [Next]_vars => Inv'
  BY TypeNext, HandoffNext DEF Inv
<1> QED BY <1>1, <1>2, PTL DEF Spec

\* In normal operation the handoff of schedule(), switch_to_idle() and
\* task_context_save_complete() keeps its invariant on any number of CPUs.
THEOREM HandoffCorrect == ASSUME Normal PROVE Spec => []HandoffInv
<1>1. Inv => HandoffInv
  BY DEF Inv
<1> QED BY <1>1, InvInductive, PTL

\* A CPU on a kernel stack that is freed, or that another CPU is on, is between
\* the commit and the switch of switch_to_idle(), or shares the stack with one
\* that is, whatever the number of CPUs and tasks and whenever ticks come.
THEOREM StacksSafe == ASSUME Normal PROVE Spec => []StackOwned
<1>1. Inv => StackOwned
  <2> SUFFICES ASSUME Inv PROVE StackOwned
    OBVIOUS
  <2>1. StackExclusive /\ \A c \in CPUs : StepInv(c)
    BY Zenon DEF Inv, HandoffInv
  <2>2. \A c \in CPUs : stack[c] # NoTask /\ ~Abandoned(c) => state[stack[c]] # "FREE"
    BY <2>1, StepFacts, Zenon
  <2> QED BY <2>1, <2>2, Zenon DEF StackOwned
<1> QED BY <1>1, InvInductive, PTL

\* A CPU runs task code only in a task that is RUNNING, published and its own.
THEOREM RunsPublishedCorrect == ASSUME Normal PROVE Spec => []RunsPublished
<1>1. Inv => RunsPublished
  <2>1. Inv => \A c \in CPUs : StepInv(c)
    BY Zenon DEF Inv, HandoffInv
  <2> QED BY <2>1, StepFacts, Zenon DEF RunsPublished
<1> QED BY <1>1, InvInductive, PTL

\* A READY task is in the runqueue or reserved by the CPU about to run it; the
\* runqueue holds READY tasks only; no running_cpu claim leaks.
THEOREM NoTaskLost ==
    ASSUME Normal PROVE Spec => [](QueueExact /\ OwnerIsReal)
<1>1. Inv => QueueExact /\ OwnerIsReal
  BY Zenon DEF Inv, HandoffInv, QueueExact
<1> QED BY <1>1, InvInductive, PTL

-----------------------------------------------------------------------------
\* The implementation of KernelStacks: the stacks in use and the tasks there are.
On == [c \in CPUs |-> IF Abandoned(c) THEN NoTask ELSE stack[c]]
Live == {t \in Tasks : state[t] # "FREE"}

\* A step of CPU c that neither starts nor ends in the switch of an exit, and
\* that moves no stack pointer, leaves the stacks in use alone.
LEMMA OnKept ==
    ASSUME NEW c \in CPUs, stack' = stack, ~Abandoned(c), ~Abandoned(c)',
           \A d \in CPUs \ {c} : pc'[d] = pc[d] /\ path'[d] = path[d]
    PROVE  On' = On
<1>1. \A d \in CPUs : Abandoned(d)' <=> Abandoned(d)
  BY Zenon DEF Abandoned
<1> QED BY <1>1 DEF On

\* A step that leaves the stacks in use alone and gives no task a state, or
\* gives a task that is not free a state other than free, is a stutter of
\* KernelStacks.
LEMMA QuietStep ==
    ASSUME state \in [Tasks -> States], On' = On,
           \/ state' = state
           \/ \E u \in Tasks, s \in States :
                state[u] # "FREE" /\ s # "FREE" /\ state' = [state EXCEPT ![u] = s]
    PROVE  UNCHANGED <<On, Live>>
<1>1. \A t \in Tasks : (state'[t] = "FREE") <=> (state[t] = "FREE")
  OBVIOUS
<1> QED BY <1>1 DEF Live

\* So is a wake-up that task_make_ready_under_lock() accepts or refuses.
LEMMA QuietWake ==
    ASSUME state \in [Tasks -> States], On' = On,
           NEW c \in CPUs, NEW u \in Tasks, MakeReady(c, u)
    PROVE  UNCHANGED <<On, Live>>
<1>1. \/ state' = state
      \/ state[u] # "FREE" /\ state' = [state EXCEPT ![u] = "READY"]
  BY DEF MakeReady, CanMakeReady
<1> QED BY <1>1, QuietStep DEF States

\* What the invariant says of the types and of the step each CPU is at.
LEMMA StackFacts ==
    ASSUME Inv
    PROVE  /\ state \in [Tasks -> States] /\ stack \in [CPUs -> Tasks \cup {NoTask}]
           /\ pc \in [CPUs -> Pcs] /\ path \in [CPUs -> {"save", "nosave", "exit"}]
           /\ \A c \in CPUs : StepInv(c)
BY Zenon DEF Inv, TypeInv, TypeOK, HandoffInv

\* The task whose stack a CPU uses names that CPU in running_cpu.
LEMMA UsedOwned ==
    ASSUME NEW d \in CPUs, StepInv(d), NEW u \in Tasks, On[d] = u
    PROVE  running_cpu[u] = d
<1>1. ~Abandoned(d) /\ stack[d] = u
  BY IdleFacts DEF On
<1> QED BY <1>1, Owned, Zenon

\* The sections of schedule() that neither publish a task nor switch to it
\* leave the stacks in use alone.
LEMMA SectionsKeepStacks ==
    ASSUME Inv, NEW c \in CPUs,
           \/ Prepare(c) \/ (\E t \in Procs : ClaimNext(c, t)) \/ FallBackToIdle(c)
           \/ CommitRefused(c) \/ ContextSaveComplete(c)
    PROVE  On' = On
<1>t. pc \in [CPUs -> Pcs] /\ path \in [CPUs -> {"save", "nosave", "exit"}]
  BY StackFacts, Zenon
<1>1. /\ stack' = stack /\ pc[c] # "switch"
      /\ \E l \in {"pick", "commit", "run", "rollback", "saved"} : pc' = [pc EXCEPT ![c] = l]
      /\ path' = path \/ \E x : path' = [path EXCEPT ![c] = x]
  <2>1. CASE Prepare(c)
    BY <2>1, Zenon DEF Prepare, Goto
  <2>2. CASE \E t \in Procs : ClaimNext(c, t)
    BY <2>2 DEF ClaimNext, Goto
  <2>3. CASE FallBackToIdle(c)
    BY <2>3 DEF FallBackToIdle, Goto
  <2>4. CASE CommitRefused(c)
    BY <2>4 DEF CommitRefused, Goto
  <2>5. CASE ContextSaveComplete(c)
    BY <2>5 DEF ContextSaveComplete, Goto
  <2> QED BY <2>1, <2>2, <2>3, <2>4, <2>5, Zenon
<1>2. /\ pc'[c] # "switch"
      /\ \A d \in CPUs \ {c} : pc'[d] = pc[d] /\ path'[d] = path[d]
  BY <1>t, <1>1
<1>3. ~Abandoned(c) /\ ~Abandoned(c)'
  BY <1>1, <1>2 DEF Abandoned
<1> QED BY <1>1, <1>2, <1>3, OnKept, Zenon

\* So do the steps of a task.
LEMMA TasksKeepStacks ==
    ASSUME Inv, NEW c \in CPUs, TaskStep(c)
    PROVE  On' = On
<1>t. pc \in [CPUs -> Pcs] /\ path \in [CPUs -> {"save", "nosave", "exit"}]
  BY StackFacts, Zenon
<1>1. /\ stack' = stack /\ pc[c] # "switch"
      /\ pc' = pc \/ \E l \in {"sched", "asleep", "run", "pick"} : pc' = [pc EXCEPT ![c] = l]
      /\ path' = path \/ \E x : path' = [path EXCEPT ![c] = x]
  <2>1. CASE \E t \in Procs : TaskCreate(c, t) \/ Wake(c, t) \/ Reap(c, t)
    BY <2>1 DEF TaskCreate, Wake, Reap
  <2>2. CASE Yield(c) \/ IdleSchedule(c) \/ EnterSchedule(c)
    BY <2>2 DEF Yield, IdleSchedule, EnterSchedule, Goto
  <2>3. CASE Sleep(c) \/ CancelSleep(c)
    BY <2>3 DEF Sleep, CancelSleep, Goto
  <2>4. CASE Exit(c)
    BY <2>4, Zenon DEF Exit, Goto
  <2> QED BY <2>1, <2>2, <2>3, <2>4, Zenon DEF TaskStep
<1>2. /\ pc'[c] # "switch"
      /\ \A d \in CPUs \ {c} : pc'[d] = pc[d] /\ path'[d] = path[d]
  BY <1>t, <1>1
<1>3. ~Abandoned(c) /\ ~Abandoned(c)'
  BY <1>1, <1>2 DEF Abandoned
<1> QED BY <1>1, <1>2, <1>3, OnKept, Zenon

\* The commit of an exit hands the stack back; any other commit leaves the
\* stacks in use alone.
LEMMA CommitStacks ==
    ASSUME Inv, NEW c \in CPUs, Commit(c)
    PROVE  [Stacks!Next]_<<On, Live>>
<1>t. /\ state \in [Tasks -> States] /\ stack \in [CPUs -> Tasks \cup {NoTask}]
      /\ pc \in [CPUs -> Pcs] /\ StepInv(c)
  BY StackFacts, Zenon
<1>1. /\ pc[c] = "commit" /\ stack' = stack /\ path' = path
      /\ CanMarkRunning(c, next[c]) /\ state' = [state EXCEPT ![next[c]] = "RUNNING"]
      /\ pc' = [pc EXCEPT ![c] = "switch"]
  BY Zenon DEF Commit, Goto
<1>2. state[next[c]] # "FREE" /\ next[c] \in Tasks
  <2>1. state[next[c]] # "FREE"
    BY <1>1 DEF CanMarkRunning
  <2> QED BY <1>t, <1>1, <2>1, StepFacts, Zenon
<1>3. UNCHANGED Live
  BY <1>t, <1>1, <1>2 DEF Live
<1>4. /\ \A d \in CPUs \ {c} : Abandoned(d)' <=> Abandoned(d)
      /\ ~Abandoned(c) /\ (Abandoned(c)' <=> path[c] = "exit")
  BY <1>t, <1>1 DEF Abandoned
<1>5. CASE path[c] = "exit"
  <2>1. On[c] # NoTask
    BY <1>t, <1>1, <1>4, <1>5, IdleFacts DEF On, StepInv, Leaving, OnStack
  <2>2. On' = [On EXCEPT ![c] = NoTask]
    BY <1>1, <1>4, <1>5, Zenon DEF On
  <2>3. Stacks!Leave(c)
    BY <1>3, <2>1, <2>2 DEF Stacks!Leave, On, Live
  <2> QED BY <2>3, Zenon DEF Stacks!Next
<1>6. CASE path[c] # "exit"
  <2>1. On' = On
    BY <1>1, <1>4, <1>6 DEF On
  <2> QED BY <1>3, <2>1, Zenon
<1> QED BY <1>5, <1>6

\* A critical section of the handoff moves one CPU to a stack nobody is on,
\* hands one back, or is a stutter of KernelStacks.
LEMMA StacksHandoff ==
    ASSUME Inv, NEW c \in CPUs, HandoffStep(c)
    PROVE  [Stacks!Next]_<<On, Live>>
<1>t. /\ state \in [Tasks -> States] /\ stack \in [CPUs -> Tasks \cup {NoTask}]
      /\ pc \in [CPUs -> Pcs] /\ \A d \in CPUs : StepInv(d)
  BY StackFacts, Zenon
<1>s. StepInv(c)
  BY <1>t, Zenon
<1>1. CASE Switch(c)
  <2>1. /\ pc[c] = "switch" /\ state' = state /\ path' = path
        /\ stack' = [stack EXCEPT ![c] = next[c]]
        /\ pc' = [pc EXCEPT ![c] = IF path[c] = "save" THEN "saved" ELSE "run"]
    BY <1>1 DEF Switch, Goto
  <2>2. /\ next[c] \in Tasks /\ next[c] # stack[c]
        /\ state[next[c]] = "RUNNING" /\ running_cpu[next[c]] = c
    BY <1>s, <2>1, StepFacts, Zenon
  <2>3. \A d \in CPUs : On[d] # next[c]
    <3> SUFFICES ASSUME NEW d \in CPUs, On[d] = next[c] PROVE FALSE
      BY Zenon
    <3>1. d = c
      BY <1>t, <2>2, UsedOwned, Zenon
    <3> QED BY <2>2, <3>1, IdleFacts DEF On
  <2>4. Live' = Live /\ next[c] \in Live
    BY <2>1, <2>2 DEF Live
  <2>5. /\ \A d \in CPUs \ {c} : Abandoned(d)' <=> Abandoned(d)
        /\ ~Abandoned(c)'
    BY <1>t, <2>1 DEF Abandoned
  <2>6. On' = [On EXCEPT ![c] = next[c]]
    BY <1>t, <2>1, <2>5, Zenon DEF On
  <2>7. PICK n \in Tasks : n = next[c]
    BY <2>2, Zenon
  <2>8. Stacks!Enter(c, n)
    BY <2>3, <2>4, <2>6, <2>7 DEF Stacks!Enter, Stacks!Unused, Live, On
  <2> QED BY <2>8, Zenon DEF Stacks!Next
<1>2. CASE Prepare(c)
  <2>1. (state[current[c]] = "RUNNING" /\ MakeReady(c, current[c])) \/ state' = state
    BY <1>2, Zenon DEF Prepare
  <2>2. current[c] \in Tasks
    <3>1. pc[c] = "sched"
      BY <1>2, Zenon DEF Prepare
    <3> QED BY <1>s, <3>1, StepFacts
  <2>3. On' = On
    BY <1>2, SectionsKeepStacks, Zenon
  <2> QED BY <1>t, <2>1, <2>2, <2>3, QuietStep, QuietWake
<1>3. CASE FallBackToIdle(c)
  <2>1. /\ CanMarkRunning(c, idle_tasks[c])
        /\ state' = [state EXCEPT ![idle_tasks[c]] = "RUNNING"]
    BY <1>3, Zenon DEF FallBackToIdle
  <2>2. state[idle_tasks[c]] # "FREE" /\ idle_tasks[c] \in Tasks
    BY <2>1, IdleFacts DEF CanMarkRunning
  <2>3. On' = On
    BY <1>3, SectionsKeepStacks, Zenon
  <2> QED BY <1>t, <2>1, <2>2, <2>3, QuietStep, Zenon DEF States
<1>4. CASE \/ \E t \in Procs : ClaimNext(c, t)
           \/ CommitRefused(c) \/ ContextSaveComplete(c)
  <2>1. state' = state
    BY <1>4, ZenonT(30) DEF ClaimNext, CommitRefused, ContextSaveComplete
  <2>2. On' = On
    BY <1>4, SectionsKeepStacks, Zenon
  <2> QED BY <1>t, <2>1, <2>2, QuietStep
<1>5. ~Rollback(c) /\ ~Restore(c)
  <2>1. pc[c] # "rollback" /\ pc[c] # "restore"
    BY <1>s, StepFacts, Zenon
  <2> QED BY <2>1, Zenon DEF Rollback, Restore
<1> QED BY <1>1, <1>2, <1>3, <1>4, <1>5, CommitStacks, Zenon DEF HandoffStep

\* A step of a task creates a stack, frees one nobody uses, or is a stutter
\* of KernelStacks.
LEMMA StacksTask ==
    ASSUME Inv, NEW c \in CPUs, TaskStep(c)
    PROVE  [Stacks!Next]_<<On, Live>>
<1>t. state \in [Tasks -> States] /\ \A d \in CPUs : StepInv(d)
  BY StackFacts, Zenon
<1>s. /\ pc[c] = "run" => current[c] \in Tasks /\ state[current[c]] = "RUNNING"
      /\ pc[c] = "asleep" => current[c] \in Tasks /\ state[current[c]] # "FREE"
  BY <1>t, StepFacts
<1>o. On' = On
  BY TasksKeepStacks, Zenon
<1>1. ASSUME NEW t \in Procs, TaskCreate(c, t) PROVE Stacks!Next
  <2>1. state[t] = "FREE" /\ state' = [state EXCEPT ![t] = "READY"]
    BY <1>1, Zenon DEF TaskCreate
  <2>2. t \in Tasks /\ t \notin Live /\ Live' = Live \cup {t}
    BY <1>t, <2>1, IdleFacts DEF Live
  <2> QED BY <1>o, <2>2 DEF Stacks!Next, Stacks!Allocate, Live, On
<1>2. ASSUME NEW t \in Procs, Reap(c, t) PROVE Stacks!Next
  <2>1. /\ state[t] = "ZOMBIE" /\ running_cpu[t] = NoCpu
        /\ state' = [state EXCEPT ![t] = "FREE"]
    BY <1>2, Zenon DEF Reap
  <2>2. t \in Tasks /\ t \in Live /\ Live' = Live \ {t}
    BY <1>t, <2>1, IdleFacts DEF Live
  <2>3. \A d \in CPUs : On[d] # t
    BY <1>t, <2>1, <2>2, UsedOwned, IdleFacts, Zenon
  <2> QED BY <1>o, <2>2, <2>3 DEF Stacks!Next, Stacks!Free, Stacks!Unused, Live, On
<1>3. CASE IdleSchedule(c) \/ EnterSchedule(c)
  <2>1. state' = state
    BY <1>3, Zenon DEF IdleSchedule, EnterSchedule
  <2> QED BY <1>t, <1>o, <2>1, QuietStep
<1>4. CASE Yield(c)
  <2>1. pc[c] = "run" /\ (MakeReady(c, current[c]) \/ state' = state)
    BY <1>4, Zenon DEF Yield
  <2> QED BY <1>t, <1>s, <1>o, <2>1, QuietStep, QuietWake
<1>5. ASSUME NEW t \in Procs, Wake(c, t) PROVE UNCHANGED <<On, Live>>
  <2>1. MakeReady(c, t)
    BY <1>5, Zenon DEF Wake
  <2> QED BY <1>t, <1>o, <2>1, QuietWake, IdleFacts
<1>6. CASE Sleep(c) \/ Exit(c)
  <2>1. /\ pc[c] = "run"
        /\ \/ state' = [state EXCEPT ![current[c]] = "BLOCKED"]
           \/ state' = [state EXCEPT ![current[c]] = "ZOMBIE"]
    BY <1>6, Zenon DEF Sleep, Exit
  <2> QED BY <1>t, <1>s, <1>o, <2>1, QuietStep DEF States, Dead
<1>7. CASE CancelSleep(c)
  <2>1. /\ pc[c] = "asleep"
        /\ state' = state \/ state' = [state EXCEPT ![current[c]] = "RUNNING"]
    BY <1>7, Zenon DEF CancelSleep
  <2> QED BY <1>t, <1>s, <1>o, <2>1, QuietStep DEF States
<1> QED BY <1>1, <1>2, <1>3, <1>4, <1>5, <1>6, <1>7, Zenon DEF TaskStep

\* Every step of normal operation is a step of KernelStacks or a stutter.
LEMMA StacksNext ==
    ASSUME Normal, Inv, [Next]_vars
    PROVE  [Stacks!Next]_<<On, Live>>
<1>t. /\ state \in [Tasks -> States] /\ stack \in [CPUs -> Tasks \cup {NoTask}]
      /\ pc \in [CPUs -> Pcs] /\ \A d \in CPUs : StepInv(d)
      /\ OwnerIsReal
  BY StackFacts, Zenon DEF Inv, HandoffInv
<1>1. ASSUME NEW c \in CPUs, StartSecondary(c) PROVE Stacks!Next
  <2> DEFINE t == idle_tasks[c]
  <2>1. /\ pc[c] = "off" /\ CanMarkRunning(c, t) /\ path' = path
        /\ state' = [state EXCEPT ![t] = "RUNNING"]
        /\ stack' = [stack EXCEPT ![c] = t]
        /\ pc' = [pc EXCEPT ![c] = "run"]
    BY <1>1, Zenon DEF StartSecondary, Goto
  <2>2. t \in Tasks
    BY IdleFacts
  <2>3. running_cpu[t] = NoCpu /\ state[t] \in {"READY", "BLOCKED"}
    <3>1. stack[c] = NoTask /\ next[c] = NoTask /\ old[c] = NoTask
      BY <1>t, <2>1, StepFacts, Zenon
    <3>2. running_cpu[t] # c
      BY <1>t, <2>2, <3>1, IdleFacts DEF OwnerIsReal
    <3> QED BY <2>1, <3>2 DEF CanMarkRunning
  <2>4. \A d \in CPUs : On[d] # t
    BY <1>t, <2>2, <2>3, UsedOwned, IdleFacts
  <2>5. t \in Live /\ Live' = Live
    BY <1>t, <2>1, <2>2, <2>3 DEF Live
  <2>6. /\ \A d \in CPUs \ {c} : Abandoned(d)' <=> Abandoned(d)
        /\ ~Abandoned(c)'
    BY <1>t, <2>1 DEF Abandoned
  <2> HIDE DEF t
  <2>7. On' = [On EXCEPT ![c] = t]
    BY <1>t, <2>1, <2>6, Zenon DEF On
  <2>8. Stacks!Enter(c, t)
    BY <2>4, <2>5, <2>7 DEF Stacks!Enter, Stacks!Unused, Live, On
  <2> QED BY <2>2, <2>8 DEF Stacks!Next
<1>2. \A c \in CPUs : ~ShutdownStep(c)
  BY NoShutdownStep, Zenon DEF Inv
<1>3. CASE Tick \/ UNCHANGED vars
  <2>1. stack' = stack /\ state' = state /\ pc' = pc /\ path' = path
    BY <1>3, Zenon DEF Tick, vars
  <2>2. On' = On
    BY <2>1 DEF On, Abandoned
  <2> QED BY <1>t, <2>1, <2>2, QuietStep
<1> QED BY <1>1, <1>2, <1>3, StacksHandoff, StacksTask, Zenon DEF Next

\* The scheduler implements KernelStacks, ticks at any time included: each
\* stack is entered by one CPU at a time, and a task is freed only when every
\* CPU has left its stack or handed it back in switch_to_idle().
THEOREM ImplementsKernelStacks == ASSUME Normal PROVE Spec => StacksSpec
<1>1. Init => Stacks!Init
  BY IdleFacts, ConstantsAssumption DEF Init, Stacks!Init, Abandoned
<1>2. Inv /\ [Next]_vars => [Stacks!Next]_<<On, Live>>
  BY StacksNext
<1> QED BY <1>1, <1>2, InvInductive, PTL DEF Spec, StacksSpec, Stacks!Spec, On, Live

\* No wake-up, commit, rollback or creation brings a dead task back: a ZOMBIE
\* or TERMINATED task can only stay dead or be freed.
THEOREM DeadStaysDead == ASSUME Normal PROVE Spec => NoResurrection
<1> DEFINE Buried == \A t \in Tasks : state[t] \in Dead => state'[t] \in Dead \cup {"FREE"}
<1>1. Inv /\ [Next]_vars => [Buried]_vars
  <2> SUFFICES ASSUME Inv, Next PROVE Buried
    OBVIOUS
  <2>0. state \in [Tasks -> States]
    BY DEF Inv, TypeInv, TypeOK
  <2>s. \A c \in CPUs : StepInv(c)
    BY Zenon DEF Inv, HandoffInv
  <2>a. ASSUME NEW u \in Tasks, NEW s \in States,
               state[u] \notin Dead \/ s \in Dead \cup {"FREE"},
               state' = [state EXCEPT ![u] = s]
        PROVE  Buried
    BY <2>0, <2>a
  <2>b. ASSUME NEW c \in CPUs, NEW u \in Tasks, MakeReady(c, u) PROVE Buried
    <3>1. CASE CanMakeReady(c, u)
      <4>1. state[u] \notin Dead /\ state' = [state EXCEPT ![u] = "READY"]
        BY <2>b, <3>1 DEF MakeReady, CanMakeReady
      <4> QED BY <4>1, <2>a DEF States
    <3>2. CASE ~CanMakeReady(c, u)
      BY <2>b, <3>2 DEF MakeReady
    <3> QED BY <3>1, <3>2
  <2>c. ASSUME state' = state PROVE Buried
    BY <2>c
  <2>d. ASSUME NEW c \in CPUs, NEW u \in Tasks, CanMarkRunning(c, u),
               state' = [state EXCEPT ![u] = "RUNNING"]
        PROVE  Buried
    <3>1. state[u] \notin Dead
      BY <2>d DEF CanMarkRunning, Dead
    <3> QED BY <2>d, <3>1, <2>a DEF States
  <2>1. ASSUME NEW c \in CPUs, StartSecondary(c) PROVE Buried
    BY <2>1, <2>d, IdleFacts, ZenonT(30) DEF StartSecondary
  <2>2. ASSUME NEW c \in CPUs, HandoffStep(c) PROVE Buried
    <3>0. /\ pc[c] = "sched" => current[c] \in Tasks
          /\ pc[c] = "commit" => next[c] \in Tasks
      BY <2>s, StepFacts
    <3>1. CASE Prepare(c)
      <4>1. CASE state[current[c]] = "RUNNING"
        BY <3>0, <3>1, <4>1, <2>b DEF Prepare
      <4>2. CASE state[current[c]] # "RUNNING"
        BY <3>1, <4>2, <2>c DEF Prepare
      <4> QED BY <4>1, <4>2
    <3>2. CASE FallBackToIdle(c)
      BY <3>2, <2>d, IdleFacts, ZenonT(30) DEF FallBackToIdle
    <3>3. CASE Commit(c)
      BY <3>0, <3>3, <2>d, ZenonT(30) DEF Commit
    <3>4. CASE \/ \E t \in Procs : ClaimNext(c, t)
               \/ CommitRefused(c) \/ ContextSaveComplete(c) \/ Switch(c)
      BY <3>4, <2>c, ZenonT(30) DEF ClaimNext, CommitRefused, ContextSaveComplete, Switch
    <3>5. CASE Rollback(c) \/ Restore(c)
      <4>1. pc[c] # "rollback" /\ pc[c] # "restore"
        BY <2>s, StepFacts, Zenon
      <4> QED BY <3>5, <4>1, Zenon DEF Rollback, Restore
    <3> QED BY <2>2, <3>1, <3>2, <3>3, <3>4, <3>5, Zenon DEF HandoffStep
  <2>3. ASSUME NEW c \in CPUs, TaskStep(c) PROVE Buried
    <3>0. /\ pc[c] = "run" => current[c] \in Tasks /\ state[current[c]] = "RUNNING"
          /\ pc[c] = "asleep" => current[c] \in Tasks
      BY <2>s, StepFacts
    <3>1. CASE Yield(c)
      <4>1. MakeReady(c, current[c]) /\ current[c] \in Tasks
        BY <3>0, <3>1 DEF Yield
      <4> QED BY <4>1, <2>b
    <3>2. CASE \E t \in Procs : Wake(c, t)
      <4>1. PICK t \in Procs : MakeReady(c, t)
        BY <3>2 DEF Wake
      <4> QED BY <4>1, <2>b DEF Tasks
    <3>3. CASE IdleSchedule(c) \/ EnterSchedule(c)
      BY <3>3, <2>c DEF IdleSchedule, EnterSchedule
    <3>4. CASE Sleep(c)
      <4>1. /\ current[c] \in Tasks /\ state[current[c]] \notin Dead
            /\ state' = [state EXCEPT ![current[c]] = "BLOCKED"]
        BY <3>0, <3>4 DEF Sleep, Dead
      <4> QED BY <4>1, <2>a DEF States
    <3>5. CASE CancelSleep(c)
      <4>1. CASE state[current[c]] \notin Dead
        BY <3>0, <3>5, <4>1, <2>a DEF CancelSleep, States
      <4>2. CASE state[current[c]] \in Dead
        BY <3>5, <4>2, <2>c DEF CancelSleep
      <4> QED BY <4>1, <4>2
    <3>6. CASE Exit(c)
      BY <3>0, <3>6, <2>a DEF Exit, States, Dead
    <3>7. CASE \E t \in Procs : TaskCreate(c, t)
      <4>1. PICK t \in Procs : state[t] = "FREE" /\ state' = [state EXCEPT ![t] = "READY"]
        BY <3>7, ZenonT(30) DEF TaskCreate
      <4> QED BY <4>1, <2>a DEF States, Dead, Tasks
    <3>8. CASE \E t \in Procs : Reap(c, t)
      <4>1. PICK t \in Procs : state' = [state EXCEPT ![t] = "FREE"]
        BY <3>8, ZenonT(30) DEF Reap
      <4> QED BY <4>1, <2>a DEF States, Tasks
    <3> QED BY <2>3, <3>1, <3>2, <3>3, <3>4, <3>5, <3>6, <3>7, <3>8, Zenon DEF TaskStep
  <2>4. ASSUME NEW c \in CPUs, ShutdownStep(c) PROVE Buried
    BY <2>4, NoShutdownStep, Zenon DEF Inv
  <2>5. CASE Tick
    BY <2>5, <2>c DEF Tick
  <2> QED BY <2>1, <2>2, <2>3, <2>4, <2>5 DEF Next
<1> QED BY <1>1, InvInductive, PTL DEF Spec, NoResurrection
=============================================================================
