------------------------------ MODULE Ext2Lock ------------------------------
(***************************************************************************)
(* The sleeping lock around every ext2 operation: ext2_op_acquire and      *)
(* ext2_op_release of kernel/fs/ext2_vfs.c, with the wait queue under      *)
(* them.  The owner may take it again.  A waiter marks itself asleep,      *)
(* registers, tests the lock once more and only then gives up the CPU;     *)
(* the owner frees the lock, takes all waiters off the queue, and wakes    *)
(* them one by one after that.                                             *)
(*                                                                         *)
(* An action is one critical section, of ext2_op_lock, of the queue's lock *)
(* or of task_lock.  Kernel code is not preempted, so a task that marked   *)
(* itself asleep runs on until it calls schedule().  The queue has a slot  *)
(* for every task.                                                         *)
(***************************************************************************)
EXTENDS Naturals

CONSTANTS Tasks, NoTask,
          MaxDepth,      \* bound on nested operations
          MaxFailures    \* bound on failed allocations in ext2_wait_wake_all

ASSUME Ext2LockAssumption ==
  NoTask \notin Tasks /\ MaxDepth \in Nat \ {0} /\ MaxFailures \in Nat

VARIABLES
  ext2_op_owner,   \* NoTask: ext2_op_busy is false
  ext2_op_depth,
  waiters,         \* ext2_op_waitq.waiters
  state,           \* task->state
  pc,
  wake,            \* the list ext2_wait_wake_all has collected, per caller
  failures         \* allocations that failed

vars == <<ext2_op_owner, ext2_op_depth, waiters, state, pc, wake, failures>>

Init ==
  /\ ext2_op_owner = NoTask
  /\ ext2_op_depth = 0
  /\ waiters = {}
  /\ state = [t \in Tasks |-> "RUNNING"]
  /\ pc = [t \in Tasks |-> "out"]
  /\ wake = [t \in Tasks |-> {}]
  /\ failures = 0

Goto(t, l) == pc' = [pc EXCEPT ![t] = l]

-----------------------------------------------------------------------------
\* ext2_op_try_acquire, with and without success.
Taken(t) ==
  \/ /\ ext2_op_owner = t
     /\ ext2_op_depth' = ext2_op_depth + 1
     /\ UNCHANGED ext2_op_owner
  \/ /\ ext2_op_owner = NoTask
     /\ ext2_op_owner' = t
     /\ ext2_op_depth' = 1

NotTaken(t) ==
  /\ ext2_op_owner \notin {t, NoTask}
  /\ UNCHANGED <<ext2_op_owner, ext2_op_depth>>

Try(t) ==
  /\ pc[t] \in {"out", "again"}
  /\ \/ Taken(t) /\ Goto(t, "in")
     \/ NotTaken(t) /\ Goto(t, "prepare")
  /\ UNCHANGED <<waiters, state, wake, failures>>

\* An operation that calls another one.
Nested(t) ==
  /\ pc[t] = "in"
  /\ ext2_op_depth < MaxDepth
  /\ Taken(t)
  /\ UNCHANGED <<waiters, state, pc, wake, failures>>

\* ext2_wait_prepare: asleep first, with a timeout of a second ...
Prepare(t) ==
  /\ pc[t] = "prepare"
  /\ state' = [state EXCEPT ![t] = "INTERRUPTIBLE"]
  /\ Goto(t, "register")
  /\ UNCHANGED <<ext2_op_owner, ext2_op_depth, waiters, wake, failures>>

\* ... then on the queue.
Register(t) ==
  /\ pc[t] = "register"
  /\ waiters' = waiters \cup {t}
  /\ Goto(t, "recheck")
  /\ UNCHANGED <<ext2_op_owner, ext2_op_depth, state, wake, failures>>

\* Mutant: the lock is not tested again after the registration.
Recheck_Missing(t) ==
  /\ pc[t] = "recheck"
  /\ Goto(t, "asleep")
  /\ UNCHANGED <<ext2_op_owner, ext2_op_depth, waiters, state, wake, failures>>

Recheck(t) ==
  /\ pc[t] = "recheck"
  /\ \/ Taken(t) /\ Goto(t, "leave")
     \/ NotTaken(t) /\ Goto(t, "asleep")
  /\ UNCHANGED <<waiters, state, wake, failures>>

\* The lock was free after all: off the queue, and running again.
LeaveQueue(t) ==
  /\ pc[t] = "leave"
  /\ waiters' = waiters \ {t}
  /\ Goto(t, "restore")
  /\ UNCHANGED <<ext2_op_owner, ext2_op_depth, state, wake, failures>>

\* Mutant: the caller enters the protected section still marked asleep.
Restore_Missing(t) ==
  /\ pc[t] = "restore"
  /\ Goto(t, "in")
  /\ UNCHANGED <<ext2_op_owner, ext2_op_depth, waiters, state, wake, failures>>

Restore(t) ==
  /\ pc[t] = "restore"
  /\ state' = [state EXCEPT ![t] = "RUNNING"]
  /\ Goto(t, "in")
  /\ UNCHANGED <<ext2_op_owner, ext2_op_depth, waiters, wake, failures>>

\* schedule() returns once somebody made the task ready.
Resume(t) ==
  /\ pc[t] = "asleep"
  /\ state[t] = "READY"
  /\ state' = [state EXCEPT ![t] = "RUNNING"]
  /\ Goto(t, "awake")
  /\ UNCHANGED <<ext2_op_owner, ext2_op_depth, waiters, wake, failures>>

\* ext2_wait_finish, and round the loop.
Awake(t) ==
  /\ pc[t] = "awake"
  /\ waiters' = waiters \ {t}
  /\ Goto(t, "again")
  /\ UNCHANGED <<ext2_op_owner, ext2_op_depth, state, wake, failures>>

-----------------------------------------------------------------------------
ext2_op_release(t) ==
  /\ pc[t] = "in"
  /\ \/ /\ ext2_op_depth > 1
        /\ ext2_op_depth' = ext2_op_depth - 1
        /\ UNCHANGED <<ext2_op_owner, pc>>
     \/ /\ ext2_op_depth = 1
        /\ ext2_op_owner' = NoTask
        /\ ext2_op_depth' = 0
        /\ Goto(t, "collect")
  /\ UNCHANGED <<waiters, state, wake, failures>>

(* ext2_wait_wake_all: who is on the queue and asleep goes on the list;    *)
(* without memory for the list nobody is woken.                            *)
Collect(t) ==
  /\ pc[t] = "collect"
  /\ \/ /\ wake' = [wake EXCEPT ![t] = {w \in waiters : state[w] = "INTERRUPTIBLE"}]
        /\ waiters' = {}
        /\ Goto(t, "wake")
        /\ UNCHANGED failures
     \/ /\ failures < MaxFailures
        /\ failures' = failures + 1
        /\ Goto(t, "out")
        /\ UNCHANGED <<waiters, wake>>
  /\ UNCHANGED <<ext2_op_owner, ext2_op_depth, state>>

\* task_wake refuses a task that is running.
MadeReady(t) ==
  state' = [state EXCEPT ![t] = IF @ = "INTERRUPTIBLE" THEN "READY" ELSE @]

Wake(t) ==
  /\ pc[t] = "wake"
  /\ \/ \E w \in wake[t] :
          /\ MadeReady(w)
          /\ wake' = [wake EXCEPT ![t] = @ \ {w}]
          /\ UNCHANGED pc
     \/ /\ wake[t] = {}
        /\ Goto(t, "out")
        /\ UNCHANGED <<state, wake>>
  /\ UNCHANGED <<ext2_op_owner, ext2_op_depth, waiters, failures>>

\* The timeout, or a signal to the sleeper.
Timeout(t) ==
  /\ state[t] = "INTERRUPTIBLE"
  /\ MadeReady(t)
  /\ UNCHANGED <<ext2_op_owner, ext2_op_depth, waiters, pc, wake, failures>>

Proceed(t) ==
  \/ Try(t)
  \/ Prepare(t)
  \/ Register(t)
  \/ Recheck(t)
  \/ LeaveQueue(t)
  \/ Restore(t)
  \/ Resume(t)
  \/ Awake(t)
  \/ ext2_op_release(t)
  \/ Collect(t)
  \/ Wake(t)

Next == \E t \in Tasks : Proceed(t) \/ Nested(t) \/ Timeout(t)

Spec == Init /\ [][Next]_vars

(* A task that runs goes on, and an operation makes finitely many nested   *)
(* calls.  The timeout is assumed to come only after a failed allocation:  *)
(* without one it is not needed.                                           *)
Fairness(t) ==
  /\ WF_vars(pc[t] # "out" /\ Proceed(t))
  /\ SF_vars(ext2_op_depth = 1 /\ ext2_op_release(t))
  /\ WF_vars(failures > 0 /\ Timeout(t))

FairSpec == Spec /\ \A t \in Tasks : Fairness(t)

-----------------------------------------------------------------------------
Labels == {"out", "prepare", "register", "recheck", "leave", "restore", "asleep",
           "awake", "again", "in", "collect", "wake"}

Inside == {"leave", "restore", "in"}

TypeOK ==
  /\ ext2_op_owner \in Tasks \cup {NoTask}
  /\ ext2_op_depth \in 0 .. MaxDepth
  /\ waiters \subseteq Tasks
  /\ state \in [Tasks -> {"RUNNING", "INTERRUPTIBLE", "READY"}]
  /\ pc \in [Tasks -> Labels]
  /\ wake \in [Tasks -> SUBSET Tasks]
  /\ failures \in 0 .. MaxFailures

(* One task at a time is inside ext2, it is the owner on record, and it is *)
(* not still reported asleep: "otherwise the caller keeps running kernel   *)
(* code while still reported as TASK_INTERRUPTIBLE" (ext2_op_acquire).     *)
OpExclusion ==
  /\ \A t \in Tasks : pc[t] \in Inside <=> ext2_op_owner = t
  /\ ext2_op_depth = 0 <=> ext2_op_owner = NoTask
  /\ \A t \in Tasks : pc[t] = "in" => state[t] = "RUNNING"

(* "The timeout is only a lost-wakeup safety net" (ext2_op_acquire): a     *)
(* task that gave up the CPU is on the queue of an owner who has yet to    *)
(* collect it, or on the list of one who has yet to wake it.               *)
SleeperKnown ==
  \A t \in Tasks : pc[t] = "asleep" /\ state[t] = "INTERRUPTIBLE" /\ failures = 0 =>
    \/ t \in waiters /\ (ext2_op_owner # NoTask \/ \E u \in Tasks : pc[u] = "collect")
    \/ \E u \in Tasks : t \in wake[u]

(* Whoever sleeps for the lock must be woken when it is freed. *)
Sleeps(t) == pc[t] = "asleep"
SleepersWoken == \A t \in Tasks : Sleeps(t) ~> ~Sleeps(t)
=============================================================================
