--------------------------- MODULE PthreadThread ---------------------------
(***************************************************************************)
(* Creating, joining, detaching and ending threads: newlib-port/pthread.c  *)
(* with sys_clone() and sys_thread_exit() of kernel/syscalls/thread.c.     *)
(*                                                                         *)
(* Each created thread has a control block: heap memory that also owns its *)
(* stack and its TLS.  thread_table holds the blocks of live threads; a    *)
(* thread looks a block up and changes it under the registry lock, but     *)
(* pthread_create, a waiting pthread_join and the exiting thread itself    *)
(* use a block without the lock.  A critical section of the registry lock  *)
(* is one step.  The kernel clears alive_tid when the thread has left user *)
(* mode for good; only then may the block go.                              *)
(*                                                                         *)
(* A thread and its control block have the same name.                      *)
(***************************************************************************)
EXTENDS Futex

CONSTANTS Children,   \* the threads that pthread_create makes
          Attrs,      \* detach states asked of pthread_create
          TableSize,  \* ARMOS_PTHREAD_MAX_THREADS, less the main thread
          Cancelled   \* threads that get a pthread_cancel

VARIABLES
  thread_table,
  known,                         \* blocks whose tid was stored
  detached, joined, finished,    \* words of the control blocks
  alive_tid,
  freed,                         \* blocks that were destroyed, with their stacks
  destroys,                      \* how often each one was
  pc, control                    \* of each thread: program counter, block in use

blocks == <<thread_table, known, detached, joined, finished, alive_tid, freed, destroys>>
vars == <<blocks, pc, control, futex_wait_address>>

NoControl == "none"

ThreadAssumption ==
  /\ IsFiniteSet(Threads)
  /\ Children \subseteq Threads
  /\ Cancelled \subseteq Threads
  /\ NoControl \notin Children
  /\ \A c \in Children : NoAddr # <<"finished", c>> /\ NoAddr # <<"alive", c>>
  /\ TableSize \in Nat
  /\ Attrs \subseteq {"joinable", "detached"}

Init ==
  /\ FutexInit
  /\ thread_table = {}
  /\ known = {}
  /\ detached = {}
  /\ joined = {}
  /\ finished = {}
  /\ alive_tid = {}
  /\ freed = {}
  /\ destroys = [c \in Children |-> 0]
  /\ pc = [t \in Threads |-> IF t \in Children THEN "unborn" ELSE "user"]
  /\ control = [t \in Threads |-> NoControl]

Goto(t, l) == pc' = [pc EXCEPT ![t] = l]
Use(t, c, l) == Goto(t, l) /\ control' = [control EXCEPT ![t] = c]

-----------------------------------------------------------------------------
(* reap_detached_threads(), at the start of pthread_create and at the end  *)
(* of pthread_detach: take finished detached blocks one by one.            *)
Reapable(c) == c \in thread_table \cap detached \cap finished /\ c \notin alive_tid

Reap(t) ==
  /\ pc[t] \in {"create", "detach"}
  /\ \E c \in Children :
       /\ Reapable(c)
       /\ thread_table' = thread_table \ {c}
       /\ Use(t, c, IF pc[t] = "create" THEN "create destroy" ELSE "detach destroy")
  /\ UNCHANGED <<known, detached, joined, finished, alive_tid, freed, destroys, futex_wait_address>>

Reaped(t) ==
  /\ pc[t] = "detach"
  /\ ~\E c \in Children : Reapable(c)
  /\ Goto(t, "user")
  /\ UNCHANGED <<blocks, control, futex_wait_address>>

AfterDestroy == [l \in {"create destroy", "detach destroy", "destroy"} |->
  CASE l = "create destroy" -> "create"
    [] l = "detach destroy" -> "detach"
    [] l = "destroy" -> "user"]

thread_control_destroy(t) ==
  /\ pc[t] \in DOMAIN AfterDestroy
  /\ freed' = freed \cup {control[t]}
  /\ destroys' = [destroys EXCEPT ![control[t]] = @ + 1]
  /\ Use(t, NoControl, AfterDestroy[pc[t]])
  /\ UNCHANGED <<thread_table, known, detached, joined, finished, alive_tid, futex_wait_address>>

-----------------------------------------------------------------------------
pthread_create(t) ==
  /\ pc[t] = "user"
  /\ Goto(t, "create")
  /\ UNCHANGED <<blocks, control, futex_wait_address>>

\* Children whose block was never allocated.
Fresh == {c \in Children : pc[c] = "unborn" /\ c \notin thread_table \cup freed
                           /\ \A t \in Threads : control[t] # c}

\* calloc and thread_insert_locked: EAGAIN if the table is full.
Insert(t) ==
  /\ pc[t] = "create"
  /\ ~\E c \in Children : Reapable(c)
  /\ \E c \in Fresh, attr \in Attrs :
       /\ detached' = IF attr = "detached" THEN detached \cup {c} ELSE detached
       /\ IF Cardinality(thread_table) < TableSize
          THEN thread_table' = thread_table \cup {c} /\ Use(t, c, "clone")
          ELSE UNCHANGED thread_table /\ Use(t, c, "destroy")
  /\ UNCHANGED <<known, joined, finished, alive_tid, freed, destroys, futex_wait_address>>

\* sys_clone: the kernel stores alive_tid before the child can run.
Clone(t) ==
  /\ pc[t] = "clone"
  /\ alive_tid' = alive_tid \cup {control[t]}
  /\ pc' = [pc EXCEPT ![t] = "store tid", ![control[t]] = "user"]
  /\ UNCHANGED <<thread_table, known, detached, joined, finished, freed, destroys, control,
                 futex_wait_address>>

CloneFails(t) ==
  /\ pc[t] = "clone"
  /\ thread_table' = thread_table \ {control[t]}
  /\ Goto(t, "destroy")
  /\ UNCHANGED <<known, detached, joined, finished, alive_tid, freed, destroys, control,
                 futex_wait_address>>

\* control->tid = result, without the lock and with the child running.
StoreTid(t) ==
  /\ pc[t] = "store tid"
  /\ known' = known \cup {control[t]}
  /\ Use(t, NoControl, "user")
  /\ UNCHANGED <<thread_table, detached, joined, finished, alive_tid, freed, destroys,
                 futex_wait_address>>

-----------------------------------------------------------------------------
Found(t, c) == pc[t] = "user" /\ c # t /\ c \in thread_table \cap known

\* EINVAL for a detached thread or one that is being joined.
pthread_join(t, c) ==
  /\ Found(t, c) /\ c \notin detached \cup joined
  /\ joined' = joined \cup {c}
  /\ Use(t, c, "join finished")
  /\ UNCHANGED <<thread_table, known, detached, finished, alive_tid, freed, destroys,
                 futex_wait_address>>

\* One pass of a loop around __armos_pthread_wait.
WaitFor(t, at, word, done, next) ==
  /\ pc[t] = at
  /\ ~Asleep(t)
  /\ \/ done /\ Goto(t, next) /\ UNCHANGED futex_wait_address
     \/ ~done /\ FutexSleep(t, word) /\ UNCHANGED pc
  /\ UNCHANGED <<blocks, control>>

JoinFinished(t) ==
  WaitFor(t, "join finished", <<"finished", control[t]>>, control[t] \in finished, "join alive")

\* Mutant: a finished thread is taken to be gone.
JoinAlive_Skipped(t) ==
  WaitFor(t, "join alive", <<"alive", control[t]>>, TRUE, "join remove")

JoinAlive(t) ==
  WaitFor(t, "join alive", <<"alive", control[t]>>, control[t] \notin alive_tid, "join remove")

\* The result is read, and the block leaves the table.
JoinRemove(t) ==
  /\ pc[t] = "join remove"
  /\ thread_table' = thread_table \ {control[t]}
  /\ Goto(t, "destroy")
  /\ UNCHANGED <<known, detached, joined, finished, alive_tid, freed, destroys, control,
                 futex_wait_address>>

(* The joiner is cancelled: it leaves the wait and exits.  Only in the     *)
(* first loop does a cleanup handler give the thread back to other joins.  *)
JoinCancelled(t) ==
  /\ t \in Cancelled \cap Children
  /\ pc[t] \in {"join finished", "join alive"}
  /\ joined' = IF pc[t] = "join finished" THEN joined \ {control[t]} ELSE joined
  /\ futex_wait_address' = [futex_wait_address EXCEPT ![t] = NoAddr]
  /\ Use(t, NoControl, "exit")
  /\ UNCHANGED <<thread_table, known, detached, finished, alive_tid, freed, destroys>>

pthread_detach(t, c) ==
  /\ pc[t] = "user" /\ c \in thread_table \cap known
  /\ c \notin detached \cup joined
  /\ detached' = detached \cup {c}
  /\ Goto(t, "detach")
  /\ UNCHANGED <<thread_table, known, joined, finished, alive_tid, freed, destroys, control,
                 futex_wait_address>>

-----------------------------------------------------------------------------
pthread_exit(t) ==
  /\ t \in Children
  /\ pc[t] = "user"
  /\ Goto(t, "exit")
  /\ UNCHANGED <<blocks, control, futex_wait_address>>

ExitFinished(t) ==
  /\ pc[t] = "exit"
  /\ finished' = finished \cup {t}
  /\ Goto(t, "exit wake")
  /\ UNCHANGED <<thread_table, known, detached, joined, alive_tid, freed, destroys, control,
                 futex_wait_address>>

ExitWake(t) ==
  /\ pc[t] = "exit wake"
  /\ FutexWake(<<"finished", t>>, Cardinality(Threads))
  /\ Goto(t, "thread_exit")
  /\ UNCHANGED <<blocks, control>>

\* sys_thread_exit: the word in user memory, then its sleeper.
ThreadExit(t) ==
  /\ pc[t] = "thread_exit"
  /\ alive_tid' = alive_tid \ {t}
  /\ Goto(t, "thread_exit wake")
  /\ UNCHANGED <<thread_table, known, detached, joined, finished, freed, destroys, control,
                 futex_wait_address>>

\* Mutant: sys_thread_exit only clears the word.
ThreadExitWake_Missing(t) ==
  /\ pc[t] = "thread_exit wake"
  /\ Goto(t, "gone")
  /\ UNCHANGED <<blocks, control, futex_wait_address>>

ThreadExitWake(t) ==
  /\ pc[t] = "thread_exit wake"
  /\ FutexWake(<<"alive", t>>, 1)
  /\ Goto(t, "gone")
  /\ UNCHANGED <<blocks, control>>

Next ==
  \E t \in Threads :
    \/ pthread_create(t) \/ Reap(t) \/ Reaped(t) \/ thread_control_destroy(t)
    \/ Insert(t) \/ Clone(t) \/ CloneFails(t) \/ StoreTid(t)
    \/ \E c \in Children : pthread_join(t, c) \/ pthread_detach(t, c)
    \/ JoinFinished(t) \/ JoinAlive(t) \/ JoinRemove(t) \/ JoinCancelled(t)
    \/ pthread_exit(t) \/ ExitFinished(t) \/ ExitWake(t)
    \/ ThreadExit(t) \/ ThreadExitWake(t)

Spec == Init /\ [][Next]_vars

-----------------------------------------------------------------------------
TypeOK ==
  /\ thread_table \cup known \cup detached \cup joined \cup finished \cup alive_tid
       \cup freed \subseteq Children
  /\ control \in [Threads -> Children \cup {NoControl}]
  /\ \A t \in Threads : Asleep(t) => pc[t] \in {"join finished", "join alive"}

\* Threads in user mode, or in a system call that will write user memory.
OnItsStack(c) == pc[c] \notin {"unborn", "thread_exit wake", "gone"}

(* Nobody uses a control block, or the stack in it, after it was freed,    *)
(* and none is freed twice: not by a join that finds the thread finished   *)
(* but still running, by two joins, or by a join and a reaper.             *)
ControlsLive ==
  /\ \A c \in freed : ~OnItsStack(c) /\ destroys[c] = 1
  /\ \A t \in Threads : control[t] \notin freed
  /\ thread_table \cap freed = {}

(* A joiner sleeps only for a thread that has yet to wake it: neither      *)
(* pthread_exit's nor sys_thread_exit's wake-up passes it by.              *)
JoinerWoken ==
  \A t \in Threads, c \in Children :
    /\ futex_wait_address[t] = <<"finished", c>> => pc[c] \notin {"thread_exit", "thread_exit wake", "gone"}
    /\ futex_wait_address[t] = <<"alive", c>> => pc[c] # "gone"
=============================================================================
