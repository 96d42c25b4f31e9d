------------------------------- MODULE Futex -------------------------------
(***************************************************************************)
(* The kernel's futex: task_futex_wait() and task_futex_wake() of          *)
(* kernel/task/task.c behind sys_futex().  The words themselves are user   *)
(* memory and belong to the modules that EXTEND this one; the kernel only  *)
(* keeps who sleeps on which address.  Every operator is one critical      *)
(* section of task_lock.                                                   *)
(***************************************************************************)
EXTENDS Naturals, FiniteSets

CONSTANTS Threads,  \* threads of one process
          NoAddr    \* futex_wait_active is 0

VARIABLE futex_wait_address   \* the address each thread sleeps on

FutexInit == futex_wait_address = [t \in Threads |-> NoAddr]

Asleep(t) == futex_wait_address[t] # NoAddr

Sleepers(a) == {t \in Threads : futex_wait_address[t] = a}

\* FUTEX_WAIT sleeps only if the word, read again under task_lock, still
\* holds the expected value; otherwise it returns EAGAIN.
FutexMatches(word, expected) == word = expected

FutexSleep(t, a) == futex_wait_address' = [futex_wait_address EXCEPT ![t] = a]

\* FUTEX_WAKE: up to max of the threads asleep on a are made ready.  Which
\* ones depends on the order of the task list, left open here.
FutexWake(a, max) ==
  \E S \in SUBSET Sleepers(a) :
    /\ Cardinality(S) <= max
    /\ Cardinality(S) = max \/ S = Sleepers(a)
    /\ futex_wait_address' = [t \in Threads |->
         IF t \in S THEN NoAddr ELSE futex_wait_address[t]]

\* A sleeper is made ready by its deadline or by a signal: its state is no
\* longer one that task_futex_wake() counts.
FutexLeave(t) ==
  /\ Asleep(t)
  /\ futex_wait_address' = [futex_wait_address EXCEPT ![t] = NoAddr]
=============================================================================
