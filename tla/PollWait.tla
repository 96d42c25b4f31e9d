------------------------------ MODULE PollWait ------------------------------
(***************************************************************************)
(* The sleep/notify mechanism every descriptor wait is built on:           *)
(* task_poll_generation(), task_poll_wait() and task_poll_notify_key() of  *)
(* kernel/task/task.c, with the wake-up that send_signal() gives a sleeper.*)
(*                                                                         *)
(* The code keeps one 32-bit poll_generation.  A waiter reads it, scans    *)
(* the resources it is interested in, and sleeps only if the generation    *)
(* is still the one it read; a producer publishes its state, then bumps    *)
(* the generation and wakes the sleepers registered on its key.  What the  *)
(* comparison tells a waiter is one bit, "has anybody notified since I     *)
(* read the generation": fresh[p].  (The bit and the comparison agree as   *)
(* long as fewer than 2^32 - 1 notifications fall between the read and the *)
(* comparison.)                                                            *)
(*                                                                         *)
(* Every operator is one critical section of task_lock.  Each constrains   *)
(* the five variables of this module; the modules that EXTEND this one add *)
(* their own state to it.                                                  *)
(***************************************************************************)
EXTENDS Naturals, FiniteSets

CONSTANTS Procs,   \* single-threaded processes: each is its own leader
          Keys     \* resource keys (addresses of buffers, sockets, ...)

VARIABLES
  fresh,     \* fresh[p]: poll_generation still has the value p read
  sleeping,  \* processes that are TASK_INTERRUPTIBLE in task_poll_wait()
  keys,      \* keys[p]: poll_wait_keys while poll_wait_active, {} otherwise
  pending,   \* processes with a deliverable signal (has_pending_signals)
  waking     \* targets of a send_signal() that has yet to wake them

pollvars == <<fresh, sleeping, keys, pending, waking>>

PollTypeOK ==
  /\ fresh \in [Procs -> BOOLEAN]
  /\ sleeping \subseteq Procs
  /\ keys \in [Procs -> SUBSET Keys]
  /\ pending \subseteq Procs
  /\ waking \subseteq Procs

PollInit ==
  /\ fresh = [p \in Procs |-> FALSE]
  /\ sleeping = {}
  /\ keys = [p \in Procs |-> {}]
  /\ pending = {}
  /\ waking = {}

(* The generation is read under task_lock. *)
task_poll_generation(p) ==
  /\ fresh' = [fresh EXCEPT ![p] = TRUE]
  /\ UNCHANGED <<sleeping, keys, pending, waking>>

(* Mutant: no generation comparison. *)
PollStaleUnchecked(p, expired) == expired

(* task_poll_wait() returns 0 at once: someone notified since p read the   *)
(* generation, or the deadline is over.                                    *)
PollStale(p, expired) == ~fresh[p] \/ expired

(* Mutant: a signal does not keep a process from sleeping, nor end its call. *)
PollNeverInterrupted(p, expired) == FALSE

(* It returns -EINTR at once: a signal is pending. *)
PollInterrupted(p, expired) == ~PollStale(p, expired) /\ p \in pending

(* Mutant: the sleep is published without the signal test. *)
PollSleepSignalled(p, K, expired) ==
  /\ ~PollStale(p, expired)
  /\ sleeping' = sleeping \cup {p}
  /\ keys' = [keys EXCEPT ![p] = K]
  /\ fresh' = [fresh EXCEPT ![p] = FALSE]
  /\ UNCHANGED <<pending, waking>>

(* Otherwise p registers its keys and goes to sleep, atomically with the   *)
(* two tests.  The generation it read is of no more use: the next pass     *)
(* reads it again.                                                         *)
PollSleep(p, K, expired) ==
  /\ ~PollStale(p, expired)
  /\ p \notin pending
  /\ sleeping' = sleeping \cup {p}
  /\ keys' = [keys EXCEPT ![p] = K]
  /\ fresh' = [fresh EXCEPT ![p] = FALSE]
  /\ UNCHANGED <<pending, waking>>

(* p runs again and clears its registration. *)
PollResume(p) ==
  /\ p \notin sleeping
  /\ keys' = [keys EXCEPT ![p] = {}]
  /\ UNCHANGED <<fresh, sleeping, pending, waking>>

(* Mutant: the generation moves only when somebody is woken. *)
NotifyWakesOnly(k) ==
  LET woken == {p \in sleeping : k \in keys[p]} IN
  /\ fresh' = IF woken = {} THEN fresh ELSE [p \in Procs |-> FALSE]
  /\ sleeping' = sleeping \ woken
  /\ keys' = [p \in Procs |-> IF p \in woken THEN {} ELSE keys[p]]
  /\ UNCHANGED <<pending, waking>>

(* Everybody's generation becomes stale; the sleepers registered on k wake *)
(* and lose their registration.                                            *)
task_poll_notify_key(k) ==
  LET woken == {p \in sleeping : k \in keys[p]} IN
  /\ fresh' = [p \in Procs |-> FALSE]
  /\ sleeping' = sleeping \ woken
  /\ keys' = [p \in Procs |-> IF p \in woken THEN {} ELSE keys[p]]
  /\ UNCHANGED <<pending, waking>>

(* send_signal() publishes the pending bit without task_lock ... *)
send_signal(p) ==
  /\ pending' = pending \cup {p}
  /\ waking' = waking \cup {p}
  /\ UNCHANGED <<fresh, sleeping, keys>>

(* ... and then, in a critical section of its own, wakes the process if it *)
(* sleeps.  By then the process may have seen the bit, returned -EINTR,    *)
(* handled the signal and gone to sleep again: it wakes for nothing.  The  *)
(* registration stays until the process runs.                              *)
wake_up_process_for_signal(p) ==
  /\ p \in waking
  /\ waking' = waking \ {p}
  /\ sleeping' = sleeping \ {p}
  /\ UNCHANGED <<fresh, keys, pending>>

(* check_pending_signals() consumes the signal on the way to user mode. *)
check_pending_signals(p) ==
  /\ p \in pending
  /\ pending' = pending \ {p}
  /\ UNCHANGED <<fresh, sleeping, keys, waking>>

(* A signal never finds its target asleep and leaves it there: a process   *)
(* that sleeps in task_poll_wait() with a signal pending is about to be    *)
(* woken by the sender.  (pending is tested and the sleep published in one *)
(* critical section; the sender posts first and wakes second.)             *)
SignalNotLost == sleeping \cap pending \subseteq waking
=============================================================================
