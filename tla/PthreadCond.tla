----------------------------- MODULE PthreadCond -----------------------------
(***************************************************************************)
(* A condition variable of newlib-port/pthread_sync.c used the way POSIX   *)
(* asks: a monitor in which consumers wait, in a loop and with the mutex   *)
(* held, until there is an item, and producers add an item under the mutex *)
(* and signal or broadcast, holding the mutex or after they let it go.     *)
(*                                                                         *)
(* cond_wait_common() reads the sequence number while it holds the mutex,  *)
(* unlocks, sleeps on the sequence word if it has not moved, and locks     *)
(* again; a signal increments the word and wakes.  The mutex steps are     *)
(* those of PthreadMutex.  Cancellation of a waiter is not part of this    *)
(* module (PthreadSemaphore has it for semaphores).                        *)
(***************************************************************************)
EXTENDS PthreadMutex

CONSTANTS Producers,     \* threads that make one item each
          Broadcasters,  \* the producers that broadcast
          MaxLeaves      \* bound on waits ended by a deadline or a signal

ASSUME CondAssumption ==
  /\ Broadcasters \subseteq Producers /\ Producers \subseteq Threads
  /\ MaxLeaves \in Nat
  /\ NoAddr # "sequence"

VARIABLES
  sequence,  \* the futex word of the condition variable
  seen,      \* the value each waiter read
  waiters,   \* cond_slot_t.waiters
  items,     \* what the monitor protects
  made,      \* producers whose item is in
  leaves     \* waits ended early so far

client == <<items, made, leaves>>
condvars == <<sequence, seen, waiters, client>>
vars == <<mutexvars, condvars>>

Consumers == Threads \ Producers

CondInit ==
  /\ MutexInit
  /\ sequence = 0
  /\ seen = [t \in Threads |-> 0]
  /\ waiters = 0
  /\ items = 0
  /\ made = {}
  /\ leaves = 0

-----------------------------------------------------------------------------
\* cond_wait_common() until it calls pthread_mutex_unlock(), which returns to
\* the futex wait.
CondWait(t) ==
  /\ depth[t] = 1
  /\ Unlock(t, "user", "cond_wait")
  /\ seen' = [seen EXCEPT ![t] = sequence]
  /\ waiters' = waiters + 1
  /\ UNCHANGED <<sequence, client>>

\* Mutant: the sequence is compared before task_lock is taken, not under it.
CondSleepBlindly(t) ==
  /\ pc[t] = "cond_wait"
  /\ FutexSleep(t, "sequence") /\ Goto(t, "cond_asleep")
  /\ UNCHANGED <<slotvars, how, ret, depth, condvars>>

\* Mutant: EAGAIN, and the same wait is tried again.
CondSleepRetries(t) ==
  /\ pc[t] = "cond_wait"
  /\ IF FutexMatches(sequence, seen[t])
     THEN FutexSleep(t, "sequence") /\ Goto(t, "cond_asleep")
     ELSE UNCHANGED <<pc, futex_wait_address>>
  /\ UNCHANGED <<slotvars, how, ret, depth, condvars>>

CondSleep(t) ==
  /\ pc[t] = "cond_wait"
  /\ IF FutexMatches(sequence, seen[t])
     THEN FutexSleep(t, "sequence") /\ Goto(t, "cond_asleep")
     ELSE Goto(t, "cond_relock") /\ UNCHANGED futex_wait_address
  /\ UNCHANGED <<slotvars, how, ret, depth, condvars>>

\* The wait ended, by a wake-up, or by a deadline or a signal.
CondWoken(t) ==
  /\ pc[t] = "cond_asleep"
  /\ ~Asleep(t)
  /\ Goto(t, "cond_relock")
  /\ UNCHANGED <<slotvars, how, ret, depth, futex_wait_address, condvars>>

CondLeave(t) ==
  /\ pc[t] = "cond_asleep"
  /\ leaves < MaxLeaves
  /\ leaves' = leaves + 1
  /\ FutexLeave(t)
  /\ Goto(t, "cond_relock")
  /\ UNCHANGED <<slotvars, how, ret, depth, sequence, seen, waiters, items, made>>

\* The tail of cond_wait_common(): the waiter is no longer counted and locks
\* the mutex again, whatever ended the wait.
CondRelock(t) ==
  /\ LockEnter(t, "lock", "cond_relock", "user")
  /\ waiters' = waiters - 1
  /\ UNCHANGED <<sequence, seen, client>>

\* pthread_cond_signal() and pthread_cond_broadcast(): the sequence, then
\* the wake-up of one or of all.
CondBump(t) ==
  /\ pc[t] = "notify"
  /\ sequence' = sequence + 1
  /\ Goto(t, "cond_wake")
  /\ UNCHANGED <<slotvars, how, ret, depth, futex_wait_address, seen, waiters, client>>

CondWake(t) ==
  /\ pc[t] = "cond_wake"
  /\ FutexWake("sequence", IF t \in Broadcasters THEN Cardinality(Threads) ELSE 1)
  /\ Goto(t, IF depth[t] > 0 THEN "user" ELSE "dead")
  /\ UNCHANGED <<slotvars, how, ret, depth, condvars>>

-----------------------------------------------------------------------------
\* The monitor.  A consumer that holds the mutex takes an item and leaves,
\* or waits; a producer adds its item and notifies before or after it
\* unlocks.
Enter(t) ==
  /\ depth[t] = 0
  /\ LockEnter(t, "lock", "user", "user")
  /\ UNCHANGED condvars

Consume(t) ==
  /\ t \in Consumers
  /\ items > 0
  /\ Unlock(t, "user", "dead")
  /\ items' = items - 1
  /\ UNCHANGED <<sequence, seen, waiters, made, leaves>>

WaitForItem(t) ==
  /\ t \in Consumers
  /\ items = 0
  /\ CondWait(t)

Produce(t) ==
  /\ t \in Producers \ made
  /\ depth[t] = 1
  /\ made' = made \cup {t}
  /\ items' = items + 1
  /\ UNCHANGED <<sequence, seen, waiters, leaves>>

ProduceThenNotify(t) == Produce(t) /\ Unlock(t, "user", "notify")

NotifyUnderMutex(t) ==
  /\ Produce(t)
  /\ pc[t] = "user"
  /\ Goto(t, "notify")
  /\ UNCHANGED <<slotvars, how, ret, depth, futex_wait_address>>

ProducerLeaves(t) ==
  /\ t \in made
  /\ Unlock(t, "user", "dead")
  /\ UNCHANGED condvars

CondStep(t) ==
  \/ MutexStep(t) /\ UNCHANGED condvars
  \/ CondSleep(t) \/ CondWoken(t) \/ CondRelock(t) \/ CondBump(t) \/ CondWake(t)

Monitor(t) ==
  \/ Enter(t) \/ Consume(t) \/ WaitForItem(t)
  \/ ProduceThenNotify(t) \/ NotifyUnderMutex(t) \/ ProducerLeaves(t)

CondNext == \E t \in Threads :
  \/ CondStep(t)
  \/ Monitor(t)
  \/ CondLeave(t)
  \/ /\ leaves < MaxLeaves
     /\ leaves' = leaves + 1
     /\ MutexInterrupted(t)
     /\ UNCHANGED <<sequence, seen, waiters, items, made>>

CondSpec == CondInit /\ [][CondNext]_vars

\* Threads run; nobody is promised a deadline or a signal.
CondRuns(t) == CondStep(t) \/ Monitor(t)
CondFairSpec == CondSpec /\ \A t \in Threads : WF_vars(CondRuns(t))

-----------------------------------------------------------------------------
CondTypeOK ==
  /\ MutexTypeOK
  /\ sequence \in 0..Cardinality(Producers)
  /\ seen \in [Threads -> 0..Cardinality(Producers)]
  /\ waiters \in 0..Cardinality(Consumers)
  /\ items \in 0..Cardinality(made)
  /\ made \subseteq Producers
  /\ leaves \in 0..MaxLeaves

\* No lost wake-up: while a consumer sleeps beside an available item, a
\* notification is under way, or another consumer is past its wait and will
\* take the item as soon as it has the mutex.
NoSleepBesideItem ==
  items > 0 /\ Sleepers("sequence") # {} =>
    \E t \in Threads :
      \/ pc[t] \in {"notify", "cond_wake"}
      \/ pc[t] \in {"release", "wake"} /\ ret[t] = "notify"
      \/ t \in Consumers /\ pc[t] # "dead" /\ ret[t] # "dead"
         /\ t \notin Sleepers("sequence")

\* With as many items as consumers, every consumer gets one.
Served == \A t \in Threads : pc[t] = "dead"
AllServed == <>[]Served
=============================================================================
