-------------------------- MODULE PthreadSemaphore --------------------------
(***************************************************************************)
(* An unnamed semaphore of newlib-port/pthread_sync.c and the deferred     *)
(* cancellation of a thread that waits on it (newlib-port/pthread.c).  The *)
(* value is taken and given back by compare-exchange; waiters sleep on a   *)
(* separate sequence word that sem_post() increments.  Every atomic access *)
(* another thread can observe is one action.                               *)
(***************************************************************************)
EXTENDS Futex, Integers

CONSTANTS Posters,        \* threads that post; the others wait
          Cancelled,      \* waiters that pthread_cancel() is called for
          SEM_VALUE_MAX,
          Initial,        \* the value given to sem_init()
          MaxPosts,       \* bound on the posts
          MaxWaits        \* bound on the waits that get the semaphore

ASSUME SemaphoreAssumption ==
  /\ IsFiniteSet(Threads)
  /\ Posters \subseteq Threads
  /\ Cancelled \subseteq Threads \ Posters
  /\ NoAddr # "sequence"
  /\ SEM_VALUE_MAX \in Nat /\ Initial \in 0..SEM_VALUE_MAX
  /\ MaxPosts \in Nat /\ MaxWaits \in Nat

VARIABLES
  value,
  sequence,
  waiters,
  pc,
  saw,                    \* the value a thread loaded last
  seen,                   \* the sequence it loaded last
  how,                    \* the call it is in: "wait", "try" or "timed"
  posts,                  \* sem_post() calls so far that added one
  gots,                   \* sem_wait() calls so far that took one
  cancel_pending,
  cancel_address,         \* cancel_address is &slot->sequence, not NULL
  cancel_address_changes,
  cancel                  \* how far pthread_cancel(t) is, and what it loaded

slot == <<value, sequence, waiters>>
local == <<saw, seen, how>>
count == <<posts, gots>>
cancelvars == <<cancel_pending, cancel_address, cancel_address_changes, cancel>>
vars == <<slot, pc, local, count, cancelvars, futex_wait_address>>

Waiters == Threads \ Posters

Goto(t, label) == pc' = [pc EXCEPT ![t] = label]

Init ==
  /\ FutexInit
  /\ value = Initial
  /\ sequence = 0
  /\ waiters = 0
  /\ pc = [t \in Threads |-> "user"]
  /\ saw = [t \in Threads |-> 0]
  /\ seen = [t \in Threads |-> 0]
  /\ how = [t \in Threads |-> "wait"]
  /\ posts = 0
  /\ gots = 0
  /\ cancel_pending = [t \in Threads |-> FALSE]
  /\ cancel_address = [t \in Threads |-> FALSE]
  /\ cancel_address_changes = [t \in Threads |-> FALSE]
  /\ cancel = [t \in Threads |-> "no"]

-----------------------------------------------------------------------------
\* sem_wait(), sem_trywait() or sem_timedwait() is called.
Call(t) ==
  /\ pc[t] = "user"
  /\ t \in Waiters
  /\ gots < MaxWaits
  /\ \E call \in {"wait", "try", "timed"} : how' = [how EXCEPT ![t] = call]
  /\ Goto(t, "load")
  /\ UNCHANGED <<slot, saw, seen, count, cancelvars, futex_wait_address>>

\* Where a caller that finds no token goes: sem_trywait() returns EAGAIN.
NoToken(t) == IF how[t] = "try" THEN "user" ELSE "sequence"

LoadValue(t) ==
  /\ pc[t] = "load"
  /\ saw' = [saw EXCEPT ![t] = value]
  /\ Goto(t, IF value > 0 THEN "take" ELSE NoToken(t))
  /\ UNCHANGED <<slot, seen, how, count, cancelvars, futex_wait_address>>

\* Mutant: a store instead of the compare-exchange.
TakeByStore(t) ==
  /\ pc[t] = "take"
  /\ value' = saw[t] - 1
  /\ gots' = gots + 1
  /\ Goto(t, "user")
  /\ UNCHANGED <<sequence, waiters, local, posts, cancelvars, futex_wait_address>>

\* The compare-exchange of sem_wait_common(); one that fails loads the value.
Take(t) ==
  /\ pc[t] = "take"
  /\ IF value = saw[t]
     THEN /\ value' = value - 1
          /\ gots' = gots + 1
          /\ Goto(t, "user")
          /\ UNCHANGED saw
     ELSE /\ saw' = [saw EXCEPT ![t] = value]
          /\ Goto(t, IF value > 0 THEN "take" ELSE NoToken(t))
          /\ UNCHANGED <<value, gots>>
  /\ UNCHANGED <<sequence, waiters, seen, how, posts, cancelvars, futex_wait_address>>

LoadSequence(t) ==
  /\ pc[t] = "sequence"
  /\ seen' = [seen EXCEPT ![t] = sequence]
  /\ Goto(t, "check")
  /\ UNCHANGED <<slot, saw, how, count, cancelvars, futex_wait_address>>

\* pthread_testcancel() before the wait, which is then counted.
TestCancel(t) ==
  /\ pc[t] = "check"
  /\ IF cancel_pending[t]
     THEN Goto(t, "cancelled") /\ UNCHANGED waiters
     ELSE Goto(t, "publish") /\ waiters' = waiters + 1
  /\ UNCHANGED <<value, sequence, local, count, cancelvars, futex_wait_address>>

\* What pthread_cancel() needs to end the wait: the address, and that the
\* word behind it may be changed.
PublishAddress(t) ==
  /\ pc[t] = "publish"
  /\ cancel_address' = [cancel_address EXCEPT ![t] = TRUE]
  /\ Goto(t, "publish_changes")
  /\ UNCHANGED <<slot, local, count, cancel_pending, cancel_address_changes, cancel,
                 futex_wait_address>>

PublishChanges(t) ==
  /\ pc[t] = "publish_changes"
  /\ cancel_address_changes' = [cancel_address_changes EXCEPT ![t] = TRUE]
  /\ Goto(t, "enter")
  /\ UNCHANGED <<slot, local, count, cancel_pending, cancel_address, cancel,
                 futex_wait_address>>

\* __armos_pthread_wait() publishes the same address again and withdraws
\* the permission to change it.
EnterWait(t) ==
  /\ pc[t] = "enter"
  /\ cancel_address_changes' = [cancel_address_changes EXCEPT ![t] = FALSE]
  /\ Goto(t, "wait")
  /\ UNCHANGED <<slot, local, count, cancel_pending, cancel_address, cancel,
                 futex_wait_address>>

Wait(t) ==
  /\ pc[t] = "wait"
  /\ IF FutexMatches(sequence, seen[t])
     THEN FutexSleep(t, "sequence") /\ Goto(t, "asleep")
     ELSE Goto(t, "leave") /\ UNCHANGED futex_wait_address
  /\ UNCHANGED <<slot, local, count, cancelvars>>

Woken(t) ==
  /\ pc[t] = "asleep"
  /\ ~Asleep(t)
  /\ Goto(t, "leave")
  /\ UNCHANGED <<slot, local, count, cancelvars, futex_wait_address>>

Interrupted(t) ==
  /\ pc[t] = "asleep"
  /\ FutexLeave(t)
  /\ Goto(t, "leave")
  /\ UNCHANGED <<slot, local, count, cancelvars>>

Timeout(t) ==
  /\ pc[t] = "asleep"
  /\ how[t] = "timed"
  /\ FutexLeave(t)
  /\ Goto(t, "leave_timeout")
  /\ UNCHANGED <<slot, local, count, cancelvars>>

\* After the wait: the address is withdrawn, the wait no longer counted, the
\* cancellation honoured, and the loop starts again unless time is up.
Leave(t) ==
  /\ pc[t] \in {"leave", "leave_timeout"}
  /\ cancel_address' = [cancel_address EXCEPT ![t] = FALSE]
  /\ waiters' = waiters - 1
  /\ Goto(t, IF cancel_pending[t] THEN "cancelled"
             ELSE IF pc[t] = "leave" THEN "load" ELSE "user")
  /\ UNCHANGED <<value, sequence, local, count, cancel_pending,
                 cancel_address_changes, cancel, futex_wait_address>>

-----------------------------------------------------------------------------
\* sem_post(): load the value, add one by compare-exchange unless it is at
\* SEM_VALUE_MAX, increment the sequence, wake one.
PostLoad(t) ==
  /\ pc[t] = "user"
  /\ t \in Posters
  /\ posts < MaxPosts
  /\ saw' = [saw EXCEPT ![t] = value]
  /\ Goto(t, "post")
  /\ UNCHANGED <<slot, seen, how, count, cancelvars, futex_wait_address>>

PostAdd(t) ==
  /\ pc[t] = "post"
  /\ CASE saw[t] = SEM_VALUE_MAX ->
            Goto(t, "user") /\ UNCHANGED <<value, posts, saw>>
       [] saw[t] # SEM_VALUE_MAX /\ value = saw[t] ->
            /\ value' = value + 1
            /\ posts' = posts + 1
            /\ Goto(t, "bump")
            /\ UNCHANGED saw
       [] saw[t] # SEM_VALUE_MAX /\ value # saw[t] ->
            /\ saw' = [saw EXCEPT ![t] = value]
            /\ UNCHANGED <<value, posts, pc>>
  /\ UNCHANGED <<sequence, waiters, seen, how, gots, cancelvars, futex_wait_address>>

PostBump(t) ==
  /\ pc[t] = "bump"
  /\ sequence' = sequence + 1
  /\ Goto(t, "post_wake")
  /\ UNCHANGED <<value, waiters, local, count, cancelvars, futex_wait_address>>

PostWake(t) ==
  /\ pc[t] = "post_wake"
  /\ FutexWake("sequence", 1)
  /\ Goto(t, "user")
  /\ UNCHANGED <<slot, local, count, cancelvars>>

-----------------------------------------------------------------------------
\* pthread_cancel(t), called once for each thread of Cancelled: set
\* cancel_pending; load the address; if it may change, increment the word;
\* wake everyone asleep on the address.
CancelPending(t) ==
  /\ cancel[t] = "no"
  /\ t \in Cancelled
  /\ cancel_pending' = [cancel_pending EXCEPT ![t] = TRUE]
  /\ cancel' = [cancel EXCEPT ![t] = "pending"]
  /\ UNCHANGED <<slot, pc, local, count, cancel_address, cancel_address_changes,
                 futex_wait_address>>

CancelLoad(t) ==
  /\ cancel[t] = "pending"
  /\ cancel' = [cancel EXCEPT ![t] = IF cancel_address[t] THEN "bump" ELSE "done"]
  /\ UNCHANGED <<slot, pc, local, count, cancel_pending, cancel_address,
                 cancel_address_changes, futex_wait_address>>

CancelBump(t) ==
  /\ cancel[t] = "bump"
  /\ sequence' = sequence + (IF cancel_address_changes[t] THEN 1 ELSE 0)
  /\ cancel' = [cancel EXCEPT ![t] = "wake"]
  /\ UNCHANGED <<value, waiters, pc, local, count, cancel_pending, cancel_address,
                 cancel_address_changes, futex_wait_address>>

CancelWake(t) ==
  /\ cancel[t] = "wake"
  /\ FutexWake("sequence", Cardinality(Threads))
  /\ cancel' = [cancel EXCEPT ![t] = "done"]
  /\ UNCHANGED <<slot, pc, local, count, cancel_pending, cancel_address,
                 cancel_address_changes>>

-----------------------------------------------------------------------------
WaitStep(t) ==
  \/ LoadValue(t) \/ Take(t) \/ LoadSequence(t) \/ TestCancel(t)
  \/ PublishAddress(t) \/ PublishChanges(t) \/ EnterWait(t)
  \/ Wait(t) \/ Woken(t) \/ Leave(t)

PostStep(t) == PostAdd(t) \/ PostBump(t) \/ PostWake(t)

CancelStep(t) == CancelLoad(t) \/ CancelBump(t) \/ CancelWake(t)

Next == \E t \in Threads :
  \/ Call(t) \/ WaitStep(t) \/ Interrupted(t) \/ Timeout(t)
  \/ PostLoad(t) \/ PostStep(t)
  \/ CancelPending(t) \/ CancelStep(t)

Spec == Init /\ [][Next]_vars

-----------------------------------------------------------------------------
TypeOK ==
  /\ value \in 0..SEM_VALUE_MAX
  /\ sequence \in 0..(MaxPosts + Cardinality(Posters) + Cardinality(Cancelled))
  /\ waiters \in 0..Cardinality(Waiters)
  /\ pc \in [Threads -> {"user", "load", "take", "sequence", "check", "publish",
       "publish_changes", "enter", "wait", "asleep", "leave", "leave_timeout",
       "cancelled", "post", "bump", "post_wake"}]
  /\ cancel \in [Threads -> {"no", "pending", "bump", "wake", "done"}]
  /\ how \in [Threads -> {"wait", "try", "timed"}]
  /\ cancel_pending \in [Threads -> BOOLEAN]

\* Tokens are neither made nor lost: however waits, posts, deadlines and
\* cancellations interleave, the value is what sem_init() gave, plus the
\* posts, minus the waits that succeeded, and it keeps to SEM_VALUE_MAX (with
\* the other types).
TokensConserved == value = Initial + posts - gots /\ TypeOK

\* No lost wake-up: while a thread sleeps in sem_wait() although the value
\* is positive, a post is still to wake someone or another waiter is awake
\* and will try to take it.
\* Does not hold (README, Deviations).
NoSleepBesideToken ==
  value > 0 /\ Sleepers("sequence") # {} =>
    \E t \in Threads :
      \/ pc[t] \in {"bump", "post_wake"}
      \/ pc[t] \notin {"user", "cancelled"} /\ t \in Waiters /\ ~Asleep(t)

\* Deferred cancellation reaches a waiter: once pthread_cancel() has
\* returned, its target does not sleep in sem_wait().
\* Does not hold (README, Deviations).
CancelReaches ==
  \A t \in Cancelled : cancel[t] = "done" => ~Asleep(t)
=============================================================================
