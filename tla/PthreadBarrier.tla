--------------------------- MODULE PthreadBarrier ---------------------------
(***************************************************************************)
(* A barrier of newlib-port/pthread_sync.c, used for several rounds by as  *)
(* many threads as it was initialised for.  The last thread to arrive      *)
(* resets waiting, increments generation_word and wakes the others, who    *)
(* sleep while the generation they read on arrival lasts.                  *)
(***************************************************************************)
EXTENDS Futex

CONSTANT Rounds    \* bound on the rounds

BarrierAssumption ==
  /\ IsFiniteSet(Threads)
  /\ Rounds \in Nat
  /\ NoAddr # "generation_word"

VARIABLES
  waiting,
  generation_word,
  pc,
  generation,  \* the generation each thread read
  entered,     \* rounds it has entered
  done         \* rounds it has left

slot == <<waiting, generation_word>>
ghost == <<entered, done>>
vars == <<slot, pc, generation, ghost, futex_wait_address>>

\* barrier_slot_t.count: one for every thread.
Count == Cardinality(Threads)

Goto(t, label) == pc' = [pc EXCEPT ![t] = label]

Init ==
  /\ FutexInit
  /\ waiting = 0
  /\ generation_word = 0
  /\ pc = [t \in Threads |-> "user"]
  /\ generation = [t \in Threads |-> 0]
  /\ entered = [t \in Threads |-> 0]
  /\ done = [t \in Threads |-> 0]

\* pthread_barrier_wait() reads the generation ...
Arrive(t) ==
  /\ pc[t] = "user"
  /\ entered[t] < Rounds
  /\ generation' = [generation EXCEPT ![t] = generation_word]
  /\ Goto(t, "count")
  /\ UNCHANGED <<slot, ghost, futex_wait_address>>

\* Mutant: one thread too few completes the round.
CountInEarly(t) ==
  /\ pc[t] = "count"
  /\ waiting' = waiting + 1
  /\ entered' = [entered EXCEPT ![t] = @ + 1]
  /\ Goto(t, IF waiting + 2 >= Count THEN "reset" ELSE "test")
  /\ UNCHANGED <<generation_word, generation, done, futex_wait_address>>

\* ... and counts itself in.
CountIn(t) ==
  /\ pc[t] = "count"
  /\ waiting' = waiting + 1
  /\ entered' = [entered EXCEPT ![t] = @ + 1]
  /\ Goto(t, IF waiting + 1 = Count THEN "reset" ELSE "test")
  /\ UNCHANGED <<generation_word, generation, done, futex_wait_address>>

\* The last thread: reset, open the next generation, wake everyone.
Reset(t) ==
  /\ pc[t] = "reset"
  /\ waiting' = 0
  /\ Goto(t, "open")
  /\ UNCHANGED <<generation_word, generation, ghost, futex_wait_address>>

Open(t) ==
  /\ pc[t] = "open"
  /\ generation_word' = generation_word + 1
  /\ Goto(t, "wake")
  /\ UNCHANGED <<waiting, generation, ghost, futex_wait_address>>

\* Mutant: one sleeper is woken.
WakeOneOnly(t) ==
  /\ pc[t] = "wake"
  /\ FutexWake("generation_word", 1)
  /\ done' = [done EXCEPT ![t] = @ + 1]
  /\ Goto(t, "user")
  /\ UNCHANGED <<slot, generation, entered>>

Wake(t) ==
  /\ pc[t] = "wake"
  /\ FutexWake("generation_word", Count)
  /\ done' = [done EXCEPT ![t] = @ + 1]
  /\ Goto(t, "user")
  /\ UNCHANGED <<slot, generation, entered>>

\* The others: wait while the generation is the one they read.
Test(t) ==
  /\ pc[t] = "test"
  /\ IF generation_word = generation[t]
     THEN Goto(t, "wait") /\ UNCHANGED done
     ELSE Goto(t, "user") /\ done' = [done EXCEPT ![t] = @ + 1]
  /\ UNCHANGED <<slot, generation, entered, futex_wait_address>>

Wait(t) ==
  /\ pc[t] = "wait"
  /\ IF FutexMatches(generation_word, generation[t])
     THEN FutexSleep(t, "generation_word") /\ Goto(t, "asleep")
     ELSE Goto(t, "test") /\ UNCHANGED futex_wait_address
  /\ UNCHANGED <<slot, generation, ghost>>

Woken(t) ==
  /\ pc[t] = "asleep"
  /\ ~Asleep(t)
  /\ Goto(t, "test")
  /\ UNCHANGED <<slot, generation, ghost, futex_wait_address>>

\* EINTR: the loop tests the generation again.
Interrupted(t) ==
  /\ pc[t] = "asleep"
  /\ FutexLeave(t)
  /\ Goto(t, "test")
  /\ UNCHANGED <<slot, generation, ghost>>

Step(t) ==
  \/ Arrive(t) \/ CountIn(t) \/ Reset(t) \/ Open(t) \/ Wake(t)
  \/ Test(t) \/ Wait(t) \/ Woken(t)

Next == \E t \in Threads : Step(t) \/ Interrupted(t)

Spec == Init /\ [][Next]_vars

\* Every thread runs, and comes to the barrier for every round.
FairSpec == Spec /\ \A t \in Threads : WF_vars(Step(t))

-----------------------------------------------------------------------------
TypeOK ==
  /\ waiting \in 0..Count
  /\ generation_word \in 0..Rounds
  /\ pc \in [Threads -> {"user", "count", "reset", "open", "wake", "test", "wait", "asleep"}]
  /\ generation \in [Threads -> 0..Rounds]
  /\ entered \in [Threads -> 0..Rounds]
  /\ done \in [Threads -> 0..Rounds]

\* Nobody leaves a round that some thread has not entered, although fast
\* threads enter the next round while slow ones are still leaving this one.
BarrierHolds == \A t, u \in Threads : done[t] <= entered[u]

\* All rounds complete: no thread is left asleep in the barrier.
RoundsDone == \A t \in Threads : done[t] = Rounds
AllRoundsDone == <>RoundsDone
=============================================================================
