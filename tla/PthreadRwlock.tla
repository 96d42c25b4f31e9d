--------------------------- MODULE PthreadRwlock ---------------------------
(***************************************************************************)
(* A read/write lock of newlib-port/pthread_sync.c: state counts readers   *)
(* or is -1 for a writer, readers stand back while a writer waits, and     *)
(* sleepers wait on a sequence word every unlock increments.  Every atomic *)
(* access another thread can observe is one action.                        *)
(***************************************************************************)
EXTENDS Futex, Integers

CONSTANTS Readers,    \* threads that take the lock for reading; the others write
          Tries,      \* threads that use tryrdlock and trywrlock
          Timed,      \* threads that use timedrdlock and timedwrlock
          MaxUnlocks, \* bound on the unlock calls
          NoThread

RwlockAssumption ==
  /\ IsFiniteSet(Threads)
  /\ Readers \subseteq Threads
  /\ Tries \subseteq Threads /\ Timed \subseteq Threads \ Tries
  /\ NoAddr # "sequence"
  /\ MaxUnlocks \in Nat
  /\ NoThread \notin Threads

VARIABLES
  state,            \* readers inside, or -1
  sequence,
  waiting_writers,
  writer,
  pc,
  saw,              \* the state a reader loaded
  seen,             \* the sequence a thread loaded
  unlocks

slot == <<state, sequence, waiting_writers, writer>>
vars == <<slot, pc, saw, seen, unlocks, futex_wait_address>>

Writers == Threads \ Readers

Goto(t, label) == pc' = [pc EXCEPT ![t] = label]

Init ==
  /\ FutexInit
  /\ state = 0
  /\ sequence = 0
  /\ waiting_writers = 0
  /\ writer = NoThread
  /\ pc = [t \in Threads |-> "user"]
  /\ saw = [t \in Threads |-> 0]
  /\ seen = [t \in Threads |-> 0]
  /\ unlocks = 0

-----------------------------------------------------------------------------
\* rwlock_rdlock_common(): load state; look at waiting_writers if no writer
\* is inside; enter by compare-exchange; else sleep (or give up).
ReadLoad(t) ==
  /\ pc[t] \in {"user", "read"}
  /\ t \in Readers
  /\ pc[t] = "user" => unlocks < MaxUnlocks
  /\ saw' = [saw EXCEPT ![t] = state]
  /\ Goto(t, IF state >= 0 THEN "read_check"
             ELSE IF t \in Tries THEN "user" ELSE "load_sequence")
  /\ UNCHANGED <<slot, seen, unlocks, futex_wait_address>>

ReadCheck(t) ==
  /\ pc[t] = "read_check"
  /\ Goto(t, IF waiting_writers = 0 THEN "read_enter"
             ELSE IF t \in Tries THEN "user" ELSE "load_sequence")
  /\ UNCHANGED <<slot, saw, seen, unlocks, futex_wait_address>>

\* Mutant: an increment instead of the compare-exchange.
ReadEnterByAdd(t) ==
  /\ pc[t] = "read_enter"
  /\ state' = state + 1
  /\ Goto(t, "reading")
  /\ UNCHANGED <<sequence, waiting_writers, writer, saw, seen, unlocks, futex_wait_address>>

ReadEnter(t) ==
  /\ pc[t] = "read_enter"
  /\ IF state = saw[t]
     THEN state' = state + 1 /\ Goto(t, "reading")
     ELSE UNCHANGED state /\ Goto(t, "read")
  /\ UNCHANGED <<sequence, waiting_writers, writer, saw, seen, unlocks, futex_wait_address>>

\* rwlock_wrlock_common(): announce the writer, then enter a free lock by
\* compare-exchange; else sleep (or give up).
WriteAnnounce(t) ==
  /\ pc[t] = "user"
  /\ t \in Writers
  /\ unlocks < MaxUnlocks
  /\ waiting_writers' = waiting_writers + 1
  /\ Goto(t, "write")
  /\ UNCHANGED <<state, sequence, writer, saw, seen, unlocks, futex_wait_address>>

WriteEnter(t) ==
  /\ pc[t] = "write"
  /\ IF state = 0
     THEN state' = -1 /\ Goto(t, "write_in")
     ELSE UNCHANGED state /\ Goto(t, IF t \in Tries THEN "write_out" ELSE "load_sequence")
  /\ UNCHANGED <<sequence, waiting_writers, writer, saw, seen, unlocks, futex_wait_address>>

WriteIn(t) ==
  /\ pc[t] = "write_in"
  /\ waiting_writers' = waiting_writers - 1
  /\ writer' = t
  /\ Goto(t, "writing")
  /\ UNCHANGED <<state, sequence, saw, seen, unlocks, futex_wait_address>>

\* Mutant: a writer that gives up stays announced.
WriteOutAnnounced(t) ==
  /\ pc[t] = "write_out"
  /\ Goto(t, "user")
  /\ UNCHANGED <<slot, saw, seen, unlocks, futex_wait_address>>

\* A writer that gives up is no longer announced.
WriteOut(t) ==
  /\ pc[t] = "write_out"
  /\ waiting_writers' = waiting_writers - 1
  /\ Goto(t, "user")
  /\ UNCHANGED <<state, sequence, writer, saw, seen, unlocks, futex_wait_address>>

-----------------------------------------------------------------------------
\* Both loops wait the same way: load the sequence, sleep while it stays.
LoadSequence(t) ==
  /\ pc[t] = "load_sequence"
  /\ seen' = [seen EXCEPT ![t] = sequence]
  /\ Goto(t, "wait")
  /\ UNCHANGED <<slot, saw, unlocks, futex_wait_address>>

Again(t) == IF t \in Readers THEN "read" ELSE "write"

Wait(t) ==
  /\ pc[t] = "wait"
  /\ IF FutexMatches(sequence, seen[t])
     THEN FutexSleep(t, "sequence") /\ Goto(t, "asleep")
     ELSE Goto(t, Again(t)) /\ UNCHANGED futex_wait_address
  /\ UNCHANGED <<slot, saw, seen, unlocks>>

Woken(t) ==
  /\ pc[t] = "asleep"
  /\ ~Asleep(t)
  /\ Goto(t, Again(t))
  /\ UNCHANGED <<slot, saw, seen, unlocks, futex_wait_address>>

Interrupted(t) ==
  /\ pc[t] = "asleep"
  /\ FutexLeave(t)
  /\ Goto(t, Again(t))
  /\ UNCHANGED <<slot, saw, seen, unlocks>>

Timeout(t) ==
  /\ pc[t] = "asleep"
  /\ t \in Timed
  /\ FutexLeave(t)
  /\ Goto(t, IF t \in Readers THEN "user" ELSE "write_out")
  /\ UNCHANGED <<slot, saw, seen, unlocks>>

-----------------------------------------------------------------------------
\* pthread_rwlock_unlock(): the caller's state is the one it loads, since
\* it is inside; it leaves, increments the sequence and wakes everyone.
Unlock(t) ==
  /\ pc[t] \in {"reading", "writing"}
  /\ unlocks' = unlocks + 1
  /\ IF state = -1
     THEN state' = 0 /\ writer' = NoThread
     ELSE state' = state - 1 /\ UNCHANGED writer
  /\ Goto(t, "unlock_bump")
  /\ UNCHANGED <<sequence, waiting_writers, saw, seen, futex_wait_address>>

UnlockBump(t) ==
  /\ pc[t] = "unlock_bump"
  /\ sequence' = sequence + 1
  /\ Goto(t, "unlock_wake")
  /\ UNCHANGED <<state, waiting_writers, writer, saw, seen, unlocks, futex_wait_address>>

UnlockWake(t) ==
  /\ pc[t] = "unlock_wake"
  /\ FutexWake("sequence", Cardinality(Threads))
  /\ Goto(t, "user")
  /\ UNCHANGED <<slot, saw, seen, unlocks>>

Next == \E t \in Threads :
  \/ ReadLoad(t) \/ ReadCheck(t) \/ ReadEnter(t)
  \/ WriteAnnounce(t) \/ WriteEnter(t) \/ WriteIn(t) \/ WriteOut(t)
  \/ LoadSequence(t) \/ Wait(t) \/ Woken(t) \/ Interrupted(t) \/ Timeout(t)
  \/ Unlock(t) \/ UnlockBump(t) \/ UnlockWake(t)

Spec == Init /\ [][Next]_vars

-----------------------------------------------------------------------------
TypeOK ==
  /\ state \in -1..Cardinality(Readers)
  /\ sequence \in 0..(MaxUnlocks + Cardinality(Threads))
  /\ waiting_writers \in 0..Cardinality(Writers)
  /\ writer \in Threads \cup {NoThread}
  /\ pc \in [Threads -> {"user", "read", "read_check", "read_enter", "reading",
       "write", "write_in", "write_out", "writing", "load_sequence", "wait",
       "asleep", "unlock_bump", "unlock_wake"}]

Reading == {t \in Threads : pc[t] = "reading"}
Writing == {t \in Threads : pc[t] \in {"write_in", "writing"}}

\* A writer excludes everyone, and state counts who is inside.
RwExclusion ==
  /\ Writing # {} => Cardinality(Writing) = 1 /\ Reading = {} /\ state = -1
  /\ Writing = {} => state = Cardinality(Reading)

\* Readers stand back for exactly the writers that wait: the counter neither
\* leaks when a writer gives up, which would lock readers out for ever, nor
\* forgets one.
WaitingWritersExact ==
  waiting_writers = Cardinality({t \in Writers :
    pc[t] \in {"write", "write_in", "write_out", "load_sequence", "wait", "asleep"}})

\* No lost wake-up: while a thread sleeps for the lock, some thread is
\* inside, or is awake in a call that will let it in or wake it.
\* Does not hold (README, Deviations).
SomeoneCares ==
  Sleepers("sequence") # {} =>
    \E t \in Threads : pc[t] # "user" /\ ~Asleep(t)
=============================================================================
