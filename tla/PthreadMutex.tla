---------------------------- MODULE PthreadMutex ----------------------------
(***************************************************************************)
(* One pthread mutex of newlib-port/pthread_sync.c: the three-valued futex *)
(* word, recursive and error-checking types, trylock and timedlock, and    *)
(* robust mutexes with owner death.  The accesses to word are atomic       *)
(* operations of the code and one action each; the fields that only the    *)
(* holder writes change together with the access that orders them.         *)
(*                                                                         *)
(* Relaxed and acquire/release orders are read as sequential consistency.  *)
(***************************************************************************)
EXTENDS Futex

CONSTANTS Type,      \* "NORMAL", "RECURSIVE" or "ERRORCHECK"
          Robust,    \* PTHREAD_MUTEX_ROBUST
          MaxDepth,  \* bound on recursion
          NoThread   \* owner of a free mutex

ASSUME MutexAssumption ==
  /\ IsFiniteSet(Threads)
  /\ NoThread \notin Threads
  /\ NoAddr # "word"
  /\ Robust \in BOOLEAN
  /\ MaxDepth \in Nat \ {0}

VARIABLES
  word,             \* 0 free, 1 held, 2 held and perhaps waited for
  owner,
  recursion,
  owner_dead,
  inconsistent,
  not_recoverable,
  pc,               \* where each thread is
  how,              \* the call it is in: "lock", "try" or "timed"
  ret,              \* where it goes when the call returns
  depth             \* locks it was granted and has not given back

flags == <<owner_dead, inconsistent, not_recoverable>>
slotvars == <<word, owner, recursion, owner_dead, inconsistent, not_recoverable>>
mutexvars == <<slotvars, pc, how, ret, depth, futex_wait_address>>

Goto(t, label) == pc' = [pc EXCEPT ![t] = label]

Return(t) == Goto(t, ret[t])

\* mutex_allocate(): the slot is zeroed.
MutexInit ==
  /\ FutexInit
  /\ word = 0
  /\ owner = NoThread
  /\ recursion = 0
  /\ owner_dead = FALSE
  /\ inconsistent = FALSE
  /\ not_recoverable = FALSE
  /\ pc = [t \in Threads |-> "user"]
  /\ how = [t \in Threads |-> "lock"]
  /\ ret = [t \in Threads |-> "user"]
  /\ depth = [t \in Threads |-> 0]

-----------------------------------------------------------------------------
\* mutex_lock_common() up to the first access to word: the owner's own
\* second lock, and a mutex that can no longer be recovered.
Relock(t) ==
  /\ pc[t] = "user"
  /\ owner = t
  /\ Type = "RECURSIVE"
  /\ recursion < MaxDepth
  /\ recursion' = recursion + 1
  /\ depth' = [depth EXCEPT ![t] = @ + 1]
  /\ UNCHANGED <<word, owner, flags, pc, how, ret, futex_wait_address>>

LockEnter(t, call, from, to) ==
  /\ pc[t] = from
  /\ owner # t
  /\ IF not_recoverable THEN Goto(t, to) ELSE Goto(t, "first")
  /\ how' = [how EXCEPT ![t] = call]
  /\ ret' = [ret EXCEPT ![t] = to]
  /\ UNCHANGED <<slotvars, depth, futex_wait_address>>

\* The compare-exchange of trylock and of mutex_take_word()'s fast path.
FirstTry(t) ==
  /\ pc[t] = "first"
  /\ IF word = 0
     THEN word' = 1 /\ Goto(t, "taken")
     ELSE UNCHANGED word /\ IF how[t] = "try" THEN Return(t) ELSE Goto(t, "slow")
  /\ UNCHANGED <<owner, recursion, flags, how, ret, depth, futex_wait_address>>

\* Mutant: the slow path stores 1, as the fast path does.
ExchangeOne(t) ==
  /\ pc[t] = "slow"
  /\ word' = IF word = 0 THEN 1 ELSE 2
  /\ Goto(t, IF word = 0 THEN "taken" ELSE "wait")
  /\ UNCHANGED <<owner, recursion, flags, how, ret, depth, futex_wait_address>>

\* Mutant: the slow path does not look at the value it replaced.
ExchangeBlindly(t) ==
  /\ pc[t] = "slow"
  /\ word' = 2
  /\ Goto(t, IF word = 2 THEN "wait" ELSE "taken")
  /\ UNCHANGED <<owner, recursion, flags, how, ret, depth, futex_wait_address>>

\* The loop of mutex_take_word().
Exchange(t) ==
  /\ pc[t] = "slow"
  /\ word' = 2
  /\ Goto(t, IF word = 0 THEN "taken" ELSE "wait")
  /\ UNCHANGED <<owner, recursion, flags, how, ret, depth, futex_wait_address>>

\* Mutant: EAGAIN, and the wait is tried again without another exchange.
MutexWaitRetries(t) ==
  /\ pc[t] = "wait"
  /\ IF FutexMatches(word, 2)
     THEN FutexSleep(t, "word") /\ Goto(t, "asleep")
     ELSE UNCHANGED <<pc, futex_wait_address>>
  /\ UNCHANGED <<slotvars, how, ret, depth>>

MutexWait(t) ==
  /\ pc[t] = "wait"
  /\ IF FutexMatches(word, 2)
     THEN FutexSleep(t, "word") /\ Goto(t, "asleep")
     ELSE Goto(t, "slow") /\ UNCHANGED futex_wait_address
  /\ UNCHANGED <<slotvars, how, ret, depth>>

\* FUTEX_WAIT returned 0: the loop starts again.
MutexWoken(t) ==
  /\ pc[t] = "asleep"
  /\ ~Asleep(t)
  /\ Goto(t, "slow")
  /\ UNCHANGED <<slotvars, how, ret, depth, futex_wait_address>>

\* EINTR or a spurious return: the loop starts again.
MutexInterrupted(t) ==
  /\ pc[t] = "asleep"
  /\ FutexLeave(t)
  /\ Goto(t, "slow")
  /\ UNCHANGED <<slotvars, how, ret, depth>>

\* ETIMEDOUT: the call returns without the mutex.
MutexTimeout(t) ==
  /\ pc[t] = "asleep"
  /\ how[t] = "timed"
  /\ FutexLeave(t)
  /\ Return(t)
  /\ UNCHANGED <<slotvars, how, ret, depth>>

\* Mutant: a mutex that became unrecoverable meanwhile is not looked at again.
TakenUnchecked(t) ==
  /\ pc[t] = "taken"
  /\ owner' = t
  /\ recursion' = 1
  /\ depth' = [depth EXCEPT ![t] = 1]
  /\ inconsistent' = (inconsistent \/ (Robust /\ owner_dead))
  /\ owner_dead' = (owner_dead /\ ~Robust)
  /\ Return(t)
  /\ UNCHANGED <<word, not_recoverable, how, ret, futex_wait_address>>

\* The tail of mutex_lock_common(): t has the word.  It becomes the owner,
\* and inherits the inconsistent state a dead owner left (EOWNERDEAD), or
\* gives the word back when the mutex became unrecoverable meanwhile.
Taken(t) ==
  /\ pc[t] = "taken"
  /\ IF not_recoverable
     THEN /\ word' = 0
          /\ IF word = 2 THEN Goto(t, "wake") ELSE Return(t)
          /\ UNCHANGED <<owner, recursion, flags, depth>>
     ELSE /\ owner' = t
          /\ recursion' = 1
          /\ depth' = [depth EXCEPT ![t] = 1]
          /\ inconsistent' = (inconsistent \/ (Robust /\ owner_dead))
          /\ owner_dead' = (owner_dead /\ ~Robust)
          /\ Return(t)
          /\ UNCHANGED <<word, not_recoverable>>
  /\ UNCHANGED <<how, ret, futex_wait_address>>

-----------------------------------------------------------------------------
\* pthread_mutex_unlock() up to the exchange of word: the caller owns the
\* mutex (EPERM otherwise).
Unlock(t, from, to) ==
  /\ pc[t] = from
  /\ owner = t
  /\ depth' = [depth EXCEPT ![t] = @ - 1]
  /\ ret' = [ret EXCEPT ![t] = to]
  /\ IF recursion > 1
     THEN /\ recursion' = recursion - 1
          /\ Goto(t, to)
          /\ UNCHANGED <<owner, flags>>
     ELSE /\ recursion' = 0
          /\ owner' = NoThread
          /\ not_recoverable' = (not_recoverable \/ (Robust /\ inconsistent))
          /\ inconsistent' = (inconsistent /\ ~Robust)
          /\ Goto(t, "release")
          /\ UNCHANGED owner_dead
  /\ UNCHANGED <<word, how, futex_wait_address>>

Release(t) ==
  /\ pc[t] = "release"
  /\ word' = 0
  /\ IF word = 2 THEN Goto(t, "wake") ELSE Return(t)
  /\ UNCHANGED <<owner, recursion, flags, how, ret, depth, futex_wait_address>>

WakeOne(t) ==
  /\ pc[t] = "wake"
  /\ FutexWake("word", 1)
  /\ Return(t)
  /\ UNCHANGED <<slotvars, how, ret, depth>>

pthread_mutex_consistent(t) ==
  /\ pc[t] = "user"
  /\ Robust
  /\ owner = t
  /\ inconsistent
  /\ inconsistent' = FALSE
  /\ UNCHANGED <<word, owner, recursion, owner_dead, not_recoverable,
                 pc, how, ret, depth, futex_wait_address>>

\* Mutant: an heir that dies in turn leaves its own flag behind.
ReleaseRobustKeepsFlag(t) ==
  /\ pc[t] = "user"
  /\ IF Robust /\ owner = t
     THEN /\ owner' = NoThread
          /\ recursion' = 0
          /\ owner_dead' = TRUE
          /\ depth' = [depth EXCEPT ![t] = 0]
          /\ Goto(t, "die_release")
     ELSE /\ Goto(t, "dead")
          /\ UNCHANGED <<owner, recursion, owner_dead, depth>>
  /\ UNCHANGED <<word, inconsistent, not_recoverable, how, ret, futex_wait_address>>

\* __armos_pthread_release_robust(), called by pthread_exit(): the state a
\* dying owner leaves, then the store to word, then the wake-up of everyone.
ReleaseRobust(t) ==
  /\ pc[t] = "user"
  /\ IF Robust /\ owner = t
     THEN /\ owner' = NoThread
          /\ recursion' = 0
          /\ inconsistent' = FALSE
          /\ owner_dead' = TRUE
          /\ depth' = [depth EXCEPT ![t] = 0]
          /\ Goto(t, "die_release")
     ELSE /\ Goto(t, "dead")
          /\ UNCHANGED <<owner, recursion, owner_dead, inconsistent, depth>>
  /\ UNCHANGED <<word, not_recoverable, how, ret, futex_wait_address>>

DieRelease(t) ==
  /\ pc[t] = "die_release"
  /\ word' = 0
  /\ Goto(t, "die_wake")
  /\ UNCHANGED <<owner, recursion, flags, how, ret, depth, futex_wait_address>>

DieWake(t) ==
  /\ pc[t] = "die_wake"
  /\ FutexWake("word", Cardinality(Threads))
  /\ Goto(t, "dead")
  /\ UNCHANGED <<slotvars, how, ret, depth>>

\* The steps a thread takes by itself once it is in a call.
MutexStep(t) ==
  \/ FirstTry(t)
  \/ Exchange(t)
  \/ MutexWait(t)
  \/ MutexWoken(t)
  \/ Taken(t)
  \/ Release(t)
  \/ WakeOne(t)
  \/ DieRelease(t)
  \/ DieWake(t)

-----------------------------------------------------------------------------
\* A program: it locks, unlocks what it holds, and its threads end only
\* without the mutex unless the mutex is robust.  It relocks only a mutex
\* whose type defines that.
Call(t) ==
  \/ \E call \in {"lock", "try", "timed"} : LockEnter(t, call, "user", "user")
  \/ Relock(t)
  \/ Unlock(t, "user", "user")
  \/ pthread_mutex_consistent(t)
  \/ (depth[t] = 0 \/ Robust) /\ ReleaseRobust(t)

Init == MutexInit

MutexAct(t) == MutexStep(t) \/ MutexInterrupted(t) \/ MutexTimeout(t) \/ Call(t)

Next == \E t \in Threads : MutexAct(t)

Spec == Init /\ [][Next]_mutexvars

\* Calls run to completion, and who holds the mutex gives it back or dies.
MutexRuns(t) == MutexStep(t) \/ Unlock(t, "user", "user")
FairSpec == Spec /\ \A t \in Threads : WF_mutexvars(MutexRuns(t))

-----------------------------------------------------------------------------
MutexTypeOK ==
  /\ word \in 0..2
  /\ owner \in Threads \cup {NoThread}
  /\ recursion \in 0..MaxDepth
  /\ owner_dead \in BOOLEAN
  /\ inconsistent \in BOOLEAN
  /\ not_recoverable \in BOOLEAN
  /\ how \in [Threads -> {"lock", "try", "timed"}]
  /\ depth \in [Threads -> 0..MaxDepth]

Labels == {"user", "first", "slow", "wait", "asleep", "taken", "release", "wake",
           "die_release", "die_wake", "dead"}

TypeOK ==
  /\ MutexTypeOK
  /\ futex_wait_address \in [Threads -> {"word", NoAddr}]
  /\ pc \in [Threads -> Labels]
  /\ ret \in [Threads -> {"user"}]

\* t has the word: from the access that took it to the one that frees it.
Holds(t) == owner = t \/ pc[t] \in {"taken", "release", "die_release"}

\* Mutual exclusion: at most one thread has the mutex, the word says so, and
\* the owner field names the thread whose lock() call was granted.
Exclusion ==
  /\ \A t, u \in Threads : Holds(t) /\ Holds(u) => t = u
  /\ word # 0 <=> \E t \in Threads : Holds(t)
  /\ \A t \in Threads : depth[t] = IF owner = t THEN recursion ELSE 0

\* No lost wake-up: while a thread sleeps for the mutex, either the word
\* tells the holder to wake someone, or a thread that is awake is bound to
\* wake a sleeper or to set the word to 2 again.
SleepersCovered ==
  Sleepers("word") # {} =>
    \/ word = 2
    \/ \E t \in Threads :
         \/ pc[t] \in {"slow", "wake", "die_wake"}
         \/ pc[t] = "asleep" /\ ~Asleep(t)

\* A robust mutex whose state was declared lost is never granted again, and
\* stays so: not_recoverable is sticky.
NeverRecovered ==
  [][not_recoverable =>
       /\ not_recoverable'
       /\ \A t \in Threads : depth'[t] <= depth[t]]_mutexvars

\* The inconsistent state a dead owner leaves has exactly one heir, who must
\* call pthread_mutex_consistent(): it is the current owner's business only.
OneHeir ==
  /\ inconsistent => owner # NoThread
  /\ ~(owner_dead /\ inconsistent)

\* What every step needs to know about the rest of the state: the owner is
\* in user code, only a thread that called FUTEX_WAIT sleeps, only a
\* robust mutex has a dead owner, and an unrecoverable one has no owner.
MutexInv ==
  /\ TypeOK
  /\ Exclusion
  /\ SleepersCovered
  /\ OneHeir
  /\ \A t \in Threads : owner = t => pc[t] = "user" /\ recursion > 0
  /\ \A t \in Threads : Asleep(t) => pc[t] = "asleep"
  /\ owner_dead \/ inconsistent => Robust
  /\ not_recoverable => owner = NoThread

\* Deadlock freedom: as long as threads wait for the mutex, some thread
\* gets it, or it is declared unrecoverable.
SomeoneLocks ==
  (\E t \in Threads : pc[t] \in {"slow", "wait", "asleep"} /\ how[t] = "lock")
    ~> (\E t \in Threads : depth[t] > 0) \/ not_recoverable
=============================================================================
