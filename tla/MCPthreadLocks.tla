--------------------------- MODULE MCPthreadLocks ---------------------------
(***************************************************************************)
(* Small instances of PthreadMutex, PthreadCond and PthreadBarrier for     *)
(* TLC.  What a behaviour uses is chosen at the start: the robust recursive *)
(* mutex by itself (three threads), the monitor with its mutex and         *)
(* condition variable (two consumers, two producers), or the barrier       *)
(* (three threads).  The rest keeps its initial state.                     *)
(***************************************************************************)
EXTENDS PthreadCond

CONSTANTS a, b, c, d   \* threads

VARIABLES
  object,              \* what is in use
  waiting, generation_word, b_pc, generation, entered, done, b_addr   \* the barrier

barriervars == <<waiting, generation_word, b_pc, generation, entered, done, b_addr>>
MCvars == <<object, vars, barriervars>>

Three == {a, b, c}
Four == {a, b, c, d}

Barrier == INSTANCE PthreadBarrier WITH
  Threads <- Three, Rounds <- 3, pc <- b_pc, futex_wait_address <- b_addr

ASSUME Barrier!BarrierAssumption

MCInit == object \in {"mutex", "monitor", "barrier"} /\ CondInit /\ Barrier!Init

OnlyMutex == object = "mutex" /\ UNCHANGED <<object, condvars, barriervars>>
OnlyMonitor == object = "monitor" /\ UNCHANGED <<object, barriervars>>
OnlyBarrier == object = "barrier" /\ UNCHANGED <<object, vars>>

MCNext ==
  \/ OnlyMutex /\ \E t \in Three : MutexAct(t)
  \/ OnlyMonitor /\ CondNext
  \/ OnlyBarrier /\ Barrier!Next

(* The fairness of the three specifications, for what is in use. *)
Runs(t) ==
  \/ OnlyMutex /\ t \in Three /\ MutexRuns(t)
  \/ OnlyMonitor /\ CondRuns(t)
  \/ OnlyBarrier /\ t \in Three /\ Barrier!Step(t)

MCSpec ==
  /\ MCInit /\ [][MCNext]_MCvars
  /\ \A t \in Four : WF_MCvars(Runs(t))

-----------------------------------------------------------------------------
(* Nobody leaves pthread_barrier_wait() before everyone has entered it,    *)
(* although fast threads are a round ahead of slow ones.                   *)
BarrierHolds == Barrier!BarrierHolds

(* PthreadCond's AllServed and PthreadBarrier's AllRoundsDone: every       *)
(* consumer of the monitor gets its item, pthread_cond_wait() leaves       *)
(* nobody asleep, and every barrier round completes.                       *)
WorkDone ==
  <>[](/\ object = "monitor" => Served
       /\ object = "barrier" => Barrier!RoundsDone)

(* Threads get on: someone gets a mutex that threads wait for, every       *)
(* consumer of the monitor its item, and every barrier round completes,    *)
(* although waits time out, wake early and are signalled.                  *)
LocksProgress == SomeoneLocks /\ WorkDone
=============================================================================
