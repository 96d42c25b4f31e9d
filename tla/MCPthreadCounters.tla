------------------------- MODULE MCPthreadCounters -------------------------
(***************************************************************************)
(* Small instances of PthreadSemaphore, PthreadRwlock and PthreadThread    *)
(* for TLC.  Each has variables of its own; a behaviour uses one of them,  *)
(* chosen at the start, and the others keep their initial states.          *)
(***************************************************************************)
EXTENDS PthreadSemaphore, TLC

CONSTANTS w1, w2, p1, p2,   \* threads that use the semaphore
          r1, r2, r3, r4,   \* threads that use the lock, or create each other
          NoThread

VARIABLES
  object,                                                           \* what is in use
  state, rw_sequence, waiting_writers, writer, rw_pc, rw_saw, rw_seen, unlocks, rw_addr,
  thread_table, known, detached, joined, finished, alive_tid, freed, destroys,
  th_pc, control, th_addr

threadvars == <<thread_table, known, detached, joined, finished, alive_tid, freed, destroys,
                th_pc, control, th_addr>>
rwlockvars == <<state, rw_sequence, waiting_writers, writer, rw_pc, rw_saw, rw_seen,
                unlocks, rw_addr>>

TwoAndTwo == {w1, w2, p1, p2}
TwoPosters == {p1, p2}
Four == {r1, r2, r3, r4}

(* Nothing tells the posters apart. *)
Symmetry == Permutations(TwoPosters)

(* Two readers and two writers; of each, one tries and one has a deadline. *)
Rwlock == INSTANCE PthreadRwlock WITH
  Threads <- Four, Readers <- {r1, r2}, Tries <- {r2, r4}, Timed <- {r1, r3},
  MaxUnlocks <- 3, sequence <- rw_sequence, pc <- rw_pc, saw <- rw_saw, seen <- rw_seen,
  futex_wait_address <- rw_addr

ASSUME Rwlock!RwlockAssumption

(* The main thread r1 and three others, one of which may be cancelled, in  *)
(* a table for two.                                                        *)
Thread == INSTANCE PthreadThread WITH
  Threads <- Four, Children <- {r2, r3, r4}, Attrs <- {"joinable"}, TableSize <- 2,
  Cancelled <- {r2}, pc <- th_pc, futex_wait_address <- th_addr

ASSUME Thread!ThreadAssumption

MCInit ==
  /\ object \in {"semaphore", "rwlock", "thread"}
  /\ Init
  /\ Rwlock!Init
  /\ Thread!Init

MCNext ==
  \/ object = "semaphore" /\ Next /\ UNCHANGED <<object, rwlockvars, threadvars>>
  \/ object = "rwlock" /\ Rwlock!Next /\ UNCHANGED <<object, vars, threadvars>>
  \/ object = "thread" /\ Thread!Next /\ UNCHANGED <<object, vars, rwlockvars>>

MCSpec == MCInit /\ [][MCNext]_<<object, vars, rwlockvars, threadvars>>

-----------------------------------------------------------------------------
(* A writer inside rwlock_slot_t excludes everyone, state counts who is    *)
(* inside, and readers stand back for exactly the writers that wait:       *)
(* waiting_writers neither leaks when a writer gives up nor forgets one.   *)
RwExclusion == Rwlock!TypeOK /\ Rwlock!RwExclusion /\ Rwlock!WaitingWritersExact

(* No control block is used or freed once it is freed, and no joiner's     *)
(* wake-up passes it by.                                                   *)
JoinsSafe == Thread!TypeOK /\ Thread!ControlsLive /\ Thread!JoinerWoken
=============================================================================
