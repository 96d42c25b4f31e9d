---------------------------- MODULE MCLifecycle ----------------------------
(***************************************************************************)
(* Small instances of Lifecycle for TLC.  In the "reports" program parents *)
(* want to know how their children ended; in the "jobs" program children   *)
(* are stopped and continued, and waits are interrupted by signals; in the *)
(* "ignoring" program children are stopped and continued, and parents may  *)
(* set SIGCHLD to SIG_IGN.  In the "cow" and "shm" programs the same calls *)
(* are looked at from the side of Memory: three generations share a        *)
(* private page; two processes share the pages of an object.               *)
(***************************************************************************)
EXTENDS Lifecycle

CONSTANTS a, b, c0, c1, Programs

VARIABLES program, page_infos, data, status, pgdir, vma_list, pte, image, at, objects,
  shm_next_id, shm_global_pages, files, writes, faults, calls

memvars == <<page_infos, data, status, pgdir, vma_list, pte, image, at, objects,
             shm_next_id, shm_global_pages, files, writes, faults, calls>>

Family == {init, a, b}
OneScan == {c0}
TwoScans == {c0, c1}

Plain == {{}, {"NOHANG"}}
JobControl == {{"UNTRACED", "CONTINUED"}}

Jobs == INSTANCE Lifecycle WITH
  Scanners <- OneScan, Dispositions <- {"dfl"}, OptionSets <- JobControl,
  Stoppable <- {b}, Signalled <- {a}

Ignoring == INSTANCE Lifecycle WITH
  Scanners <- OneScan, Dispositions <- {"dfl", "ign"}, OptionSets <- JobControl,
  Stoppable <- {b}, Signalled <- {}

ASSUME Jobs!LifecycleAssumption /\ Ignoring!LifecycleAssumption

Cow == INSTANCE Memory WITH
  PageCount <- 5, RefMax <- 3, Spaces <- 1 .. 3, Threads <- 1, AnonPages <- 1, ShmPages <- 0,
  Slots <- {}, Names <- {}, Files <- {}, SHM_GLOBAL_MAX_PAGES <- 0, MaxIds <- 0,
  MaxCalls <- 3, MaxWrites <- 1, MaxFaults <- 1, Calls <- {"mmap", "munmap"}

Shm == INSTANCE Memory WITH
  PageCount <- 4, RefMax <- 3, Spaces <- 1 .. 2, Threads <- 1, AnonPages <- 0, ShmPages <- 2,
  Slots <- {1}, Names <- {"object"}, Files <- 1 .. 2, SHM_GLOBAL_MAX_PAGES <- 2, MaxIds <- 2,
  MaxCalls <- 4, MaxWrites <- 1, MaxFaults <- 1, Calls <- {"munmap", "copy_to_user"}

ASSUME Cow!MemoryAssumption /\ Shm!MemoryAssumption

MCInit ==
  /\ program \in Programs
  /\ \/ program = "reports" /\ Init
     \/ program = "jobs" /\ Jobs!Init
     \/ program = "ignoring" /\ Ignoring!Init
     \/ program \in {"cow", "shm"} /\ Init
  /\ IF program = "shm" THEN Shm!Init ELSE Cow!Init

MCNext ==
  /\ \/ program = "reports" /\ Next /\ UNCHANGED memvars
     \/ program = "jobs" /\ Jobs!Next /\ UNCHANGED memvars
     \/ program = "ignoring" /\ Ignoring!Next /\ UNCHANGED memvars
     \/ program = "cow" /\ Cow!Next /\ UNCHANGED vars
     \/ program = "shm" /\ Shm!Next /\ UNCHANGED vars
  /\ UNCHANGED program

MCSpec == MCInit /\ [][MCNext]_<<program, vars, memvars>>

-----------------------------------------------------------------------------
(* Lifecycle's properties, for the program they are stated for. *)

(* The types of the state each program uses. *)
ProgramTypeOK ==
  /\ program = "reports" => TypeOK
  /\ program = "cow" => Cow!TypeOK
  /\ program = "shm" => Shm!TypeOK

(* What waitpid() found is destroyed by it alone, and it returns the status *)
(* of every child exactly once.                                             *)
ReportsCollectedOnce == program = "reports" => DestroyedOnce /\ StatusOnce

(* No process sleeps in waitpid() while a child is ready to be collected,   *)
(* or has stopped or continued and was asked for, or without any child to  *)
(* wait for.                                                                *)
NothingMissed ==
  /\ program = "reports" => ZombieNotMissed /\ SomethingToWaitFor
  /\ program = "jobs" => Jobs!ZombieNotMissed /\ Jobs!StopNotMissed
  /\ program = "ignoring" => Ignoring!ZombieNotMissed /\ Ignoring!StopNotMissed

(* Whatever fork(), exit, faults and unmapping have done so far, and where *)
(* they failed, pages have as many references as holders, and objects as   *)
(* many mappings and handles as areas and descriptions.                    *)
PagesAccounted ==
  /\ program = "cow" => Cow!Accounted
  /\ program = "shm" => Shm!Accounted

(* Processes find in private memory what they wrote, and in shared memory  *)
(* the object, as long as they map it.                                     *)
MemoryIsolated ==
  /\ program = "cow" => Cow!Isolated
  /\ program = "shm" => Shm!Isolated
=============================================================================
