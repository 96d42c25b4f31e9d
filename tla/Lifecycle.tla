----------------------------- MODULE Lifecycle -----------------------------
(***************************************************************************)
(* The life of a process: fork, exit, becoming an orphan, stopping, and    *)
(* being collected by waitpid() or by the scheduler.  The code is in       *)
(* kernel/syscalls/syscalls.c (sys_fork, sys_exit, kernel_waitpid),        *)
(* kernel/process/fork.c (the family tree) and kernel/task/task.c          *)
(* (scheduler_scan_waiters).                                               *)
(*                                                                         *)
(* One action is one critical section of task_lock.  kernel_waitpid() takes*)
(* the lock once per question it asks, and scheduler_scan_waiters(), which *)
(* any CPU may run at any time, collects batches under the lock and acts on*)
(* them after releasing it: what the code must get right is everything     *)
(* that may happen in between.  Processes are single-threaded, a member of *)
(* Procs is one process ever created (pids are not reused), and a process  *)
(* executes only while its state is "RUN" (READY or RUNNING; Scheduler has *)
(* the difference).                                                        *)
(***************************************************************************)
EXTENDS Naturals, FiniteSets

CONSTANTS Procs,         \* processes that ever exist
          init,          \* process 1
          Booted,        \* children of init that exist at the start
          Scanners,      \* CPUs that may be inside scheduler_scan_waiters()
          Batch,         \* SCHED_ALARM_BATCH, SCHED_PROCESS_REAP_BATCH
          Dispositions,  \* SIGCHLD dispositions processes install
          OptionSets,    \* sets of waitpid() options in use
          Stoppable,     \* bound: processes that get stop signals
          Signalled,     \* bound: processes somebody sends signals to
          Any,           \* waitpid(-1)
          None

ASSUME LifecycleAssumption ==
  /\ init \in Procs /\ Booted \subseteq Procs \ {init}
  /\ None \notin Procs /\ Any \notin Procs
  /\ Batch \in Nat \ {0}
  /\ {"dfl"} \subseteq Dispositions /\ Dispositions \subseteq {"dfl", "handler", "ign"}
  /\ OptionSets \subseteq SUBSET {"NOHANG", "UNTRACED", "CONTINUED"}
  /\ Stoppable \subseteq Procs \ {init} /\ Signalled \subseteq Procs

VARIABLES
  st,             \* task state
  parent,         \* process->parent
  children,       \* children and sibling_next: the list of children, as a set
  stamp,          \* wakeup_time of a zombie is not 0: its parent is not yet told
  left,           \* a zombie's CPU has left its stack and a tick has passed
  chld,           \* SIGCHLD disposition
  pending,        \* processes with a deliverable signal
  waking,         \* targets of a send_signal() that has yet to wake them
  stop_reported,  \* process->stop_reported
  cont,           \* process->continue_pending
  active,         \* process->waitpid_active
  pc, sel, opts, victim,  \* per process: where, waitpid selector, options, zombie found
  scan,           \* per CPU: what its scan collected and has not acted on yet
  reports         \* number of waitpid() calls that returned this process's exit status

tree == <<parent, children>>
stops == <<stop_reported, cont>>
signals == <<chld, pending, waking>>
call == <<pc, sel, opts, victim>>
vars == <<st, tree, stamp, left, signals, stops, active, call, scan, reports>>

States == {"NEW", "RUN", "BLOCKED", "STOPPED", "ZOMBIE", "TERMINATED", "FREE"}
Dead == {"ZOMBIE", "TERMINATED", "FREE"}

Pcs == {"user",
        "find", "reap", "term", "destroy",              \* kernel_waitpid(): a zombie
        "sig", "stopped", "continued", "has", "prep",   \* ... the other questions
        "asleep",                                       \* ... waiting
        "exitwake", "zombie",                           \* sys_exit()
        "dead"}

NoScan == [reap |-> {}, wake |-> {}, chld |-> {}]

TypeOK ==
  /\ st \in [Procs -> States]
  /\ parent \in [Procs -> Procs \cup {None}]
  /\ children \in [Procs -> SUBSET Procs]
  /\ stamp \in [Procs -> BOOLEAN] /\ left \in [Procs -> BOOLEAN]
  /\ chld \in [Procs -> Dispositions]
  /\ pending \subseteq Procs /\ waking \subseteq Procs
  /\ stop_reported \in [Procs -> BOOLEAN] /\ cont \in [Procs -> BOOLEAN]
  /\ active \in [Procs -> BOOLEAN]
  /\ pc \in [Procs -> Pcs]
  /\ sel \in [Procs -> Procs \cup {Any}]
  /\ opts \in [Procs -> OptionSets \cup {{}}]
  /\ victim \in [Procs -> Procs \cup {None}]
  /\ scan \in [Scanners -> [reap : SUBSET Procs, wake : SUBSET Procs, chld : SUBSET Procs]]
  /\ reports \in [Procs -> Nat]

(* init runs and has the children it started. *)
Init ==
  /\ st = [p \in Procs |-> IF p \in Booted \cup {init} THEN "RUN" ELSE "NEW"]
  /\ parent = [p \in Procs |-> IF p \in Booted THEN init ELSE None]
  /\ children = [p \in Procs |-> IF p = init THEN Booted ELSE {}]
  /\ stamp = [p \in Procs |-> FALSE] /\ left = [p \in Procs |-> FALSE]
  /\ chld = [p \in Procs |-> "dfl"]
  /\ pending = {} /\ waking = {}
  /\ stop_reported = [p \in Procs |-> FALSE] /\ cont = [p \in Procs |-> FALSE]
  /\ active = [p \in Procs |-> FALSE]
  /\ pc = [p \in Procs |-> "user"]
  /\ sel = [p \in Procs |-> Any]
  /\ opts = [p \in Procs |-> {}]
  /\ victim = [p \in Procs |-> None]
  /\ scan = [s \in Scanners |-> NoScan]
  /\ reports = [p \in Procs |-> 0]

(* p executes at program point l. *)
At(p, l) == st[p] = "RUN" /\ pc[p] = l
Goto(p, l) == pc' = [pc EXCEPT ![p] = l]

-----------------------------------------------------------------------------
(* The family tree (fork.c). *)
child_matches_waitpid(p, c) == sel[p] = Any \/ sel[p] = c

MatchingChildren(p) == {c \in children[p] : child_matches_waitpid(p, c)}

(* find_zombie_child_locked(): the child's CPU is off its stack and the    *)
(* scheduler has cleared the deferred wake-up.                             *)
Reapable(c) == st[c] = "ZOMBIE" /\ left[c] /\ ~stamp[c]

(* find_stopped_child_locked(), find_continued_child_locked() *)
StopToReport(c) == st[c] = "STOPPED" /\ ~stop_reported[c]

(* Mutant: the wake-up goes to a parent that waits for this very child only. *)
WaitersForPid(C) ==
  {q \in Procs : /\ st[q] = "BLOCKED" /\ active[q]
                 /\ \E c \in C : parent[c] = q /\ sel[q] = c}

(* The waiting parents wakeup_parent_under_lock() makes READY for any child *)
(* of C.                                                                    *)
WaitersFor(C) ==
  {q \in Procs : /\ st[q] = "BLOCKED" /\ active[q]
                 /\ \E c \in C : parent[c] = q /\ child_matches_waitpid(q, c)}

(* Mutant: the woken parent is declared RUNNING rather than READY. *)
WokenRunning(Q) == [q \in Procs |-> IF q \in Q THEN "RUNNING" ELSE st[q]]

Woken(Q) == [q \in Procs |-> IF q \in Q THEN "RUN" ELSE st[q]]

(* Mutant: the list is cut, the pointer to the parent stays. *)
RemoveChildOneWay(p, z) ==
  /\ children' = [children EXCEPT ![p] = @ \ {z}]
  /\ UNCHANGED parent

(* remove_child_from_parent_locked(): it leaves both processes alone when  *)
(* z is not on p's list.                                                   *)
RemoveChild(p, z) ==
  IF z \in children[p]
    THEN /\ children' = [children EXCEPT ![p] = @ \ {z}]
         /\ parent' = [parent EXCEPT ![z] = None]
    ELSE UNCHANGED tree

-----------------------------------------------------------------------------
(* fork(): the child is linked under its parent, inherits the parent's     *)
(* dispositions and becomes runnable.  These are separate sections; one    *)
(* step stands for them, since in between only the parent, which is in     *)
(* fork(), could wait for the child.                                       *)
Fork(p, c) ==
  /\ At(p, "user")
  /\ st[c] = "NEW"
  /\ st' = [st EXCEPT ![c] = "RUN"]
  /\ parent' = [parent EXCEPT ![c] = p]
  /\ children' = [children EXCEPT ![p] = @ \cup {c}]
  /\ chld' = [chld EXCEPT ![c] = chld[p]]
  /\ UNCHANGED <<stamp, left, pending, waking, stops, active, call, scan, reports>>

(* sigaction(SIGCHLD) *)
SetSigchld(p, d) ==
  /\ At(p, "user")
  /\ d # chld[p]
  /\ chld' = [chld EXCEPT ![p] = d]
  /\ UNCHANGED <<st, tree, stamp, left, pending, waking, stops, active, call, scan, reports>>

(* sys_exit(), first part: orphan_children() gives the children to init.   *)
(* init is woken afterwards, outside the lock, if it was waiting and one   *)
(* of them is a zombie.                                                    *)
ExitOrphan(p) ==
  /\ p # init
  /\ At(p, "user")
  /\ parent' = [c \in Procs |-> IF c \in children[p] THEN init ELSE parent[c]]
  /\ children' = [children EXCEPT ![init] = @ \cup children[p], ![p] = {}]
  /\ Goto(p, IF st[init] = "BLOCKED" /\ \E c \in children[p] : st[c] = "ZOMBIE"
               THEN "exitwake" ELSE "zombie")
  /\ UNCHANGED <<st, stamp, left, signals, stops, active, sel, opts, victim, scan, reports>>

(* task_set_ready(init): whatever init is doing by now. *)
ExitWakeInit(p) ==
  /\ At(p, "exitwake")
  /\ st' = [st EXCEPT ![init] = IF @ = "BLOCKED" THEN "RUN" ELSE @]
  /\ Goto(p, "zombie")
  /\ UNCHANGED <<tree, stamp, left, signals, stops, active, sel, opts, victim, scan, reports>>

(* The process publishes itself as a zombie with a deferred wake-up. *)
ExitZombie(p) ==
  /\ At(p, "zombie")
  /\ st' = [st EXCEPT ![p] = "ZOMBIE"]
  /\ stamp' = [stamp EXCEPT ![p] = TRUE]
  /\ Goto(p, "dead")
  /\ UNCHANGED <<tree, left, signals, stops, active, sel, opts, victim, scan, reports>>

(* switch_to_idle() has released running_cpu and a tick has passed. *)
LeaveStack(p) ==
  /\ st[p] = "ZOMBIE" /\ ~left[p]
  /\ left' = [left EXCEPT ![p] = TRUE]
  /\ UNCHANGED <<st, tree, stamp, signals, stops, active, call, scan, reports>>

-----------------------------------------------------------------------------
(* Mutant: the default disposition discards, too. *)
DiscardsByDefault(z) == parent[z] # None /\ chld[parent[z]] # "handler"

(* The parent has asked for no statuses: SIG_IGN or SA_NOCLDWAIT. *)
Discards(z) == parent[z] # None /\ chld[parent[z]] = "ign"

(* T is what fits of S into a list of Batch entries. *)
Limited(S, T) == T \subseteq S /\ (T = S \/ Cardinality(T) = Batch) /\ Cardinality(T) <= Batch

(* scheduler_scan_waiters(), under task_lock: zombies whose status nobody  *)
(* wants are detached for destruction, their waiting parent is woken; the  *)
(* deferred wake-up of the others is cleared and they are noted.  Each     *)
(* list holds Batch tasks, the rest waits for another scan.                *)
ScanLocked(s) ==
  LET over   == {z \in Procs : st[z] = "ZOMBIE" /\ left[z]}
      unread == {z \in over : Discards(z)}
      untold == {z \in over \ unread : stamp[z]}
  IN
  /\ scan[s] = NoScan
  /\ \E R \in SUBSET unread, W \in SUBSET untold :
       /\ Limited(unread, R) /\ Limited(untold, W)
       /\ R \cup W # {}
       /\ st' = [p \in Procs |-> IF p \in R THEN "TERMINATED" ELSE Woken(WaitersFor(R))[p]]
       /\ parent' = [p \in Procs |-> IF p \in R THEN None ELSE parent[p]]
       /\ children' = [p \in Procs |-> children[p] \ R]
       /\ stamp' = [p \in Procs |-> IF p \in R \cup W THEN FALSE ELSE stamp[p]]
       /\ scan' = [scan EXCEPT ![s] = [reap |-> R, wake |-> W, chld |-> {}]]
  /\ UNCHANGED <<left, signals, stops, active, call, reports>>

(* ... after the unlock: destroy_process() for the detached ones first. *)
ScanDestroy(s, z) ==
  /\ z \in scan[s].reap
  /\ st' = [st EXCEPT ![z] = "FREE"]
  /\ scan' = [scan EXCEPT ![s].reap = @ \ {z}]
  /\ UNCHANGED <<tree, stamp, left, signals, stops, active, call, reports>>

(* Then wakeup_parent() for the others; the parent pointer was read before *)
(* it.  A zombie that was freed in the meantime still has its last         *)
(* contents, a null parent, unless its memory was reused.                  *)
ScanWake(s, z) ==
  /\ scan[s].reap = {} /\ scan[s].chld = {}
  /\ z \in scan[s].wake
  /\ st' = Woken(WaitersFor({z}))
  /\ scan' = [scan EXCEPT ![s] =
       [reap |-> {}, wake |-> @.wake \ {z}, chld |-> {parent[z]} \ {None}]]
  /\ UNCHANGED <<tree, stamp, left, signals, stops, active, call, reports>>

(* ... and SIGCHLD for that parent if it has a handler. *)
ScanSigchld(s, q) ==
  /\ q \in scan[s].chld
  /\ scan' = [scan EXCEPT ![s].chld = @ \ {q}]
  /\ IF chld[q] = "handler" /\ st[q] \notin {"TERMINATED", "FREE"}
       THEN pending' = pending \cup {q} /\ waking' = waking \cup {q}
       ELSE UNCHANGED <<pending, waking>>
  /\ UNCHANGED <<st, tree, stamp, left, chld, stops, active, call, reports>>

-----------------------------------------------------------------------------
(* Stopping and continuing: the state, the report and the parent's wake-up *)
(* change together.                                                        *)
Stop(p) ==
  /\ p \in Stoppable
  /\ At(p, "user")
  /\ st' = [Woken(WaitersFor({p})) EXCEPT ![p] = "STOPPED"]
  /\ stop_reported' = [stop_reported EXCEPT ![p] = FALSE]
  /\ cont' = [cont EXCEPT ![p] = FALSE]
  /\ UNCHANGED <<tree, stamp, left, signals, active, call, scan, reports>>

continue_process(p) ==
  /\ st[p] = "STOPPED"
  /\ st' = [Woken(WaitersFor({p})) EXCEPT ![p] = "RUN"]
  /\ stop_reported' = [stop_reported EXCEPT ![p] = FALSE]
  /\ cont' = [cont EXCEPT ![p] = TRUE]
  /\ UNCHANGED <<tree, stamp, left, signals, active, call, scan, reports>>

(* Any other signal: posted, then the target is woken, then handled on its *)
(* way to user mode.  What a signal does to a stopped process is in        *)
(* module Signals.                                                         *)
Signal(p) ==
  /\ p \in Signalled
  /\ st[p] \in {"RUN", "BLOCKED"}
  /\ pending' = pending \cup {p}
  /\ waking' = waking \cup {p}
  /\ UNCHANGED <<st, tree, stamp, left, chld, stops, active, call, scan, reports>>

SignalWake(p) ==
  /\ p \in waking
  /\ waking' = waking \ {p}
  /\ st' = [st EXCEPT ![p] = IF @ = "BLOCKED" THEN "RUN" ELSE @]
  /\ UNCHANGED <<tree, stamp, left, chld, pending, stops, active, call, scan, reports>>

Deliver(p) ==
  /\ At(p, "user")
  /\ p \in pending
  /\ pending' = pending \ {p}
  /\ UNCHANGED <<st, tree, stamp, left, chld, waking, stops, active, call, scan, reports>>

-----------------------------------------------------------------------------
(* kernel_waitpid().  Each question takes task_lock once. *)
Return(p) ==
  /\ Goto(p, "user")
  /\ sel' = [sel EXCEPT ![p] = Any]
  /\ opts' = [opts EXCEPT ![p] = {}]
  /\ victim' = [victim EXCEPT ![p] = None]

(* The call returns through waitpid_clear_sleep(). *)
ClearAndReturn(p) ==
  /\ Return(p)
  /\ active' = [active EXCEPT ![p] = FALSE]

WaitCall(p, w, o) ==
  /\ At(p, "user")
  /\ sel' = [sel EXCEPT ![p] = w]
  /\ opts' = [opts EXCEPT ![p] = o]
  /\ Goto(p, "find")
  /\ UNCHANGED <<st, tree, stamp, left, signals, stops, active, victim, scan, reports>>

(* A zombie is found and its status read ... *)
WaitFind(p) ==
  /\ At(p, "find")
  /\ \E z \in {c \in MatchingChildren(p) : Reapable(c)} :
       /\ victim' = [victim EXCEPT ![p] = z]
       /\ Goto(p, "reap")
  /\ UNCHANGED <<st, tree, stamp, left, signals, stops, active, sel, opts, scan, reports>>

(* ... it is taken off the list ... *)
WaitRemove(p) ==
  /\ At(p, "reap")
  /\ RemoveChild(p, victim[p])
  /\ Goto(p, "term")
  /\ UNCHANGED <<st, stamp, left, signals, stops, active, sel, opts, victim, scan, reports>>

(* ... set TERMINATED ... *)
WaitTerminate(p) ==
  /\ At(p, "term")
  /\ st' = [st EXCEPT ![victim[p]] = IF @ = "FREE" THEN @ ELSE "TERMINATED"]
  /\ Goto(p, "destroy")
  /\ UNCHANGED <<tree, stamp, left, signals, stops, active, sel, opts, victim, scan, reports>>

(* ... and destroyed, and the call returns its pid and status. *)
WaitDestroy(p) ==
  /\ At(p, "destroy")
  /\ st' = [st EXCEPT ![victim[p]] = "FREE"]
  /\ reports' = [reports EXCEPT ![victim[p]] = @ + 1]
  /\ ClearAndReturn(p)
  /\ UNCHANGED <<tree, stamp, left, signals, stops, scan>>

WaitNoZombie(p) ==
  /\ At(p, "find")
  /\ \A c \in MatchingChildren(p) : ~Reapable(c)
  /\ Goto(p, "sig")
  /\ UNCHANGED <<st, tree, stamp, left, signals, stops, active, sel, opts, victim, scan, reports>>

WaitSignal(p) ==
  /\ At(p, "sig")
  /\ IF p \in pending THEN ClearAndReturn(p)
                      ELSE Goto(p, "stopped") /\ UNCHANGED <<sel, opts, victim, active>>
  /\ UNCHANGED <<st, tree, stamp, left, signals, stops, scan, reports>>

(* consume_stopped_child() and consume_continued_child() *)
ReportStop(p) ==
  /\ "UNTRACED" \in opts[p]
  /\ \E c \in {d \in MatchingChildren(p) : StopToReport(d)} :
       stop_reported' = [stop_reported EXCEPT ![c] = TRUE]
  /\ UNCHANGED cont

ReportContinue(p) ==
  /\ "CONTINUED" \in opts[p]
  /\ \E c \in {d \in MatchingChildren(p) : cont[d]} :
       cont' = [cont EXCEPT ![c] = FALSE]
  /\ UNCHANGED stop_reported

NoStop(p) == "UNTRACED" \in opts[p] => \A c \in MatchingChildren(p) : ~StopToReport(c)
NoContinue(p) == "CONTINUED" \in opts[p] => \A c \in MatchingChildren(p) : ~cont[c]

WaitStopped(p) ==
  /\ At(p, "stopped")
  /\ \/ ReportStop(p) /\ ClearAndReturn(p)
     \/ NoStop(p) /\ Goto(p, "continued") /\ UNCHANGED <<stops, sel, opts, victim, active>>
  /\ UNCHANGED <<st, tree, stamp, left, signals, scan, reports>>

WaitContinued(p) ==
  /\ At(p, "continued")
  /\ \/ ReportContinue(p) /\ ClearAndReturn(p)
     \/ NoContinue(p) /\ Goto(p, "has") /\ UNCHANGED <<stops, sel, opts, victim, active>>
  /\ UNCHANGED <<st, tree, stamp, left, signals, scan, reports>>

(* Mutant: no ECHILD. *)
WaitNeverEchild(p) ==
  /\ At(p, "has")
  /\ IF "NOHANG" \in opts[p]
       THEN ClearAndReturn(p)
       ELSE Goto(p, "prep") /\ UNCHANGED <<sel, opts, victim, active>>
  /\ UNCHANGED <<st, tree, stamp, left, signals, stops, scan, reports>>

(* has_children(): ECHILD, or 0 under WNOHANG, or prepare to sleep. *)
WaitHasChildren(p) ==
  /\ At(p, "has")
  /\ IF MatchingChildren(p) = {} \/ "NOHANG" \in opts[p]
       THEN ClearAndReturn(p)
       ELSE Goto(p, "prep") /\ UNCHANGED <<sel, opts, victim, active>>
  /\ UNCHANGED <<st, tree, stamp, left, signals, stops, scan, reports>>

(* Mutant: whether a child has died is not asked again. *)
SleepsOnZombie(p) == NoStop(p) /\ NoContinue(p)

(* waitpid_prepare_sleep(): everything is asked again in the critical      *)
(* section that blocks the caller, except whether it still has children.   *)
Sleeps(p) ==
  /\ \A c \in MatchingChildren(p) : ~Reapable(c)
  /\ NoStop(p)
  /\ NoContinue(p)

WaitPrepare(p) ==
  /\ At(p, "prep")
  /\ \/ /\ \E c \in MatchingChildren(p) : Reapable(c)
        /\ Goto(p, "find")
        /\ UNCHANGED <<st, stops, sel, opts, victim, active>>
     \/ /\ \A c \in MatchingChildren(p) : ~Reapable(c)
        /\ \/ ReportStop(p)
           \/ NoStop(p) /\ ReportContinue(p)
        /\ Return(p)
        /\ UNCHANGED <<st, active>>
     \/ /\ Sleeps(p) /\ p \in pending
        /\ Goto(p, "find")
        /\ active' = [active EXCEPT ![p] = FALSE]
        /\ UNCHANGED <<st, stops, sel, opts, victim>>
     \/ /\ Sleeps(p) /\ p \notin pending
        /\ st' = [st EXCEPT ![p] = "BLOCKED"]
        /\ active' = [active EXCEPT ![p] = TRUE]
        /\ Goto(p, "asleep")
        /\ UNCHANGED <<stops, sel, opts, victim>>
  /\ UNCHANGED <<tree, stamp, left, signals, scan, reports>>

(* Running again: waitpid_clear_sleep(), and from the top. *)
WaitResume(p) ==
  /\ At(p, "asleep")
  /\ active' = [active EXCEPT ![p] = FALSE]
  /\ Goto(p, "find")
  /\ UNCHANGED <<st, tree, stamp, left, signals, stops, sel, opts, victim, scan, reports>>

-----------------------------------------------------------------------------
WaitStep(p) ==
  \/ WaitFind(p) \/ WaitRemove(p) \/ WaitTerminate(p) \/ WaitDestroy(p)
  \/ WaitNoZombie(p) \/ WaitSignal(p) \/ WaitStopped(p) \/ WaitContinued(p)
  \/ WaitHasChildren(p) \/ WaitPrepare(p) \/ WaitResume(p)

ExitStep(p) == ExitWakeInit(p) \/ ExitZombie(p)

UserStep(p) ==
  \/ \E c \in Procs : Fork(p, c)
  \/ \E d \in Dispositions : SetSigchld(p, d)
  \/ \E w \in children[p] \cup {Any}, o \in OptionSets : WaitCall(p, w, o)
  \/ ExitOrphan(p)

ScanStep(s) ==
  \/ ScanLocked(s)
  \/ \E z \in Procs : ScanDestroy(s, z) \/ ScanWake(s, z) \/ ScanSigchld(s, z)

Next ==
  \/ \E p \in Procs : UserStep(p) \/ ExitStep(p) \/ WaitStep(p) \/ LeaveStack(p)
  \/ \E p \in Procs : Stop(p) \/ continue_process(p) \/ Signal(p) \/ SignalWake(p) \/ Deliver(p)
  \/ \E s \in Scanners : ScanStep(s)

Spec == Init /\ [][Next]_vars

(* Every CPU passes through the scheduler again and again, a READY process *)
(* is dispatched (Scheduler's ReadyRuns), and a dead one leaves its stack. *)
KernelFair ==
  /\ \A p \in Procs : /\ WF_vars(WaitStep(p) \/ ExitStep(p))
                      /\ WF_vars(LeaveStack(p)) /\ WF_vars(SignalWake(p))
  /\ \A s \in Scanners : WF_vars(ScanStep(s))
FairSpec == Spec /\ KernelFair

(* Additionally, parents collect: init keeps calling waitpid(-1, ...), a   *)
(* stopped process is continued, and any other process ends.               *)
CollectFair ==
  /\ KernelFair
  /\ SF_vars(\E o \in OptionSets : WaitCall(init, Any, o))
  /\ \A p \in Procs : SF_vars(ExitOrphan(p)) /\ WF_vars(continue_process(p))
CollectSpec == Spec /\ CollectFair

-----------------------------------------------------------------------------
(* The tree is consistent: a process is on the list of exactly the process *)
(* its parent pointer names, and that one is alive: a dead process has no  *)
(* children, whatever fork, exit and two kinds of reaping do to the lists. *)
TreeConsistent ==
  \A c, p \in Procs :
    /\ c \in children[p] <=> parent[c] = p
    /\ parent[c] = p => st[p] \notin Dead /\ st[c] \notin {"NEW", "TERMINATED", "FREE"}

(* The agents that hold a dead process in order to destroy it. *)
Destroyers(z) ==
  {p \in Procs : pc[p] \in {"reap", "term", "destroy"} /\ victim[p] = z}
    \cup {s \in Scanners : z \in scan[s].reap}

(* A process is destroyed by one agent and once: what waitpid() found, or  *)
(* the scan claimed, is still there and nobody else's.                     *)
(* Does not hold when a parent ignores SIGCHLD (README, Deviations).       *)
DestroyedOnce ==
  \A z \in Procs : /\ Cardinality(Destroyers(z)) <= 1
                   /\ Destroyers(z) # {} => st[z] \in {"ZOMBIE", "TERMINATED"}

(* The status of a child is returned exactly once, unless its parent       *)
(* ignores SIGCHLD: a process that is gone was reported, and never twice.  *)
StatusOnce ==
  \A z \in Procs : /\ reports[z] <= 1
                   /\ st[z] = "FREE" /\ "ign" \notin Dispositions => reports[z] = 1

Waiting(p) == st[p] = "BLOCKED"

(* No lost wake-up for a zombie: a process that sleeps in waitpid() has no *)
(* matching child it could collect, or somebody is about to wake it: the   *)
(* scan that noted the zombie, or the parent handing it over to init.      *)
ZombieNotMissed ==
  \A p \in Procs : Waiting(p) =>
    \A z \in MatchingChildren(p) :
      Reapable(z) => \/ \E s \in Scanners : z \in scan[s].wake
                     \/ p = init /\ \E q \in Procs : pc[q] = "exitwake"

(* No lost wake-up for a stop or a continuation: a process sleeping in     *)
(* waitpid(WUNTRACED) or (WCONTINUED) has no matching child with something *)
(* to report.  (Orphans reach init without such a wake-up.)                *)
StopNotMissed ==
  \A p \in Procs \ {init} : Waiting(p) => NoStop(p) /\ NoContinue(p)

(* A process sleeping in waitpid() has a child to wait for.                *)
(* scheduler_scan_waiters() wakes a waiter before it discards the child's  *)
(* status "so it can observe ECHILD rather than sleep forever".            *)
(* Does not hold when a parent ignores SIGCHLD (finding lifecycle_echild). *)
SomethingToWaitFor == \A p \in Procs : Waiting(p) => MatchingChildren(p) # {}

(* What a scan noted under the lock still exists when the scan acts on it: *)
(* the parent reaps the child after the scan woke it, not before.          *)
(* Does not hold (README, Deviations).                                     *)
ScanTouchesLive ==
  \A s \in Scanners : \A z \in scan[s].wake \cup scan[s].chld : st[z] # "FREE"

(* Every process that dies is eventually collected and freed. *)
Uncollected(z) == st[z] \in {"ZOMBIE", "TERMINATED"}
ZombieCollected == \A z \in Procs : Uncollected(z) ~> st[z] = "FREE"
=============================================================================
