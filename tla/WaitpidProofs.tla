--------------------------- MODULE WaitpidProofs ---------------------------
(***************************************************************************)
(* A parent that sleeps in waitpid() never sleeps beside what it waits     *)
(* for, nor with no child left to wait for, for any number of processes    *)
(* and of scanning CPUs.                                                   *)
(***************************************************************************)
EXTENDS LifecycleProofs

(* While no parent ignores SIGCHLD, a caller about to sleep has a child.   *)
HasChildInv == \A p \in Procs : pc[p] \in {"prep", "asleep"} => MatchingChildren(p) # {}

-----------------------------------------------------------------------------
(* Wake-ups. *)
MissInv == SleepInv /\ ZombieNotMissed /\ StopNotMissed

(* A step after which nobody sleeps who did not, nobody's question has      *)
(* another answer, and no announced wake-up is taken back.                 *)
Undisturbed ==
  /\ \A q \in Procs : st'[q] = "BLOCKED" =>
       /\ st[q] = "BLOCKED" /\ pc'[q] = pc[q] /\ sel'[q] = sel[q] /\ opts'[q] = opts[q]
       /\ active'[q] = active[q] /\ children'[q] \subseteq children[q]
  /\ \A q \in Procs : Reapable(q)' => Reapable(q)
  /\ \A q \in Procs : (StopToReport(q)' => StopToReport(q)) /\ (cont'[q] => cont[q])
  /\ \A s \in Scanners : scan[s].wake \subseteq scan'[s].wake
  /\ \A q \in Procs : pc[q] = "exitwake" => pc'[q] = "exitwake"

(* The marks a process carries when it starts and when it dies. *)
MarksKept ==
  \A q \in Procs : /\ st'[q] = "ZOMBIE" /\ ~left'[q] => stamp'[q]
                   /\ st'[q] = "NEW" => ~cont'[q]

(* An undisturbed step keeps MissInv. *)
LEMMA MissUndisturbed ==
  ASSUME TypeOK, MissInv, Undisturbed, MarksKept
  PROVE  MissInv'
<1>1. SleepInv'
  BY Zenon DEF MissInv, SleepInv, Undisturbed, MarksKept
<1>2. ASSUME NEW p \in Procs, st'[p] = "BLOCKED"
      PROVE  st[p] = "BLOCKED" /\ MatchingChildren(p)' \subseteq MatchingChildren(p)
             /\ MatchingChildren(p) \subseteq Procs
  BY Zenon, <1>2 DEF Undisturbed, MatchingChildren, child_matches_waitpid, TypeOK
<1>3. ZombieNotMissed'
  <2> SUFFICES ASSUME NEW p \in Procs, st'[p] = "BLOCKED", NEW z \in MatchingChildren(p)', Reapable(z)'
               PROVE  \/ \E s \in Scanners : z \in scan'[s].wake
                      \/ p = init /\ \E q \in Procs : pc'[q] = "exitwake"
    BY Zenon DEF ZombieNotMissed, Waiting
  <2>1. st[p] = "BLOCKED" /\ z \in MatchingChildren(p) /\ Reapable(z)
    BY Zenon, <1>2 DEF Undisturbed
  <2> QED
    BY Zenon, <2>1 DEF MissInv, ZombieNotMissed, Waiting, Undisturbed
<1>4. StopNotMissed'
  <2> SUFFICES ASSUME NEW p \in Procs \ {init}, st'[p] = "BLOCKED" PROVE NoStop(p)' /\ NoContinue(p)'
    BY Zenon DEF StopNotMissed, Waiting
  <2>1. NoStop(p) /\ NoContinue(p) /\ opts'[p] = opts[p]
    BY Zenon, <1>2 DEF MissInv, StopNotMissed, Waiting, Undisturbed
  <2> QED
    BY Zenon, <1>2, <2>1 DEF NoStop, NoContinue, Undisturbed
<1> QED
  BY Zenon, <1>1, <1>3, <1>4 DEF MissInv

(* The caller of a waitpid() step runs, so its own program counter and     *)
(* flags are nobody's sleep.                                               *)
LEMMA MissOwnStep ==
  ASSUME TypeOK, MissInv, NEW p \in Procs, st[p] = "RUN", pc[p] # "exitwake",
         \A q \in Procs \ {p} : /\ pc'[q] = pc[q] /\ sel'[q] = sel[q] /\ opts'[q] = opts[q]
                                /\ active'[q] = active[q],
         UNCHANGED <<st, children, stamp, left, scan>>,
         \A q \in Procs : (stop_reported[q] => stop_reported'[q]) /\ (cont'[q] => cont[q])
  PROVE  MissInv'
<1>1. Undisturbed
  BY Zenon DEF Undisturbed, Reapable, StopToReport, TypeOK
<1>2. MarksKept
  BY Zenon DEF MarksKept, MissInv, SleepInv
<1> QED
  BY Zenon, <1>1, <1>2, MissUndisturbed

(* A program's steps and exit, but for the orphans, keep MissInv. *)
LEMMA MissUser ==
  ASSUME TreeInv, MissInv, NEW p \in Procs,
         UserStep(p) \/ ExitStep(p) \/ LeaveStack(p), ~ExitOrphan(p), ~ExitWakeInit(p)
  PROVE  MissInv'
<1> TypeOK
  BY Zenon DEF TreeInv
<1>1. ASSUME NEW c \in Procs, Fork(p, c) PROVE MissInv'
  <2>1. /\ st[p] = "RUN" /\ st'[c] = "RUN" /\ st[c] = "NEW"
        /\ \A q \in Procs \ {c} : st'[q] = st[q]
        /\ \A q \in Procs \ {p} : children'[q] = children[q]
        /\ UNCHANGED <<stamp, left, stop_reported, cont, active, pc, sel, opts, scan>>
    BY Zenon, <1>1 DEF Fork, At, TypeOK, stops, call
  <2>2. Undisturbed
    <3>1. \A q \in Procs : st'[q] = "BLOCKED" => q # p /\ q # c
      BY Zenon, <2>1
    <3> QED
      BY Zenon, <2>1, <3>1 DEF Undisturbed, Reapable, StopToReport
  <2>3. MarksKept
    BY Zenon, <2>1 DEF MarksKept, MissInv, SleepInv
  <2> QED
    BY Zenon, <2>2, <2>3, MissUndisturbed
<1>2. ASSUME NEW d \in Dispositions, SetSigchld(p, d) PROVE MissInv'
  BY Zenon, <1>2, MissOwnStep DEF SetSigchld, At, tree, stops, call
<1>3. ASSUME NEW w, NEW o, WaitCall(p, w, o) PROVE MissInv'
  BY Zenon, <1>3, MissOwnStep DEF WaitCall, At, Goto, tree, stops, TypeOK
<1>4. CASE ExitZombie(p)
  <2>1. /\ st[p] = "RUN" /\ st'[p] = "ZOMBIE" /\ stamp'[p] /\ pc[p] = "zombie"
        /\ \A q \in Procs \ {p} : st'[q] = st[q] /\ stamp'[q] = stamp[q] /\ pc'[q] = pc[q]
        /\ UNCHANGED <<children, left, stop_reported, cont, active, sel, opts, scan>>
    BY Zenon, <1>4 DEF ExitZombie, At, Goto, TypeOK, tree, stops
  <2>2. Undisturbed
    BY Zenon, <2>1 DEF Undisturbed, Reapable, StopToReport
  <2>3. MarksKept
    BY Zenon, <2>1 DEF MarksKept, MissInv, SleepInv
  <2> QED
    BY Zenon, <2>2, <2>3, MissUndisturbed
<1>5. CASE LeaveStack(p)
  <2>1. /\ st[p] = "ZOMBIE" /\ ~left[p]
        /\ \A q \in Procs \ {p} : left'[q] = left[q]
        /\ UNCHANGED <<st, children, stamp, stop_reported, cont, active, pc, sel, opts, scan>>
    BY Zenon, <1>5 DEF LeaveStack, TypeOK, tree, stops, call
  <2>2. stamp[p]
    BY Zenon, <2>1 DEF MissInv, SleepInv
  <2>3. Undisturbed
    BY Zenon, <2>1, <2>2 DEF Undisturbed, Reapable, StopToReport
  <2>4. MarksKept
    BY Zenon, <2>1, <2>2 DEF MarksKept, MissInv, SleepInv
  <2> QED
    BY Zenon, <2>3, <2>4, MissUndisturbed
<1> QED
  BY Zenon, <1>1, <1>2, <1>3, <1>4, <1>5 DEF UserStep, ExitStep

(* sys_exit() hands its children over: init gets the zombies, and the      *)
(* exiting process owes it a wake-up.                                      *)
LEMMA MissExitOrphan ==
  ASSUME TreeInv, MissInv, NEW p \in Procs, ExitOrphan(p)
  PROVE  MissInv'
<1> TypeOK
  BY Zenon DEF TreeInv
<1>1. /\ st[p] = "RUN" /\ pc[p] = "user" /\ p # init
      /\ \A q \in Procs \ {p} : pc'[q] = pc[q]
      /\ \A q \in Procs \ {p, init} : children'[q] = children[q]
      /\ children'[init] = children[init] \cup children[p]
      /\ st[init] = "BLOCKED" /\ (\E c \in children[p] : st[c] = "ZOMBIE") => pc'[p] = "exitwake"
      /\ UNCHANGED <<st, stamp, left, stop_reported, cont, active, sel, opts, scan>>
  BY LifecycleAssumption DEF ExitOrphan, At, Goto, TypeOK, stops
<1>2. SleepInv'
  BY Zenon, <1>1 DEF MissInv, SleepInv
<1>3. \A q \in Procs \ {init} : st[q] = "BLOCKED" => MatchingChildren(q)' = MatchingChildren(q)
  BY Zenon, <1>1 DEF MatchingChildren, child_matches_waitpid
<1>4. \A z : Reapable(z)' = Reapable(z) /\ StopToReport(z)' = StopToReport(z)
  BY Zenon, <1>1 DEF Reapable, StopToReport
<1>5. StopNotMissed'
  BY Zenon, <1>1, <1>3, <1>4 DEF StopNotMissed, MissInv, Waiting, NoStop, NoContinue
<1>6. ASSUME NEW q \in Procs, st[q] = "BLOCKED", NEW z \in MatchingChildren(q)', Reapable(z)
      PROVE  \/ \E s \in Scanners : z \in scan[s].wake
             \/ q = init /\ \E r \in Procs : pc'[r] = "exitwake"
  <2>1. CASE z \in MatchingChildren(q)
    <3>1. \A r \in Procs : pc[r] = "exitwake" => pc'[r] = "exitwake"
      BY Zenon, <1>1
    <3> QED
      BY Zenon, <1>6, <2>1, <3>1 DEF MissInv, ZombieNotMissed, Waiting
  <2>2. CASE z \notin MatchingChildren(q)
    <3>1. q = init
      BY Zenon, <1>3, <1>6, <2>2
    <3>2. z \in children[p]
      BY Zenon, <1>1, <1>6, <2>2, <3>1 DEF MatchingChildren, child_matches_waitpid
    <3>3. st[z] = "ZOMBIE"
      BY Zenon, <1>6 DEF Reapable
    <3> QED
      BY Zenon, <1>1, <1>6, <3>1, <3>2, <3>3
  <2> QED
    BY Zenon, <2>1, <2>2
<1>7. ZombieNotMissed'
  BY ZenonT(40), <1>1, <1>4, <1>6 DEF ZombieNotMissed, Waiting
<1> QED
  BY Zenon, <1>2, <1>5, <1>7 DEF MissInv

(* exit wakes process 1 for the orphans it inherited. *)
LEMMA MissExitWakeInit ==
  ASSUME TreeInv, MissInv, NEW p \in Procs, ExitWakeInit(p)
  PROVE  MissInv'
<1> TypeOK
  BY Zenon DEF TreeInv
<1>1. /\ st[p] = "RUN" /\ st'[init] # "BLOCKED"
      /\ \A q \in Procs \ {p} : pc'[q] = pc[q]
      /\ \A q \in Procs \ {init} : st'[q] = st[q]
      /\ st'[init] # st[init] => st[init] = "BLOCKED" /\ st'[init] = "RUN"
      /\ UNCHANGED <<children, stamp, left, stop_reported, cont, active, sel, opts, scan>>
  BY LifecycleAssumption DEF ExitWakeInit, At, Goto, TypeOK, stops, tree
<1>2. SleepInv'
  <2>1. \A q \in Procs : st'[q] \in {"BLOCKED", "ZOMBIE", "NEW"} => st'[q] = st[q]
    BY Zenon, <1>1
  <2> QED
    BY Zenon, <1>1, <2>1 DEF MissInv, SleepInv
<1>3. \A q : MatchingChildren(q)' = MatchingChildren(q)
  BY Zenon, <1>1 DEF MatchingChildren, child_matches_waitpid
<1>4. \A z \in Procs : (Reapable(z)' => Reapable(z)) /\ (StopToReport(z)' => StopToReport(z))
  BY Zenon, <1>1 DEF Reapable, StopToReport
<1>5. \A q : MatchingChildren(q) \in SUBSET Procs \/ q \notin Procs
  BY Zenon DEF MatchingChildren, TypeOK
<1>6. StopNotMissed'
  BY Zenon, <1>1, <1>3, <1>4, <1>5 DEF StopNotMissed, MissInv, Waiting, NoStop, NoContinue
<1>7. ZombieNotMissed'
  BY Zenon, <1>1, <1>3, <1>4, <1>5 DEF ZombieNotMissed, MissInv, Waiting
<1> QED
  BY Zenon, <1>2, <1>6, <1>7 DEF MissInv

(* A step that makes parents of C run and changes nothing else that is     *)
(* asked about, except for what the members of C have to say.              *)
LEMMA MissWake ==
  ASSUME TreeInv, MissInv, NEW C \in SUBSET Procs,
         \A q \in Procs : st'[q] = "BLOCKED" => Woken(WaitersFor(C))[q] = "BLOCKED",
         MarksKept,
         UNCHANGED <<children, active, pc, sel, opts>>,
         \A q \in Procs \ C : (Reapable(q)' => Reapable(q)) /\ (StopToReport(q)' => StopToReport(q))
                              /\ (cont'[q] => cont[q]),
         \A s \in Scanners : scan[s].wake \ C \subseteq scan'[s].wake
  PROVE  MissInv'
<1> TypeOK
  BY Zenon DEF TreeInv
<1>1. ASSUME NEW q \in Procs, st'[q] = "BLOCKED"
      PROVE  st[q] = "BLOCKED" /\ MatchingChildren(q)' = MatchingChildren(q)
             /\ MatchingChildren(q) \subseteq Procs \ C
  <2>1. st[q] = "BLOCKED" /\ q \notin WaitersFor(C)
    BY Zenon, <1>1 DEF Woken
  <2>2. MatchingChildren(q)' = MatchingChildren(q) /\ MatchingChildren(q) \subseteq Procs
    BY Zenon DEF MatchingChildren, child_matches_waitpid, TypeOK
  <2>3. active[q]
    BY Zenon, <2>1 DEF MissInv, SleepInv
  <2>4. \A c \in MatchingChildren(q) : parent[c] = q /\ child_matches_waitpid(q, c)
    BY Zenon, <2>2 DEF MatchingChildren, TreeInv, TreeConsistent
  <2> QED
    BY Zenon, <2>1, <2>2, <2>3, <2>4 DEF WaitersFor
<1>2. SleepInv'
  BY Zenon, <1>1 DEF MissInv, SleepInv, MarksKept
<1>3. ZombieNotMissed'
  <2> SUFFICES ASSUME NEW p \in Procs, st'[p] = "BLOCKED", NEW z \in MatchingChildren(p)', Reapable(z)'
               PROVE  \/ \E s \in Scanners : z \in scan'[s].wake
                      \/ p = init /\ \E q \in Procs : pc'[q] = "exitwake"
    BY Zenon DEF ZombieNotMissed, Waiting
  <2>1. st[p] = "BLOCKED" /\ z \in MatchingChildren(p) /\ z \in Procs \ C /\ Reapable(z)
    BY Zenon, <1>1
  <2> QED
    BY Zenon, <2>1 DEF MissInv, ZombieNotMissed, Waiting
<1>4. StopNotMissed'
  <2> SUFFICES ASSUME NEW p \in Procs \ {init}, st'[p] = "BLOCKED" PROVE NoStop(p)' /\ NoContinue(p)'
    BY Zenon DEF StopNotMissed, Waiting
  <2>1. NoStop(p) /\ NoContinue(p)
    BY Zenon, <1>1 DEF MissInv, StopNotMissed, Waiting
  <2> QED
    BY Zenon, <1>1, <2>1 DEF NoStop, NoContinue
<1> QED
  BY Zenon, <1>2, <1>3, <1>4 DEF MissInv

(* A stop, a continuation, and the other signals. *)
LEMMA MissSignals ==
  ASSUME TreeInv, MissInv, NEW p \in Procs,
         Stop(p) \/ continue_process(p) \/ Signal(p) \/ SignalWake(p) \/ Deliver(p)
  PROVE  MissInv'
<1> TypeOK
  BY Zenon DEF TreeInv
<1>1. CASE Stop(p) \/ continue_process(p)
  <2>1. /\ st[p] \in {"RUN", "STOPPED"}
        /\ UNCHANGED <<children, stamp, left, active, pc, sel, opts, scan>>
        /\ \A q \in Procs \ {p} : stop_reported'[q] = stop_reported[q] /\ cont'[q] = cont[q]
    BY <1>1 DEF Stop, continue_process, At, TypeOK, tree, call
  <2>2. PICK x \in {"RUN", "STOPPED"} : st' = [Woken(WaitersFor({p})) EXCEPT ![p] = x]
    BY Zenon, <1>1 DEF Stop, continue_process
  <2>3. /\ st'[p] = x
        /\ \A q \in Procs \ {p} : st'[q] = Woken(WaitersFor({p}))[q]
    BY Zenon, <2>2 DEF Woken
  <2>4. \A q \in Procs : st'[q] = "BLOCKED" => Woken(WaitersFor({p}))[q] = "BLOCKED"
    BY Zenon, <2>3
  <2>5. \A q \in Procs \ {p} : st'[q] = st[q] \/ st'[q] = "RUN"
    BY Zenon, <2>3 DEF Woken
  <2>6. MarksKept
    BY <2>1, <2>3, <2>5 DEF MarksKept, MissInv, SleepInv
  <2>7. \A q \in Procs \ {p} : (Reapable(q)' => Reapable(q)) /\ (StopToReport(q)' => StopToReport(q))
                               /\ (cont'[q] => cont[q])
    BY Zenon, <2>1, <2>3, <2>5 DEF Reapable, StopToReport
  <2> QED
    BY ZenonT(40), <2>1, <2>4, <2>6, <2>7, MissWake
<1>2. CASE Signal(p) \/ SignalWake(p) \/ Deliver(p)
  <2>1. /\ \A q \in Procs : st'[q] = st[q] \/ st'[q] = "RUN"
        /\ UNCHANGED <<children, stamp, left, stop_reported, cont, active, pc, sel, opts, scan>>
    BY <1>2 DEF Signal, SignalWake, Deliver, tree, stops, call, TypeOK
  <2>2. Undisturbed
    BY Zenon, <2>1 DEF Undisturbed, Reapable, StopToReport
  <2>3. MarksKept
    BY Zenon, <2>1 DEF MarksKept, MissInv, SleepInv
  <2> QED
    BY ZenonT(40), <2>2, <2>3, MissUndisturbed
<1> QED
  BY Zenon, <1>1, <1>2

(* The scan under the lock: who becomes collectable is noted. *)
LEMMA MissScanLocked ==
  ASSUME TreeInv, MissInv, NEW s \in Scanners, ScanLocked(s)
  PROVE  MissInv'
<1> TypeOK
  BY Zenon DEF TreeInv
<1>1. PICK R \in SUBSET Procs, W \in SUBSET Procs :
        /\ \A z \in R \cup W : st[z] = "ZOMBIE" /\ left[z]
        /\ st' = [p \in Procs |-> IF p \in R THEN "TERMINATED" ELSE Woken(WaitersFor(R))[p]]
        /\ children' = [p \in Procs |-> children[p] \ R]
        /\ stamp' = [p \in Procs |-> IF p \in R \cup W THEN FALSE ELSE stamp[p]]
        /\ scan[s] = NoScan
        /\ scan' = [scan EXCEPT ![s] = [reap |-> R, wake |-> W, chld |-> {}]]
  BY Zenon DEF ScanLocked
<1>2. UNCHANGED <<left, stop_reported, cont, active, pc, sel, opts>>
  BY Zenon DEF ScanLocked, stops, call
<1>3. \A q \in Procs : \/ st'[q] = st[q]
                       \/ st'[q] \in {"RUN", "TERMINATED"}
  BY Zenon, <1>1 DEF Woken
<1>4. /\ \A q \in R : st'[q] = "TERMINATED"
      /\ \A q \in Procs \ (R \cup W) : stamp'[q] = stamp[q]
      /\ \A q \in Procs : children'[q] \subseteq children[q]
      /\ scan'[s].wake = W
      /\ \A u \in Scanners \ {s} : scan'[u] = scan[u]
      /\ scan[s].wake = {}
  BY <1>1 DEF NoScan, TypeOK
<1>5. ASSUME NEW q \in Procs, st'[q] = "BLOCKED"
      PROVE  st[q] = "BLOCKED" /\ MatchingChildren(q)' \subseteq MatchingChildren(q)
             /\ MatchingChildren(q) \subseteq Procs
  BY ZenonT(40), <1>2, <1>3, <1>4, <1>5 DEF MatchingChildren, child_matches_waitpid, TypeOK
<1>6. \A z \in Procs : (StopToReport(z)' => StopToReport(z)) /\ (Reapable(z)' => z \in W \/ Reapable(z))
  BY Zenon, <1>2, <1>3, <1>4 DEF StopToReport, Reapable
<1>7. SleepInv'
  <2>1. \A q \in Procs : st'[q] \in {"BLOCKED", "ZOMBIE", "NEW"} => st'[q] = st[q]
    BY Zenon, <1>3
  <2>2. \A q \in Procs : st[q] = "ZOMBIE" /\ ~left[q] => stamp'[q] = stamp[q]
    BY Zenon, <1>1, <1>4
  <2> QED
    BY Zenon, <1>2, <2>1, <2>2 DEF MissInv, SleepInv
<1>8. ZombieNotMissed'
  <2> SUFFICES ASSUME NEW p \in Procs, st'[p] = "BLOCKED", NEW z \in MatchingChildren(p)', Reapable(z)'
               PROVE  \/ \E u \in Scanners : z \in scan'[u].wake
                      \/ p = init /\ \E q \in Procs : pc'[q] = "exitwake"
    BY Zenon DEF ZombieNotMissed, Waiting
  <2>1. st[p] = "BLOCKED" /\ z \in MatchingChildren(p) /\ (z \in W \/ Reapable(z))
    BY Zenon, <1>5, <1>6
  <2>2. CASE z \in W
    BY Zenon, <1>4, <2>2
  <2>3. CASE Reapable(z)
    BY Zenon, <1>2, <1>4, <2>1, <2>3 DEF MissInv, ZombieNotMissed, Waiting
  <2> QED
    BY Zenon, <2>1, <2>2, <2>3
<1>9. StopNotMissed'
  BY Zenon, <1>2, <1>5, <1>6 DEF StopNotMissed, MissInv, Waiting, NoStop, NoContinue
<1> QED
  BY Zenon, <1>7, <1>8, <1>9 DEF MissInv

(* The steps of the scan keep MissInv. *)
LEMMA MissScan ==
  ASSUME TreeInv, MissInv, NEW s \in Scanners, ScanStep(s)
  PROVE  MissInv'
<1> TypeOK
  BY Zenon DEF TreeInv
<1>1. ASSUME NEW z \in Procs, ScanDestroy(s, z) \/ ScanSigchld(s, z)
      PROVE  MissInv'
  <2>1. /\ \A q \in Procs : st'[q] = st[q] \/ st'[q] = "FREE"
        /\ UNCHANGED <<children, stamp, left, stop_reported, cont, active, pc, sel, opts>>
    BY Zenon, <1>1 DEF ScanDestroy, ScanSigchld, tree, stops, call, TypeOK
  <2>2. \A u \in Scanners : scan'[u].wake = scan[u].wake
    <3>1. scan[s] \in [reap : SUBSET Procs, wake : SUBSET Procs, chld : SUBSET Procs]
      BY Zenon DEF TypeOK
    <3>2. \A u \in Scanners \ {s} : scan'[u] = scan[u]
      BY Zenon, <1>1 DEF ScanDestroy, ScanSigchld, TypeOK
    <3>3. CASE ScanDestroy(s, z)
      <4>1. scan'[s] = [scan[s] EXCEPT !.reap = @ \ {z}]
        BY Zenon, <3>3 DEF ScanDestroy, TypeOK
      <4> QED
        BY Zenon, <3>1, <3>2, <4>1
    <3>4. CASE ScanSigchld(s, z)
      <4>1. scan'[s] = [scan[s] EXCEPT !.chld = @ \ {z}]
        BY Zenon, <3>4 DEF ScanSigchld, TypeOK
      <4> QED
        BY Zenon, <3>1, <3>2, <4>1
    <3> QED
      BY Zenon, <1>1, <3>3, <3>4
  <2>3. Undisturbed
    BY Zenon, <2>1, <2>2 DEF Undisturbed, Reapable, StopToReport
  <2>4. MarksKept
    BY Zenon, <2>1 DEF MarksKept, MissInv, SleepInv
  <2> QED
    BY Zenon, <2>3, <2>4, MissUndisturbed
<1>2. ASSUME NEW z \in Procs, ScanWake(s, z) PROVE MissInv'
  <2>1. /\ st' = Woken(WaitersFor({z}))
        /\ UNCHANGED <<children, stamp, left, stop_reported, cont, active, pc, sel, opts>>
    BY Zenon, <1>2 DEF ScanWake, tree, stops, call
  <2>2. \A u \in Scanners : scan[u].wake \ {z} \subseteq scan'[u].wake
    BY Zenon, <1>2 DEF ScanWake, TypeOK
  <2>3. \A q \in Procs : st'[q] = st[q] \/ st'[q] = "RUN"
    BY Zenon, <2>1 DEF Woken
  <2>4. MarksKept
    BY Zenon, <2>1, <2>3 DEF MarksKept, MissInv, SleepInv
  <2>5. \A q \in Procs \ {z} : (Reapable(q)' => Reapable(q)) /\ (StopToReport(q)' => StopToReport(q))
                               /\ (cont'[q] => cont[q])
    BY Zenon, <2>1, <2>3 DEF Reapable, StopToReport
  <2> QED
    BY Zenon, <2>1, <2>2, <2>4, <2>5, MissWake
<1> QED
  BY Zenon, <1>1, <1>2, MissScanLocked DEF ScanStep

(* kernel_waitpid(): only the step that asks everything again puts its     *)
(* caller to sleep.                                                        *)
LEMMA MissWait ==
  ASSUME TreeInv, MissInv, NEW p \in Procs, WaitStep(p)
  PROVE  MissInv'
<1> TypeOK
  BY Zenon DEF TreeInv
<1>1. /\ st[p] = "RUN" /\ pc[p] # "exitwake"
      /\ UNCHANGED <<stamp, left, scan>>
  BY Zenon DEF WaitStep, WaitFind, WaitRemove, WaitTerminate, WaitDestroy, WaitNoZombie, WaitSignal,
         WaitStopped, WaitContinued, WaitHasChildren, WaitPrepare, WaitResume, At
<1>2. \A q \in Procs \ {p} : /\ pc'[q] = pc[q] /\ sel'[q] = sel[q] /\ opts'[q] = opts[q]
                             /\ active'[q] = active[q]
  <2>1. CASE WaitFind(p) \/ WaitRemove(p) \/ WaitTerminate(p) \/ WaitDestroy(p) \/ WaitNoZombie(p)
    BY <2>1 DEF WaitFind, WaitRemove, WaitTerminate, WaitDestroy, WaitNoZombie, Goto, Return,
                ClearAndReturn, TypeOK
  <2>2. CASE WaitSignal(p) \/ WaitStopped(p) \/ WaitContinued(p)
    BY <2>2 DEF WaitSignal, WaitStopped, WaitContinued, Goto, Return, ClearAndReturn, TypeOK
  <2>3. CASE WaitHasChildren(p) \/ WaitPrepare(p) \/ WaitResume(p)
    BY <2>3 DEF WaitHasChildren, WaitPrepare, WaitResume, Goto, Return, ClearAndReturn, TypeOK
  <2> QED
    BY ZenonT(40), <2>1, <2>2, <2>3 DEF WaitStep
<1>3. \A q \in Procs : (stop_reported[q] => stop_reported'[q]) /\ (cont'[q] => cont[q])
  <2>1. CASE ReportStop(p) \/ ReportContinue(p)
    BY Zenon, <2>1 DEF ReportStop, ReportContinue, TypeOK
  <2>2. CASE UNCHANGED stops
    BY Zenon, <2>2 DEF stops
  <2> QED
    BY Zenon, <2>1, <2>2 DEF WaitStep, WaitFind, WaitRemove, WaitTerminate, WaitDestroy, WaitNoZombie,
         WaitSignal, WaitStopped, WaitContinued, WaitHasChildren, WaitPrepare, WaitResume
<1>4. CASE WaitFind(p) \/ WaitNoZombie(p) \/ WaitSignal(p) \/ WaitStopped(p) \/ WaitContinued(p)
           \/ WaitHasChildren(p) \/ WaitResume(p)
  <2>1. UNCHANGED <<st, children>>
    BY Zenon, <1>4 DEF WaitFind, WaitNoZombie, WaitSignal, WaitStopped, WaitContinued, WaitHasChildren,
                WaitResume, tree
  <2> QED
    BY Zenon, <1>1, <1>2, <1>3, <2>1, MissOwnStep
<1>5. CASE WaitRemove(p) \/ WaitTerminate(p) \/ WaitDestroy(p)
  <2>1. /\ \A q \in Procs : st'[q] = st[q] \/ st'[q] \in {"TERMINATED", "FREE"}
        /\ \A q \in Procs : children'[q] \subseteq children[q]
        /\ UNCHANGED <<stop_reported, cont>>
    BY <1>5 DEF WaitRemove, WaitTerminate, WaitDestroy, RemoveChild, tree, stops, TypeOK
  <2>2. st[p] # "BLOCKED" /\ (st'[p] # "BLOCKED")
    BY Zenon, <1>1, <2>1
  <2>3. Undisturbed
    BY Zenon, <1>1, <1>2, <2>1, <2>2 DEF Undisturbed, Reapable, StopToReport
  <2>4. MarksKept
    BY Zenon, <1>1, <2>1 DEF MarksKept, MissInv, SleepInv
  <2> QED
    BY ZenonT(40), <2>3, <2>4, MissUndisturbed
<1>6. CASE WaitPrepare(p)
  <2>1. UNCHANGED children
    BY Zenon, <1>6 DEF WaitPrepare, tree
  <2>2. CASE UNCHANGED st
    BY Zenon, <1>1, <1>2, <1>3, <2>1, <2>2, MissOwnStep
  <2>3. CASE st' # st
    <3>1. /\ Sleeps(p) /\ st' = [st EXCEPT ![p] = "BLOCKED"] /\ active'[p] /\ pc'[p] = "asleep"
          /\ UNCHANGED <<stop_reported, cont, sel, opts>>
      BY ZenonT(40), <1>6, <2>3 DEF WaitPrepare, Goto, stops, TypeOK
    <3>2. st'[p] = "BLOCKED" /\ \A q \in Procs \ {p} : st'[q] = st[q]
      BY Zenon, <3>1 DEF TypeOK
    <3>3. SleepInv'
      BY <1>1, <1>2, <3>1, <3>2 DEF MissInv, SleepInv
    <3>4. \A q : MatchingChildren(q)' = MatchingChildren(q)
      BY Zenon, <2>1, <3>1 DEF MatchingChildren, child_matches_waitpid
    <3>5. \A q \in Procs : MatchingChildren(q) \subseteq Procs
      BY Zenon DEF MatchingChildren, TypeOK
    <3>6. \A z \in Procs : (Reapable(z)' => Reapable(z)) /\ (StopToReport(z)' => StopToReport(z))
      BY Zenon, <1>1, <3>1, <3>2 DEF Reapable, StopToReport
    <3>7. \A q \in Procs : pc[q] = "exitwake" => pc'[q] = "exitwake"
      BY Zenon, <1>1, <1>2
    <3>8. ZombieNotMissed'
      <4> SUFFICES ASSUME NEW q \in Procs, st'[q] = "BLOCKED", NEW z \in MatchingChildren(q), Reapable(z)
                   PROVE  \/ \E s \in Scanners : z \in scan[s].wake
                          \/ q = init /\ \E r \in Procs : pc'[r] = "exitwake"
        BY Zenon, <1>1, <3>4, <3>5, <3>6 DEF ZombieNotMissed, Waiting
      <4>1. q # p
        BY Zenon, <3>1 DEF Sleeps
      <4> QED
        BY Zenon, <3>2, <3>7, <4>1 DEF MissInv, ZombieNotMissed, Waiting
    <3>9. StopNotMissed'
      <4> SUFFICES ASSUME NEW q \in Procs \ {init}, st'[q] = "BLOCKED" PROVE NoStop(q)' /\ NoContinue(q)'
        BY Zenon DEF StopNotMissed, Waiting
      <4>1. NoStop(q) /\ NoContinue(q)
        BY Zenon, <3>1, <3>2 DEF Sleeps, MissInv, StopNotMissed, Waiting
      <4> QED
        BY ZenonT(40), <3>1, <3>4, <3>5, <3>6, <4>1 DEF NoStop, NoContinue
    <3> QED
      BY Zenon, <3>3, <3>8, <3>9 DEF MissInv
  <2> QED
    BY Zenon, <2>2, <2>3
<1> QED
  BY Zenon, <1>4, <1>5, <1>6 DEF WaitStep

(* Every step keeps MissInv. *)
LEMMA MissNext == ASSUME TreeInv, MissInv, [Next]_vars PROVE MissInv'
<1>1. CASE UNCHANGED vars
  <2>1. TypeOK
    BY Zenon DEF TreeInv
  <2>2. UNCHANGED <<st, children, stamp, left, stop_reported, cont, active, pc, sel, opts, scan>>
    BY Zenon, <1>1 DEF vars, tree, stops, call
  <2>3. Undisturbed /\ MarksKept
    BY Zenon, <2>2 DEF Undisturbed, Reapable, StopToReport, MarksKept, MissInv, SleepInv
  <2> QED
    BY Zenon, <2>1, <2>3, MissUndisturbed
<1>2. ASSUME NEW p \in Procs, UserStep(p) \/ ExitStep(p) \/ LeaveStack(p)
      PROVE  MissInv'
  BY Zenon, <1>2, MissUser, MissExitOrphan, MissExitWakeInit
<1> QED
  BY Zenon, <1>1, <1>2, MissWait, MissSignals, MissScan DEF Next

(* Whoever sleeps in waitpid() has no child to collect, and no stop or     *)
(* continuation to report, without a wake-up on its way: whatever happens  *)
(* between the unlocked questions of kernel_waitpid() and the scan's two   *)
(* halves, with any dispositions and any number of processes and scans.    *)
THEOREM NothingMissedCorrect == Spec => [](ZombieNotMissed /\ StopNotMissed)
<1>1. Init => TreeInv /\ MissInv
  <2>1. Init => ZombieNotMissed /\ StopNotMissed
    BY DEF Init, ZombieNotMissed, StopNotMissed, Waiting
  <2> QED
    BY Zenon, <2>1, InitTree DEF MissInv
<1>2. TreeInv /\ MissInv /\ [Next]_vars => TreeInv' /\ MissInv'
  BY Zenon, TreeNext, MissNext
<1>3. MissInv => ZombieNotMissed /\ StopNotMissed
  BY Zenon DEF MissInv
<1> QED
  BY <1>1, <1>2, <1>3, PTL DEF Spec

-----------------------------------------------------------------------------
(* Children to wait for.  While nobody ignores SIGCHLD, only its parent    *)
(* takes a child away from a living process.                               *)
LEMMA HasChildNext ==
  ASSUME "ign" \notin Dispositions, TreeInv, HasChildInv, [Next]_vars
  PROVE  HasChildInv'
<1> DEFINE Kept == \A q \in Procs : pc'[q] \in {"prep", "asleep"} =>
                     /\ pc[q] \in {"prep", "asleep"} /\ sel'[q] = sel[q]
                     /\ children[q] \subseteq children'[q]
<1> TypeOK
  BY Zenon DEF TreeInv
<1>1. ASSUME Kept PROVE HasChildInv'
  BY Zenon, <1>1 DEF HasChildInv, MatchingChildren, child_matches_waitpid
<1>2. ASSUME NEW p \in Procs, UserStep(p) \/ ExitStep(p) \/ LeaveStack(p)
      PROVE  Kept
  <2>1. ASSUME NEW c \in Procs, Fork(p, c) PROVE Kept
    BY Zenon, <2>1 DEF Fork, call, TypeOK
  <2>2. ASSUME NEW w, NEW o, WaitCall(p, w, o) PROVE Kept
    BY ZenonT(40), <2>2 DEF WaitCall, Goto, tree, TypeOK
  <2>3. CASE ExitOrphan(p)
    BY SMTT(30), <2>3, LifecycleAssumption DEF ExitOrphan, Goto, TypeOK
  <2>4. CASE ExitStep(p)
    BY <2>4 DEF ExitStep, ExitWakeInit, ExitZombie, Goto, tree, TypeOK
  <2>5. CASE LeaveStack(p) \/ \E d \in Dispositions : SetSigchld(p, d)
    BY Zenon, <2>5 DEF LeaveStack, SetSigchld, call, tree
  <2> QED
    BY <1>2, <2>1, <2>2, <2>3, <2>4, <2>5 DEF UserStep
<1>3. ASSUME NEW p \in Procs,
             Stop(p) \/ continue_process(p) \/ Signal(p) \/ SignalWake(p) \/ Deliver(p)
      PROVE  Kept
  BY Zenon, <1>3 DEF Stop, continue_process, Signal, SignalWake, Deliver, call, tree
<1>4. ASSUME NEW s \in Scanners, ScanStep(s) PROVE Kept
  <2>1. UNCHANGED call
    BY Zenon, <1>4 DEF ScanStep, ScanLocked, ScanDestroy, ScanWake, ScanSigchld
  <2>2. UNCHANGED tree
    BY Zenon, <1>4, ScanClaimsNobody DEF ScanStep, ScanDestroy, ScanWake, ScanSigchld, QuietStep
  <2> QED
    BY Zenon, <2>1, <2>2 DEF call, tree
<1>5. ASSUME NEW p \in Procs, WaitStep(p) PROVE HasChildInv'
  <2>1. CASE WaitFind(p) \/ WaitTerminate(p) \/ WaitDestroy(p) \/ WaitNoZombie(p)
    BY SMTT(30), <1>1, <2>1 DEF WaitFind, WaitTerminate, WaitDestroy, WaitNoZombie, Goto, Return,
                      ClearAndReturn, tree, TypeOK
  <2>2. CASE WaitRemove(p)
    BY ZenonT(40), <1>1, <2>2 DEF WaitRemove, RemoveChild, Goto, tree, TypeOK
  <2>3. CASE WaitSignal(p) \/ WaitStopped(p) \/ WaitContinued(p)
    BY <1>1, <2>3 DEF WaitSignal, WaitStopped, WaitContinued, Goto, Return, ClearAndReturn, tree,
                      TypeOK
  <2>4. CASE WaitPrepare(p) \/ WaitResume(p)
    <3>1. Kept
      BY <2>4 DEF WaitPrepare, WaitResume, At, Goto, Return, tree, TypeOK
    <3> QED
      BY ZenonT(40), <1>1, <3>1
  <2>5. CASE WaitHasChildren(p)
    <3>1. /\ UNCHANGED children
          /\ \A q \in Procs \ {p} : pc'[q] = pc[q] /\ sel'[q] = sel[q]
          /\ pc'[p] = "prep" => MatchingChildren(p) # {} /\ sel'[p] = sel[p]
          /\ pc'[p] # "asleep"
      BY <2>5 DEF WaitHasChildren, Goto, Return, ClearAndReturn, tree, TypeOK
    <3> QED
      BY Zenon, <3>1 DEF HasChildInv, MatchingChildren, child_matches_waitpid
  <2> QED
    BY SMTT(30), <1>5, <2>1, <2>2, <2>3, <2>4, <2>5 DEF WaitStep
<1>6. CASE UNCHANGED vars
  BY Zenon, <1>1, <1>6 DEF vars, call, tree
<1> HIDE DEF Kept
<1> QED
  BY Zenon, <1>1, <1>2, <1>3, <1>4, <1>5, <1>6 DEF Next

(* While nobody ignores SIGCHLD, whoever sleeps in waitpid() has a child   *)
(* to wait for, although waitpid_prepare_sleep() does not ask again.       *)
THEOREM SomethingToWaitForCorrect ==
  ASSUME "ign" \notin Dispositions
  PROVE  Spec => []SomethingToWaitFor
<1>1. Init => TreeInv /\ MissInv /\ HasChildInv
  <2>1. Init => ZombieNotMissed /\ StopNotMissed /\ HasChildInv
    BY Zenon DEF Init, ZombieNotMissed, StopNotMissed, Waiting, HasChildInv
  <2> QED
    BY Zenon, <2>1, InitTree DEF MissInv
<1>2. TreeInv /\ MissInv /\ HasChildInv /\ [Next]_vars => TreeInv' /\ MissInv' /\ HasChildInv'
  BY Zenon, TreeNext, MissNext, HasChildNext
<1>3. MissInv /\ HasChildInv => SomethingToWaitFor
  BY Zenon DEF MissInv, SleepInv, HasChildInv, SomethingToWaitFor, Waiting
<1> QED
  BY <1>1, <1>2, <1>3, PTL DEF Spec
============================================================================
