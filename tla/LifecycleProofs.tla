-------------------------- MODULE LifecycleProofs --------------------------
(***************************************************************************)
(* Processes are born, orphaned, collected and freed without the family    *)
(* tree coming apart or a status being returned twice, for any number of   *)
(* processes and of scanning CPUs.                                         *)
(***************************************************************************)
EXTENDS Lifecycle, FiniteSetTheorems, TLAPS

(* A process that holds a zombie it found. *)
Reaping == {"reap", "term", "destroy"}

(* TreeConsistent is not inductive by itself: a process that has handed     *)
(* over its children stays without any until it is a zombie, process 1     *)
(* outlives everyone, and what waitpid() or the scan is about to destroy   *)
(* is dead and has left the tree, or is still on the caller's own list.    *)
InitLives ==
  /\ parent[init] = None
  /\ st[init] \notin Dead \cup {"NEW"}
  /\ pc[init] \notin {"exitwake", "zombie", "dead"}

ExitersChildless == \A p \in Procs : pc[p] \in {"exitwake", "zombie"} => children[p] = {}

VictimsDead ==
  \A p \in Procs : pc[p] \in Reaping =>
    /\ victim[p] \in Procs
    /\ st[victim[p]] \in Dead
    /\ parent[victim[p]] = None \/ (pc[p] = "reap" /\ parent[victim[p]] = p)

ClaimedDead ==
  \A s \in Scanners : \A z \in scan[s].reap :
    z \in Procs /\ st[z] \in Dead /\ parent[z] = None

TreeInv ==
  TypeOK /\ TreeConsistent /\ InitLives /\ ExitersChildless /\ VictimsDead /\ ClaimedDead

(* While no parent ignores SIGCHLD: the scan claims nobody, two callers     *)
(* never hold the same zombie, a held one is not freed, and a status is    *)
(* returned by the step that frees.                                        *)
OnceInv ==
  /\ \A s \in Scanners : scan[s].reap = {}
  /\ \A p \in Procs : pc[p] \in Reaping =>
       /\ st[victim[p]] = (IF pc[p] = "destroy" THEN "TERMINATED" ELSE "ZOMBIE")
       /\ pc[p] = "reap" => parent[victim[p]] = p
       /\ \A q \in Procs : pc[q] \in Reaping /\ victim[q] = victim[p] => q = p
  /\ \A z \in Procs : reports[z] = IF st[z] = "FREE" THEN 1 ELSE 0

(* Who sleeps is in waitpid() and can be woken; a zombie is marked until a *)
(* scan has seen it off its stack; a process starts with nothing to report.*)
SleepInv ==
  \A p \in Procs :
    /\ st[p] = "BLOCKED" => active[p] /\ pc[p] = "asleep"
    /\ st[p] = "ZOMBIE" /\ ~left[p] => stamp[p]
    /\ st[p] = "NEW" => ~cont[p] 

-----------------------------------------------------------------------------
(* The state init starts from. *)
LEMMA InitTree == Init => TreeInv /\ SleepInv
<1> SUFFICES ASSUME Init PROVE TreeInv /\ SleepInv
  OBVIOUS
<1> USE LifecycleAssumption DEF Init
<1>1. TypeOK
  <2>1. /\ stamp \in [Procs -> BOOLEAN] /\ left \in [Procs -> BOOLEAN]
        /\ stop_reported \in [Procs -> BOOLEAN] /\ cont \in [Procs -> BOOLEAN]
        /\ active \in [Procs -> BOOLEAN]
    BY Zenon, Zenon
  <2>2. /\ st \in [Procs -> States] /\ parent \in [Procs -> Procs \cup {None}]
        /\ children \in [Procs -> SUBSET Procs] /\ chld \in [Procs -> Dispositions]
        /\ pending \subseteq Procs /\ waking \subseteq Procs
    BY Zenon DEF States
  <2>3. /\ pc \in [Procs -> Pcs] /\ sel \in [Procs -> Procs \cup {Any}]
        /\ opts \in [Procs -> OptionSets \cup {{}}] /\ victim \in [Procs -> Procs \cup {None}]
        /\ scan \in [Scanners -> [reap : SUBSET Procs, wake : SUBSET Procs, chld : SUBSET Procs]]
        /\ reports \in [Procs -> Nat]
    BY Zenon DEF Pcs, NoScan
  <2> QED
    BY Zenon, <2>1, <2>2, <2>3, Zenon DEF TypeOK
<1>2. TreeConsistent /\ InitLives
  BY Zenon DEF TreeConsistent, InitLives, Dead
<1>3. ExitersChildless /\ VictimsDead /\ ClaimedDead /\ SleepInv
  BY Zenon DEF ExitersChildless, VictimsDead, Reaping, ClaimedDead, NoScan, SleepInv
<1> QED
  BY Zenon, <1>1, <1>2, <1>3 DEF TreeInv

-----------------------------------------------------------------------------
(* Types. *)
LEMMA TypeUser ==
  ASSUME TypeOK, NEW p \in Procs, UserStep(p) \/ ExitStep(p) \/ LeaveStack(p)
  PROVE  TypeOK'
<1> USE LifecycleAssumption DEF TypeOK, tree, signals, stops, call, Goto, Pcs, States
<1>1. ASSUME NEW c \in Procs, Fork(p, c) PROVE TypeOK'
  BY <1>1 DEF Fork
<1>2. ASSUME NEW d \in Dispositions, SetSigchld(p, d) PROVE TypeOK'
  BY Zenon, <1>2 DEF SetSigchld
<1>3. ASSUME NEW w \in children[p] \cup {Any}, NEW o \in OptionSets, WaitCall(p, w, o)
      PROVE  TypeOK'
  BY Zenon, <1>3 DEF WaitCall
<1>4. CASE ExitOrphan(p)
  BY ZenonT(40), <1>4 DEF ExitOrphan
<1>5. CASE ExitWakeInit(p)
  BY Zenon, <1>5 DEF ExitWakeInit
<1>6. CASE ExitZombie(p)
  BY Zenon, <1>6 DEF ExitZombie
<1>7. CASE LeaveStack(p)
  BY Zenon, <1>7 DEF LeaveStack
<1> QED
  BY Zenon, <1>1, <1>2, <1>3, <1>4, <1>5, <1>6, <1>7 DEF UserStep, ExitStep

(* Stops, continuations and signals keep the types. *)
LEMMA TypeSignals ==
  ASSUME TypeOK, NEW p \in Procs,
         Stop(p) \/ continue_process(p) \/ Signal(p) \/ SignalWake(p) \/ Deliver(p)
  PROVE  TypeOK'
<1> USE LifecycleAssumption DEF TypeOK, tree, signals, stops, call, Goto, Pcs, States, Woken
<1>1. CASE Stop(p)
  BY Zenon, <1>1 DEF Stop
<1>2. CASE continue_process(p)
  BY Zenon, <1>2 DEF continue_process
<1>3. CASE Signal(p)
  BY <1>3 DEF Signal
<1>4. CASE SignalWake(p)
  BY Zenon, <1>4 DEF SignalWake
<1>5. CASE Deliver(p)
  BY Zenon, <1>5 DEF Deliver
<1> QED
  BY Zenon, <1>1, <1>2, <1>3, <1>4, <1>5

(* The scan's steps keep the types. *)
LEMMA TypeScan ==
  ASSUME TypeOK, NEW s \in Scanners, ScanStep(s)
  PROVE  TypeOK'
<1> USE LifecycleAssumption DEF TypeOK, tree, signals, stops, call, States, Woken
<1>1. CASE ScanLocked(s)
  <2>1. PICK R \in SUBSET Procs, W \in SUBSET Procs :
          /\ st' = [p \in Procs |-> IF p \in R THEN "TERMINATED" ELSE Woken(WaitersFor(R))[p]]
          /\ parent' = [p \in Procs |-> IF p \in R THEN None ELSE parent[p]]
          /\ children' = [p \in Procs |-> children[p] \ R]
          /\ stamp' = [p \in Procs |-> IF p \in R \cup W THEN FALSE ELSE stamp[p]]
          /\ scan' = [scan EXCEPT ![s] = [reap |-> R, wake |-> W, chld |-> {}]]
    BY Zenon, <1>1 DEF ScanLocked
  <2>2. UNCHANGED <<left, signals, stops, active, call, reports>>
    BY Zenon, <1>1 DEF ScanLocked
  <2>3. st' \in [Procs -> States] /\ parent' \in [Procs -> Procs \cup {None}]
    BY Zenon, <2>1
  <2>4. children' \in [Procs -> SUBSET Procs]
    BY Zenon, <2>1
  <2>5. stamp' \in [Procs -> BOOLEAN]
    BY Zenon, <2>1
  <2>6. scan' \in [Scanners -> [reap : SUBSET Procs, wake : SUBSET Procs, chld : SUBSET Procs]]
    BY Zenon, <2>1
  <2> QED
    BY Zenon, <2>2, <2>3, <2>4, <2>5, <2>6
<1> DEFINE Scans == [reap : SUBSET Procs, wake : SUBSET Procs, chld : SUBSET Procs]
<1>2. scan[s] \in Scans
  OBVIOUS
<1>3. ASSUME NEW z \in Procs, ScanDestroy(s, z) PROVE TypeOK'
  <2>1. scan' \in [Scanners -> Scans]
    BY Zenon, <1>2, <1>3 DEF ScanDestroy
  <2> QED
    BY Zenon, <1>3, <2>1 DEF ScanDestroy
<1>4. ASSUME NEW z \in Procs, ScanWake(s, z) PROVE TypeOK'
  <2>1. scan' \in [Scanners -> Scans]
    BY <1>2, <1>4 DEF ScanWake
  <2> QED
    BY Zenon, <1>4, <2>1 DEF ScanWake
<1>5. ASSUME NEW z \in Procs, ScanSigchld(s, z) PROVE TypeOK'
  <2>1. scan' \in [Scanners -> Scans]
    BY Zenon, <1>2, <1>5 DEF ScanSigchld
  <2> QED
    BY SMTT(30), <1>5, <2>1 DEF ScanSigchld
<1> QED
  BY Zenon, <1>1, <1>3, <1>4, <1>5 DEF ScanStep

(* What a call keeps about itself when it returns, and when it goes on. *)
CallTypes ==
  /\ pc \in [Procs -> Pcs] /\ sel \in [Procs -> Procs \cup {Any}]
  /\ opts \in [Procs -> OptionSets \cup {{}}] /\ victim \in [Procs -> Procs \cup {None}]

(* Returning from waitpid() keeps the types of the call. *)
LEMMA TypeReturn == ASSUME TypeOK, NEW p \in Procs, Return(p) PROVE CallTypes'
BY Zenon DEF TypeOK, Return, Goto, Pcs, CallTypes

(* Moving on within a call keeps the program counter's type. *)
LEMMA TypeGoto ==
  ASSUME TypeOK, NEW p \in Procs, NEW l \in Pcs, Goto(p, l), UNCHANGED <<sel, opts, victim>>
  PROVE  CallTypes'
BY Zenon DEF TypeOK, Goto, CallTypes

(* Every step of waitpid() keeps the types. *)
LEMMA TypeWait ==
  ASSUME TypeOK, NEW p \in Procs, WaitStep(p)
  PROVE  TypeOK'
<1> DEFINE Rest == <<chld, pending, waking, stamp, left, scan>>
<1>1. ASSUME CallTypes', UNCHANGED <<Rest, tree, stops, reports>>,
             st' \in [Procs -> States], active' \in [Procs -> BOOLEAN]
      PROVE  TypeOK'
  BY Zenon, <1>1, Zenon DEF TypeOK, CallTypes, tree, stops
<1>2. st \in [Procs -> States] /\ active \in [Procs -> BOOLEAN]
  BY Zenon DEF TypeOK
<1>3. [active EXCEPT ![p] = FALSE] \in [Procs -> BOOLEAN]
  BY Zenon, <1>2
<1>4. \A l \in Pcs : Goto(p, l) /\ UNCHANGED <<sel, opts, victim>> => CallTypes'
  BY Zenon, TypeGoto
<1>5. ClearAndReturn(p) => CallTypes' /\ active' \in [Procs -> BOOLEAN]
  BY Zenon, <1>3, TypeReturn DEF ClearAndReturn
<1> USE DEF signals
<1>6. CASE WaitFind(p)
  <2>1. CallTypes'
    BY <1>6 DEF WaitFind, TypeOK, CallTypes, Goto, Pcs, MatchingChildren
  <2> QED
    BY Zenon, <1>1, <1>2, <1>6, <2>1 DEF WaitFind
<1>7. CASE WaitNoZombie(p)
  BY Zenon, <1>1, <1>2, <1>4, <1>7 DEF WaitNoZombie, Pcs
<1>8. CASE WaitRemove(p)
  <2>1. CallTypes'
    BY Zenon, <1>4, <1>8 DEF WaitRemove, Pcs
  <2>2. parent' \in [Procs -> Procs \cup {None}] /\ children' \in [Procs -> SUBSET Procs]
    BY <1>8 DEF WaitRemove, RemoveChild, tree, TypeOK
  <2>3. UNCHANGED <<Rest, stops, reports, st, active>>
    BY Zenon, <1>8 DEF WaitRemove
  <2> QED
    BY Zenon, <2>1, <2>2, <2>3, Zenon DEF TypeOK, CallTypes, stops
<1>9. CASE WaitTerminate(p)
  <2>1. CallTypes'
    BY Zenon, <1>4, <1>9 DEF WaitTerminate, Pcs
  <2>2. st' \in [Procs -> States]
    BY Zenon, <1>2, <1>9 DEF WaitTerminate, States
  <2> QED
    BY Zenon, <1>1, <1>2, <1>9, <2>1, <2>2 DEF WaitTerminate
<1>10. CASE WaitDestroy(p)
  <2>1. CallTypes' /\ active' \in [Procs -> BOOLEAN]
    BY Zenon, <1>5, <1>10 DEF WaitDestroy
  <2>2. /\ st' \in [Procs -> States] /\ reports' \in [Procs -> Nat]
    <3>1. reports \in [Procs -> Nat]
      BY Zenon DEF TypeOK
    <3>2. reports' \in [Procs -> Nat]
      <4>1. CASE victim[p] \in Procs
        BY <1>10, <3>1, <4>1 DEF WaitDestroy
      <4>2. CASE victim[p] \notin Procs
        BY Zenon, <1>10, <3>1, <4>2 DEF WaitDestroy
      <4> QED
        BY Zenon, <4>1, <4>2
    <3>3. \A v : [st EXCEPT ![v] = "FREE"] \in [Procs -> States]
      BY Zenon, <1>2 DEF States
    <3> QED
      BY Zenon, <1>10, <3>2, <3>3 DEF WaitDestroy
  <2>3. UNCHANGED <<Rest, tree, stops>>
    BY Zenon, <1>10 DEF WaitDestroy
  <2> QED
    BY Zenon, <2>1, <2>2, <2>3, Zenon DEF TypeOK, CallTypes, tree, stops
<1>11. CASE WaitSignal(p)
  <2>1. UNCHANGED <<Rest, tree, stops, reports, st>>
    BY Zenon, <1>11 DEF WaitSignal
  <2>2. CallTypes' /\ active' \in [Procs -> BOOLEAN]
    BY Zenon, <1>2, <1>4, <1>5, <1>11 DEF WaitSignal, Pcs
  <2> QED
    BY Zenon, <1>1, <1>2, <2>1, <2>2
<1>12. ASSUME UNCHANGED <<Rest, tree, reports>>, CallTypes',
              st' \in [Procs -> States], active' \in [Procs -> BOOLEAN],
              ReportStop(p) \/ ReportContinue(p) \/ UNCHANGED stops
       PROVE  TypeOK'
  <2>1. stop_reported' \in [Procs -> BOOLEAN] /\ cont' \in [Procs -> BOOLEAN]
    BY Zenon, <1>12 DEF ReportStop, ReportContinue, stops, TypeOK
  <2> QED
    BY Zenon, <1>12, <2>1, Zenon DEF TypeOK, CallTypes, tree
<1>13. CASE WaitStopped(p) \/ WaitContinued(p)
  <2>1. UNCHANGED <<Rest, tree, reports, st>>
    BY Zenon, <1>13 DEF WaitStopped, WaitContinued
  <2>2. CallTypes' /\ active' \in [Procs -> BOOLEAN]
    BY Zenon, <1>2, <1>4, <1>5, <1>13 DEF WaitStopped, WaitContinued, Pcs
  <2>3. ReportStop(p) \/ ReportContinue(p) \/ UNCHANGED stops
    BY Zenon, <1>13 DEF WaitStopped, WaitContinued
  <2> QED
    BY Zenon, <1>2, <1>12, <2>1, <2>2, <2>3
<1>14. CASE WaitHasChildren(p)
  <2>1. UNCHANGED <<Rest, tree, stops, reports, st>>
    BY Zenon, <1>14 DEF WaitHasChildren
  <2>2. CallTypes' /\ active' \in [Procs -> BOOLEAN]
    BY Zenon, <1>2, <1>4, <1>5, <1>14 DEF WaitHasChildren, Pcs
  <2> QED
    BY Zenon, <1>1, <1>2, <2>1, <2>2
<1>15. CASE WaitPrepare(p)
  <2>1. UNCHANGED <<Rest, tree, reports>>
    BY Zenon, <1>15 DEF WaitPrepare
  <2>2. CallTypes'
    BY Zenon, <1>4, <1>15, TypeReturn DEF WaitPrepare, Pcs
  <2>3. st' \in [Procs -> States] /\ active' \in [Procs -> BOOLEAN]
    BY Zenon, <1>2, <1>15 DEF WaitPrepare, States
  <2>4. ReportStop(p) \/ ReportContinue(p) \/ UNCHANGED stops
    BY Zenon, <1>15 DEF WaitPrepare
  <2> QED
    BY Zenon, <1>12, <2>1, <2>2, <2>3, <2>4
<1>16. CASE WaitResume(p)
  BY Zenon, <1>1, <1>2, <1>3, <1>4, <1>16 DEF WaitResume, Pcs
<1> QED
  BY Zenon, <1>6, <1>7, <1>8, <1>9, <1>10, <1>11, <1>13, <1>14, <1>15, <1>16 DEF WaitStep

(* Every step keeps the types. *)
LEMMA TypeNext == ASSUME TypeOK, [Next]_vars PROVE TypeOK'
<1>1. CASE UNCHANGED vars
  BY Zenon, <1>1, Zenon DEF vars, tree, signals, stops, call, TypeOK
<1> QED
  BY Zenon, <1>1, TypeUser, TypeSignals, TypeScan, TypeWait DEF Next

-----------------------------------------------------------------------------
(* The tree.  Most steps move processes between the states of the living    *)
(* and calls between their questions: these keep the invariant.            *)
QuietStep ==
  /\ UNCHANGED tree
  /\ \A q \in Procs : \/ st'[q] = st[q]
                      \/ st[q] \notin Dead \cup {"NEW"} /\ st'[q] \notin Dead \cup {"NEW"}
  /\ \A q \in Procs : \/ pc'[q] = pc[q] /\ victim'[q] = victim[q]
                      \/ pc[q] = "exitwake" /\ pc'[q] = "zombie"
                      \/ pc'[q] \notin Reaping \cup {"exitwake", "zombie", "dead"}
  /\ \A s \in Scanners : scan'[s].reap \subseteq scan[s].reap

(* A quiet step keeps TreeInv. *)
LEMMA TreeQuiet == ASSUME TreeInv, TypeOK', QuietStep PROVE TreeInv'
<1> USE LifecycleAssumption DEF QuietStep, tree
<1> SUFFICES TreeConsistent' /\ InitLives' /\ ExitersChildless' /\ VictimsDead' /\ ClaimedDead'
  BY Zenon DEF TreeInv
<1>1. TreeConsistent'
  BY Zenon DEF TreeInv, TreeConsistent, Dead
<1>2. InitLives' /\ ExitersChildless'
  BY Zenon DEF TreeInv, InitLives, ExitersChildless, Reaping, Dead
<1>3. VictimsDead'
  <2> SUFFICES ASSUME NEW q \in Procs, pc'[q] \in Reaping
               PROVE  /\ victim'[q] \in Procs
                      /\ st'[victim'[q]] \in Dead
                      /\ parent[victim'[q]] = None \/ (pc'[q] = "reap" /\ parent[victim'[q]] = q)
    BY Zenon DEF VictimsDead
  <2>1. pc'[q] = pc[q] /\ victim'[q] = victim[q]
    BY Zenon DEF Reaping
  <2> QED
    BY <2>1 DEF TreeInv, VictimsDead, Dead
<1>4. ClaimedDead'
  BY Zenon DEF TreeInv, ClaimedDead, Dead
<1> QED
  BY Zenon, <1>1, <1>2, <1>3, <1>4

(* The steps that are quiet. *)
LEMMA QuietUser ==
  ASSUME TypeOK, NEW p \in Procs,
         \/ \E d \in Dispositions : SetSigchld(p, d)
         \/ \E w \in children[p] \cup {Any}, o \in OptionSets : WaitCall(p, w, o)
         \/ ExitWakeInit(p) \/ LeaveStack(p)
  PROVE  QuietStep
<1> USE DEF TypeOK, QuietStep, Goto, At, call, Reaping
<1>1. ASSUME NEW d \in Dispositions, SetSigchld(p, d) PROVE QuietStep
  BY Zenon, <1>1 DEF SetSigchld
<1>2. ASSUME NEW w, NEW o, WaitCall(p, w, o) PROVE QuietStep
  BY Zenon, <1>2 DEF WaitCall
<1>3. CASE ExitWakeInit(p)
  <2>1. \A q \in Procs : st'[q] = st[q] \/ (st[q] = "BLOCKED" /\ st'[q] = "RUN")
    BY <1>3, LifecycleAssumption DEF ExitWakeInit
  <2>2. \A q \in Procs : pc'[q] = pc[q] \/ (pc[q] = "exitwake" /\ pc'[q] = "zombie")
    BY Zenon, <1>3 DEF ExitWakeInit
  <2>3. UNCHANGED <<tree, victim, scan>>
    BY Zenon, <1>3 DEF ExitWakeInit
  <2> QED
    BY Zenon, <2>1, <2>2, <2>3 DEF Dead
<1>4. CASE LeaveStack(p)
  BY Zenon, <1>4 DEF LeaveStack
<1> QED
  BY Zenon, <1>1, <1>2, <1>3, <1>4

(* Stops, continuations and signals are quiet. *)
LEMMA QuietSignals ==
  ASSUME TypeOK, NEW p \in Procs,
         Stop(p) \/ continue_process(p) \/ Signal(p) \/ SignalWake(p) \/ Deliver(p)
  PROVE  QuietStep
<1> USE DEF TypeOK, QuietStep, Goto, At, call, Dead
<1>1. CASE Stop(p)
  BY Zenon, <1>1 DEF Stop, Woken, WaitersFor
<1>2. CASE continue_process(p)
  BY Zenon, <1>2 DEF continue_process, Woken, WaitersFor
<1>3. CASE Signal(p) \/ Deliver(p)
  BY Zenon, <1>3 DEF Signal, Deliver
<1>4. CASE SignalWake(p)
  BY Zenon, <1>4 DEF SignalWake
<1> QED
  BY Zenon, <1>1, <1>2, <1>3, <1>4

(* The scan's wake-up and its SIGCHLD are quiet. *)
LEMMA QuietScan ==
  ASSUME TypeOK, NEW s \in Scanners, NEW z \in Procs, ScanWake(s, z) \/ ScanSigchld(s, z)
  PROVE  QuietStep
<1> USE DEF TypeOK, QuietStep, call, Dead
<1>1. CASE ScanWake(s, z)
  BY Zenon, <1>1 DEF ScanWake, Woken, WaitersFor
<1>2. CASE ScanSigchld(s, z)
  BY ZenonT(40), <1>2 DEF ScanSigchld
<1> QED
  BY Zenon, <1>1, <1>2

(* The steps of waitpid() that free nobody are quiet. *)
LEMMA QuietWait ==
  ASSUME TypeOK, NEW p \in Procs,
         \/ WaitNoZombie(p) \/ WaitSignal(p) \/ WaitStopped(p) \/ WaitContinued(p)
         \/ WaitHasChildren(p) \/ WaitPrepare(p) \/ WaitResume(p)
  PROVE  QuietStep
<1>1. PICK l \in {"user", "find", "sig", "stopped", "continued", "has", "prep", "asleep"} :
        Goto(p, l)
  BY Zenon DEF WaitNoZombie, WaitSignal, WaitStopped, WaitContinued, WaitHasChildren, WaitPrepare,
         WaitResume, ClearAndReturn, Return
<1>2. \A q \in Procs \ {p} : pc'[q] = pc[q] /\ victim'[q] = victim[q]
  <2>1. UNCHANGED victim \/ Return(p)
    BY Zenon DEF WaitNoZombie, WaitSignal, WaitStopped, WaitContinued, WaitHasChildren, WaitPrepare,
           WaitResume, ClearAndReturn
  <2> QED
    BY <1>1, <2>1 DEF TypeOK, Goto, Return
<1>3. pc'[p] = l
  BY Zenon, <1>1 DEF TypeOK, Goto
<1>4. st' = st \/ (st[p] = "RUN" /\ st' = [st EXCEPT ![p] = "BLOCKED"])
  BY Zenon DEF WaitNoZombie, WaitSignal, WaitStopped, WaitContinued, WaitHasChildren, WaitPrepare,
         WaitResume, At
<1>5. UNCHANGED <<tree, scan>>
  BY Zenon DEF WaitNoZombie, WaitSignal, WaitStopped, WaitContinued, WaitHasChildren, WaitPrepare,
         WaitResume
<1> QED
  BY Zenon, <1>1, <1>2, <1>3, <1>4, <1>5 DEF QuietStep, TypeOK, Dead, Reaping

(* The others, one by one. *)
LEMMA TreeFork ==
  ASSUME TreeInv, TypeOK', NEW p \in Procs, NEW c \in Procs, Fork(p, c)
  PROVE  TreeInv'
<1> USE LifecycleAssumption DEF TreeInv, TypeOK, Fork, At, call, Dead
<1>1. parent[c] = None /\ c # init /\ st[c] = "NEW" /\ st[p] = "RUN" /\ pc[p] = "user"
  BY DEF TreeConsistent, InitLives
<1>2. /\ \A q \in Procs : parent'[q] = IF q = c THEN p ELSE parent[q]
      /\ \A q \in Procs : children'[q] = IF q = p THEN children[p] \cup {c} ELSE children[q]
      /\ \A q \in Procs : st'[q] = IF q = c THEN "RUN" ELSE st[q]
      /\ UNCHANGED <<pc, victim, scan>>
  OBVIOUS
<1> HIDE DEF Fork, TypeOK
<1>3. TreeConsistent'
  BY <1>1, <1>2 DEF TreeConsistent
<1>4. InitLives' /\ ExitersChildless'
  BY <1>1, <1>2 DEF InitLives, ExitersChildless
<1>5. VictimsDead'
  <2>1. \A q \in Procs : pc[q] \in Reaping => victim[q] \in Procs \ {c}
    BY Zenon, <1>1 DEF VictimsDead
  <2> QED
    BY ZenonT(40), <1>2, <2>1 DEF VictimsDead
<1>6. ClaimedDead'
  BY <1>1, <1>2 DEF ClaimedDead
<1> QED
  BY Zenon, <1>3, <1>4, <1>5, <1>6

(* exit hands the children to process 1. *)
LEMMA TreeExitOrphan ==
  ASSUME TreeInv, TypeOK', NEW p \in Procs, ExitOrphan(p)
  PROVE  TreeInv'
<1> USE LifecycleAssumption DEF TreeInv, TypeOK
<1>1. p # init /\ st[p] = "RUN" /\ pc[p] = "user" /\ pc'[p] \in {"exitwake", "zombie"}
  BY DEF ExitOrphan, At, Goto
<1>2. /\ \A q \in Procs : parent'[q] = IF q \in children[p] THEN init ELSE parent[q]
      /\ children'[init] = children[init] \cup children[p] /\ children'[p] = {}
      /\ \A q \in Procs \ {p, init} : children'[q] = children[q]
      /\ \A q \in Procs \ {p} : pc'[q] = pc[q]
      /\ UNCHANGED <<st, victim, scan>>
  BY <1>1 DEF ExitOrphan, Goto
<1>3. /\ init \notin children[p] /\ \A q \in Procs : q \in children[p] <=> parent[q] = p
  BY DEF TreeConsistent, InitLives
<1>4. TreeConsistent'
  <2>1. \A c \in Procs, q \in Procs : c \in children'[q] <=> parent'[c] = q
    <3>1. \A c \in Procs, q \in Procs : c \in children[q] <=> parent[c] = q
      BY Zenon DEF TreeConsistent
    <3>2. \A c \in Procs : c \in children'[p] <=> parent'[c] = p
      BY <1>1, <1>2, <1>3
    <3>3. \A c \in Procs : c \in children'[init] <=> parent'[c] = init
      BY SMTT(30), <1>1, <1>2, <1>3, <3>1
    <3>4. ASSUME NEW q \in Procs \ {p, init}, NEW c \in Procs
          PROVE  c \in children'[q] <=> parent'[c] = q
      BY SMTT(30), <1>2, <1>3, <3>1, <3>4
    <3> QED
      BY Zenon, <3>2, <3>3, <3>4
  <2>2. \A c \in Procs, q \in Procs : parent'[c] = q =>
          st[q] \notin Dead /\ st[c] \notin {"NEW", "TERMINATED", "FREE"}
    BY <1>2, <1>3 DEF TreeConsistent, InitLives
  <2> QED
    BY Zenon, <1>2, <2>1, <2>2 DEF TreeConsistent
<1>5. InitLives' /\ ExitersChildless'
  BY ZenonT(40), <1>1, <1>2, <1>3 DEF InitLives, ExitersChildless
<1>6. VictimsDead'
  <2>1. \A q \in Procs : pc'[q] \in Reaping => q # p /\ pc[q] = pc'[q]
    BY Zenon, <1>1, <1>2 DEF Reaping
  <2>2. \A q \in Procs : pc'[q] \in Reaping => victim[q] \notin children[p]
    BY <1>3, <2>1 DEF VictimsDead
  <2> QED
    BY <1>2, <2>1, <2>2 DEF VictimsDead
<1>7. ClaimedDead'
  BY <1>2, <1>3 DEF ClaimedDead
<1> QED
  BY Zenon, <1>4, <1>5, <1>6, <1>7

(* exit makes the caller a zombie. *)
LEMMA TreeExitZombie ==
  ASSUME TreeInv, TypeOK', NEW p \in Procs, ExitZombie(p)
  PROVE  TreeInv'
<1> USE LifecycleAssumption DEF TreeInv, TypeOK, Dead
<1>1. /\ st[p] = "RUN" /\ pc[p] = "zombie" /\ p # init /\ children[p] = {}
      /\ st'[p] = "ZOMBIE" /\ pc'[p] = "dead"
      /\ \A q \in Procs \ {p} : st'[q] = st[q] /\ pc'[q] = pc[q]
      /\ UNCHANGED <<parent, children, victim, scan>>
  BY DEF ExitZombie, At, Goto, tree, InitLives, ExitersChildless
<1> HIDE DEF TypeOK
<1>2. TreeConsistent'
  BY <1>1 DEF TreeConsistent
<1>3. InitLives' /\ ExitersChildless'
  BY Zenon, <1>1 DEF InitLives, ExitersChildless
<1>4. ClaimedDead'
  BY <1>1 DEF ClaimedDead
<1>5. VictimsDead'
  <2>1. \A q \in Procs : pc'[q] \in Reaping => q # p /\ pc[q] = pc'[q]
    BY Zenon, <1>1 DEF Reaping
  <2> QED
    BY <1>1, <2>1 DEF VictimsDead
<1> QED
  BY Zenon, <1>2, <1>3, <1>4, <1>5

(* The scan takes the zombies it will free off their parents' lists. *)
LEMMA TreeScanLocked ==
  ASSUME TreeInv, TypeOK', NEW s \in Scanners, ScanLocked(s)
  PROVE  TreeInv'
<1> USE LifecycleAssumption DEF TreeInv, TypeOK, Dead
<1>1. PICK R \in SUBSET {z \in Procs : st[z] = "ZOMBIE"}, W \in SUBSET Procs :
        /\ st' = [p \in Procs |-> IF p \in R THEN "TERMINATED" ELSE Woken(WaitersFor(R))[p]]
        /\ parent' = [p \in Procs |-> IF p \in R THEN None ELSE parent[p]]
        /\ children' = [p \in Procs |-> children[p] \ R]
        /\ scan' = [scan EXCEPT ![s] = [reap |-> R, wake |-> W, chld |-> {}]]
  <2> HIDE DEF TypeOK, TreeInv, Dead
  <2> QED
    BY Zenon DEF ScanLocked
<1>2. UNCHANGED <<pc, victim>>
  BY Zenon DEF ScanLocked, call
<1>3. \A q \in Procs : \/ q \in R /\ st[q] = "ZOMBIE" /\ st'[q] = "TERMINATED"
                       \/ q \notin R /\ st[q] = "BLOCKED" /\ st'[q] = "RUN"
                       \/ q \notin R /\ st'[q] = st[q]
  BY ZenonT(40), <1>1 DEF Woken, WaitersFor
<1>4. /\ \A q \in Procs : parent'[q] = IF q \in R THEN None ELSE parent[q]
      /\ \A q \in Procs : children'[q] = children[q] \ R
      /\ \A u \in Scanners : \A z \in scan'[u].reap : z \in R \/ z \in scan[u].reap
  BY SMTT(30), <1>1
<1>5. TreeConsistent'
  BY SMTT(30), <1>3, <1>4 DEF TreeConsistent
<1>6. InitLives' /\ ExitersChildless'
  BY <1>2, <1>3, <1>4 DEF InitLives, ExitersChildless
<1>7. VictimsDead'
  <2>1. \A q \in Procs : /\ st[q] \in Dead => st'[q] \in Dead
                         /\ parent'[q] = parent[q] \/ parent'[q] = None
    BY Zenon, <1>3, <1>4
  <2> HIDE DEF TypeOK, Dead
  <2> QED
    BY Zenon, <1>2, <2>1 DEF VictimsDead
<1>8. ClaimedDead'
  BY ZenonT(40), <1>3, <1>4 DEF ClaimedDead
<1> QED
  BY Zenon, <1>5, <1>6, <1>7, <1>8

(* A dead process that has left the tree goes on to its next state. *)
LEMMA TreeDestroy ==
  ASSUME TreeInv, TypeOK', NEW z \in Procs, st[z] \in Dead, parent[z] = None,
         st'[z] \in {"TERMINATED", "FREE"}, \A q \in Procs \ {z} : st'[q] = st[q],
         \A q \in Procs : \/ pc'[q] = pc[q] /\ victim'[q] = victim[q]
                          \/ pc[q] = "term" /\ pc'[q] = "destroy" /\ victim'[q] = victim[q]
                          \/ pc'[q] = "user",
         \A u \in Scanners : scan'[u].reap \subseteq scan[u].reap,
         UNCHANGED tree
  PROVE  TreeInv'
<1> USE LifecycleAssumption DEF TreeInv, Dead, tree
<1>1. TreeConsistent'
  BY DEF TreeConsistent
<1>2. InitLives' /\ ExitersChildless'
  BY Zenon DEF InitLives, ExitersChildless
<1>3. ClaimedDead'
  BY DEF ClaimedDead
<1>4. VictimsDead'
  <2>1. \A q \in Procs : pc'[q] \in Reaping =>
          /\ pc[q] \in Reaping /\ victim'[q] = victim[q]
          /\ pc'[q] = "reap" <=> pc[q] = "reap"
    BY Zenon DEF Reaping
  <2>2. \A q \in Procs : st[q] \in Dead => st'[q] \in Dead
    OBVIOUS
  <2> QED
    BY <2>1, <2>2 DEF VictimsDead
<1> QED
  BY Zenon, <1>1, <1>2, <1>3, <1>4

(* The scan frees one of them. *)
LEMMA TreeScanDestroy ==
  ASSUME TreeInv, TypeOK', NEW s \in Scanners, NEW z \in Procs, ScanDestroy(s, z)
  PROVE  TreeInv'
<1>1. st[z] \in Dead /\ parent[z] = None
  BY Zenon DEF ScanDestroy, TreeInv, ClaimedDead
<1>2. st'[z] = "FREE" /\ \A q \in Procs \ {z} : st'[q] = st[q]
  BY Zenon DEF ScanDestroy, TreeInv, TypeOK
<1>3. \A u \in Scanners : scan'[u].reap \subseteq scan[u].reap
  BY DEF ScanDestroy, TreeInv, TypeOK
<1>4. UNCHANGED <<tree, pc, victim>>
  BY Zenon DEF ScanDestroy, call
<1> QED
  BY Zenon, <1>1, <1>2, <1>3, <1>4, TreeDestroy

(* waitpid() marks what it found TERMINATED and then frees it. *)
LEMMA TreeReap ==
  ASSUME TreeInv, TypeOK', NEW p \in Procs, WaitTerminate(p) \/ WaitDestroy(p)
  PROVE  TreeInv'
<1>1. /\ victim[p] \in Procs /\ st[victim[p]] \in Dead /\ parent[victim[p]] = None
      /\ pc[p] \in {"term", "destroy"}
  BY Zenon DEF WaitTerminate, WaitDestroy, At, TreeInv, VictimsDead, Reaping
<1>2. /\ st'[victim[p]] \in {"TERMINATED", "FREE"}
      /\ \A q \in Procs \ {victim[p]} : st'[q] = st[q]
  BY ZenonT(40), <1>1 DEF WaitTerminate, WaitDestroy, TreeInv, TypeOK
<1>3. \A q \in Procs : \/ pc'[q] = pc[q] /\ victim'[q] = victim[q]
                       \/ pc[q] = "term" /\ pc'[q] = "destroy" /\ victim'[q] = victim[q]
                       \/ pc'[q] = "user"
  BY DEF WaitTerminate, WaitDestroy, ClearAndReturn, Return, Goto, At, TreeInv, TypeOK
<1>4. UNCHANGED <<tree, scan>>
  BY Zenon DEF WaitTerminate, WaitDestroy
<1> QED
  BY Zenon, <1>1, <1>2, <1>3, <1>4, TreeDestroy

(* waitpid() finds a zombie on its list. *)
LEMMA TreeFind ==
  ASSUME TreeInv, TypeOK', NEW p \in Procs, WaitFind(p)
  PROVE  TreeInv'
<1> USE LifecycleAssumption DEF TreeInv, TypeOK
<1>1. /\ pc'[p] = "reap" /\ \A q \in Procs \ {p} : pc'[q] = pc[q] /\ victim'[q] = victim[q]
      /\ victim'[p] \in Procs /\ st[victim'[p]] = "ZOMBIE" /\ parent[victim'[p]] = p
      /\ UNCHANGED <<st, tree, scan>>
  BY SMTT(30) DEF WaitFind, Goto, MatchingChildren, Reapable, TreeConsistent
<1>2. TreeConsistent' /\ InitLives' /\ ExitersChildless' /\ ClaimedDead'
  BY SMTT(30), <1>1 DEF tree, TreeConsistent, InitLives, ExitersChildless, ClaimedDead
<1>3. VictimsDead'
  BY <1>1 DEF tree, VictimsDead, Dead
<1> QED
  BY ZenonT(40), <1>2, <1>3

(* waitpid() takes it off the list. *)
LEMMA TreeRemove ==
  ASSUME TreeInv, TypeOK', NEW p \in Procs, WaitRemove(p)
  PROVE  TreeInv'
<1> USE LifecycleAssumption DEF TreeInv, TypeOK
<1> DEFINE v == victim[p]
<1>1. /\ pc[p] = "reap" /\ v \in Procs /\ st[v] \in Dead /\ parent[v] \in {p, None}
      /\ v \in children[p] <=> parent[v] = p
  BY ZenonT(40) DEF WaitRemove, At, VictimsDead, Reaping, TreeConsistent
<1>2. /\ pc'[p] = "term" /\ \A q \in Procs \ {p} : pc'[q] = pc[q]
      /\ UNCHANGED <<st, scan, victim>>
  BY DEF WaitRemove, Goto
<1>3. /\ parent'[v] = None /\ \A q \in Procs \ {v} : parent'[q] = parent[q]
      /\ children'[p] = children[p] \ {v} /\ \A q \in Procs \ {p} : children'[q] = children[q]
  <2>1. CASE v \in children[p]
    BY SMTT(30), <1>1, <2>1 DEF WaitRemove, RemoveChild
  <2>2. CASE v \notin children[p]
    BY SMTT(30), <1>1, <2>2 DEF WaitRemove, RemoveChild, tree
  <2> QED
    BY ZenonT(40), <2>1, <2>2
<1> HIDE DEF TypeOK, v
<1>4. TreeConsistent'
  <2>1. \A c, q \in Procs : c \in children'[q] <=> parent'[c] = q
    BY <1>1, <1>3 DEF TreeConsistent
  <2>2. \A c, q \in Procs : parent'[c] = q => parent[c] = q
    BY <1>1, <1>3
  <2> QED
    BY <1>2, <2>1, <2>2 DEF TreeConsistent
<1>5. InitLives' /\ ExitersChildless' /\ ClaimedDead'
  BY <1>1, <1>2, <1>3 DEF InitLives, ExitersChildless, ClaimedDead
<1>6. VictimsDead'
  <2>1. \A q \in Procs : pc'[q] \in Reaping => pc[q] \in Reaping /\ (q # p => pc'[q] = pc[q])
    BY Zenon, <1>1, <1>2 DEF Reaping
  <2>2. \A q \in Procs : parent[q] = None => parent'[q] = None
    BY Zenon, <1>1, <1>3
  <2> QED
    BY <1>1, <1>2, <1>3, <2>1, <2>2 DEF VictimsDead, v
<1> QED
  BY Zenon, <1>4, <1>5, <1>6

(* Every step keeps TreeInv. *)
LEMMA TreeNext == ASSUME TreeInv, [Next]_vars PROVE TreeInv'
<1>1. TypeOK /\ TypeOK'
  BY Zenon, TypeNext DEF TreeInv
<1>2. ASSUME NEW p \in Procs, UserStep(p) \/ ExitStep(p) \/ WaitStep(p) \/ LeaveStack(p)
      PROVE  TreeInv'
  BY Zenon, <1>1, <1>2, TreeQuiet, QuietUser, QuietWait, TreeFork, TreeExitOrphan, TreeExitZombie, TreeFind,
     TreeRemove, TreeReap DEF UserStep, ExitStep, WaitStep
<1>3. ASSUME NEW p \in Procs,
             Stop(p) \/ continue_process(p) \/ Signal(p) \/ SignalWake(p) \/ Deliver(p)
      PROVE  TreeInv'
  BY Zenon, <1>1, <1>3, TreeQuiet, QuietSignals
<1>4. ASSUME NEW s \in Scanners, ScanStep(s) PROVE TreeInv'
  BY Zenon, <1>1, <1>4, TreeQuiet, QuietScan, TreeScanLocked, TreeScanDestroy DEF ScanStep
<1>5. CASE UNCHANGED vars
  <2>1. QuietStep
    BY Zenon, <1>5 DEF vars, call, QuietStep
  <2> QED
    BY Zenon, <1>1, <2>1, TreeQuiet
<1> QED
  BY Zenon, <1>2, <1>3, <1>4, <1>5 DEF Next

(* The family tree stays consistent, for any number of processes and CPUs: *)
(* lists and parent pointers agree, parents are alive, and the dead that   *)
(* are gone have left it.                                                  *)
THEOREM TreeConsistentCorrect == Spec => [](TypeOK /\ TreeConsistent)
<1>1. Init => TreeInv
  BY Zenon, InitTree
<1>2. TreeInv /\ [Next]_vars => TreeInv'
  BY Zenon, TreeNext
<1>3. TreeInv => TypeOK /\ TreeConsistent
  BY Zenon DEF TreeInv
<1> QED
  BY <1>1, <1>2, <1>3, PTL DEF Spec

-----------------------------------------------------------------------------
(* Statuses.  Without SIG_IGN a scan only notes zombies. *)
LEMMA ScanClaimsNobody ==
  ASSUME "ign" \notin Dispositions, TypeOK, NEW s \in Scanners, ScanLocked(s)
  PROVE  QuietStep /\ scan'[s].reap = {}
<1>1. \A z \in Procs : ~Discards(z)
  BY SMTT(30) DEF Discards, TypeOK
<1>2. PICK W \in SUBSET Procs :
        /\ st' = [p \in Procs |-> IF p \in {} THEN "TERMINATED" ELSE Woken(WaitersFor({}))[p]]
        /\ parent' = [p \in Procs |-> IF p \in {} THEN None ELSE parent[p]]
        /\ children' = [p \in Procs |-> children[p] \ {}]
        /\ scan' = [scan EXCEPT ![s] = [reap |-> {}, wake |-> W, chld |-> {}]]
  BY ZenonT(40), <1>1 DEF ScanLocked
<1>3. WaitersFor({}) = {}
  BY Zenon DEF WaitersFor
<1>4. st' = st /\ parent' = parent /\ children' = children
  BY Zenon, <1>2, <1>3 DEF Woken, TypeOK
<1>5. UNCHANGED <<pc, victim>>
  BY Zenon DEF ScanLocked, call
<1>6. scan'[s].reap = {} /\ \A u \in Scanners : scan'[u].reap \subseteq scan[u].reap
  BY Zenon, <1>2 DEF TypeOK
<1> QED
  BY Zenon, <1>4, <1>5, <1>6 DEF QuietStep, tree

(* A quiet step that returns no status keeps OnceInv. *)
LEMMA OnceQuiet ==
  ASSUME TreeInv, OnceInv, QuietStep, UNCHANGED reports
  PROVE  OnceInv'
<1>1. \A s \in Scanners : scan'[s].reap = {}
  BY Zenon DEF OnceInv, QuietStep
<1>2. \A q \in Procs : pc'[q] \in Reaping => pc'[q] = pc[q] /\ victim'[q] = victim[q]
  BY Zenon DEF QuietStep, Reaping
<1>3. \A q \in Procs : st[q] \in Dead \/ st'[q] \in Dead => st'[q] = st[q]
  BY Zenon DEF QuietStep
<1>4. UNCHANGED parent
  BY Zenon DEF QuietStep, tree
<1>5. \A p \in Procs : pc'[p] \in Reaping =>
        /\ st'[victim'[p]] = (IF pc'[p] = "destroy" THEN "TERMINATED" ELSE "ZOMBIE")
        /\ pc'[p] = "reap" => parent[victim'[p]] = p
  BY <1>2, <1>3 DEF OnceInv, TreeInv, VictimsDead
<1>6. \A p, q \in Procs :
        pc'[p] \in Reaping /\ pc'[q] \in Reaping /\ victim'[q] = victim'[p] => q = p
  BY Zenon, <1>2 DEF OnceInv
<1>7. \A z \in Procs : reports'[z] = IF st'[z] = "FREE" THEN 1 ELSE 0
  BY Zenon, <1>3 DEF OnceInv, Dead
<1> QED
  BY Zenon, <1>1, <1>4, <1>5, <1>6, <1>7 DEF OnceInv

(* A step that gives nobody a zombie, kills nobody who is held and frees   *)
(* nobody.                                                                 *)
LEMMA OnceTree ==
  ASSUME TreeInv, OnceInv, UNCHANGED <<reports, victim, scan>>,
         \A q \in Procs : pc'[q] \in Reaping => pc'[q] = pc[q],
         \A q \in Procs : st[q] \in Dead => st'[q] = st[q] /\ parent'[q] = parent[q],
         \A q \in Procs : st'[q] = "FREE" => st[q] = "FREE"
  PROVE  OnceInv'
<1>1. \A p \in Procs : pc'[p] \in Reaping =>
        /\ st'[victim[p]] = (IF pc'[p] = "destroy" THEN "TERMINATED" ELSE "ZOMBIE")
        /\ pc'[p] = "reap" => parent'[victim[p]] = p
  BY DEF OnceInv, TreeInv, VictimsDead
<1>2. \A p, q \in Procs :
        pc'[p] \in Reaping /\ pc'[q] \in Reaping /\ victim[q] = victim[p] => q = p
  BY Zenon DEF OnceInv
<1>3. \A z \in Procs : reports'[z] = IF st'[z] = "FREE" THEN 1 ELSE 0
  BY Zenon DEF OnceInv, Dead
<1> QED
  BY Zenon, <1>1, <1>2, <1>3 DEF OnceInv

(* A program's own steps and exit keep OnceInv. *)
LEMMA OnceUser ==
  ASSUME TreeInv, OnceInv, NEW p \in Procs,
         ExitOrphan(p) \/ ExitZombie(p) \/ \E c \in Procs : Fork(p, c)
  PROVE  OnceInv'
<1> USE LifecycleAssumption DEF TreeInv, TypeOK, At, Goto
<1>1. ASSUME NEW c \in Procs, Fork(p, c) PROVE OnceInv'
  <2>1. /\ \A q \in Procs : st[q] \in Dead => st'[q] = st[q] /\ parent'[q] = parent[q]
        /\ \A q \in Procs : st'[q] = "FREE" => st[q] = "FREE"
    BY <1>1 DEF Fork, Dead
  <2>2. UNCHANGED <<reports, victim, scan, pc>>
    BY Zenon, <1>1 DEF Fork, call
  <2> QED
    BY ZenonT(40), <2>1, <2>2, OnceTree
<1>2. CASE ExitZombie(p)
  <2>1. /\ \A q \in Procs : st[q] \in Dead => st'[q] = st[q] /\ parent'[q] = parent[q]
        /\ \A q \in Procs : st'[q] = "FREE" => st[q] = "FREE"
    BY SMTT(30), <1>2 DEF ExitZombie, Dead, tree
  <2>2. \A q \in Procs : pc'[q] \in Reaping => pc'[q] = pc[q]
    BY <1>2 DEF ExitZombie, Reaping
  <2>3. UNCHANGED <<reports, victim, scan>>
    BY Zenon, <1>2 DEF ExitZombie
  <2> QED
    BY ZenonT(40), <2>1, <2>2, <2>3, OnceTree
<1>3. CASE ExitOrphan(p)
  <2>1. /\ \A q \in Procs : pc'[q] \in Reaping => pc'[q] = pc[q] /\ q # p
        /\ \A q \in Procs : parent'[q] = IF q \in children[p] THEN init ELSE parent[q]
        /\ UNCHANGED <<reports, victim, scan, st>>
    BY SMTT(30), <1>3 DEF ExitOrphan, Reaping
  <2>2. \A q \in Procs : pc'[q] \in Reaping => parent'[victim[q]] = parent[victim[q]]
    BY SMTT(30), <2>1 DEF VictimsDead, TreeConsistent
  <2> HIDE DEF TypeOK
  <2>3. \A q \in Procs : pc'[q] \in Reaping =>
          /\ st'[victim[q]] = (IF pc'[q] = "destroy" THEN "TERMINATED" ELSE "ZOMBIE")
          /\ pc'[q] = "reap" => parent'[victim[q]] = q
    BY ZenonT(40), <2>1, <2>2 DEF OnceInv
  <2>4. \A r, q \in Procs :
          pc'[r] \in Reaping /\ pc'[q] \in Reaping /\ victim[q] = victim[r] => q = r
    BY Zenon, <2>1 DEF OnceInv
  <2> QED
    BY ZenonT(40), <2>1, <2>3, <2>4 DEF OnceInv
<1> QED
  BY Zenon, <1>1, <1>2, <1>3

(* The steps of waitpid() keep OnceInv. *)
LEMMA OnceWait ==
  ASSUME TreeInv, OnceInv, NEW p \in Procs,
         WaitFind(p) \/ WaitRemove(p) \/ WaitTerminate(p) \/ WaitDestroy(p)
  PROVE  OnceInv'
<1>1. \A s \in Scanners : scan'[s].reap = {}
  BY Zenon DEF OnceInv, WaitFind, WaitRemove, WaitTerminate, WaitDestroy
<1>2. \A q \in Procs \ {p} : pc'[q] = pc[q] /\ victim'[q] = victim[q]
  BY DEF WaitFind, WaitRemove, WaitTerminate, WaitDestroy, ClearAndReturn, Return, Goto,
         TreeInv, TypeOK
<1>3. CASE WaitFind(p)
  <2>1. /\ pc'[p] = "reap" /\ victim'[p] \in Procs
        /\ st[victim'[p]] = "ZOMBIE" /\ parent[victim'[p]] = p
        /\ UNCHANGED <<st, parent, reports>> /\ pc[p] = "find"
    BY SMTT(30), <1>3 DEF WaitFind, At, Goto, MatchingChildren, Reapable, tree, TreeInv, TypeOK, TreeConsistent
  <2>2. \A q \in Procs \ {p} : pc[q] \in Reaping => victim[q] # victim'[p]
    <3> SUFFICES ASSUME NEW q \in Procs \ {p}, pc[q] \in Reaping PROVE victim[q] # victim'[p]
      BY Zenon
    <3>1. parent[victim[q]] \in {None, q}
      BY Zenon DEF TreeInv, VictimsDead
    <3>2. p \notin {None, q}
      BY Zenon, LifecycleAssumption
    <3> QED
      BY Zenon, <2>1, <3>1, <3>2
  <2>3. \A q \in Procs : pc'[q] \in Reaping =>
          /\ st'[victim'[q]] = (IF pc'[q] = "destroy" THEN "TERMINATED" ELSE "ZOMBIE")
          /\ pc'[q] = "reap" => parent'[victim'[q]] = q
    BY <1>2, <2>1 DEF OnceInv
  <2>4. \A r, q \in Procs :
          pc'[r] \in Reaping /\ pc'[q] \in Reaping /\ victim'[q] = victim'[r] => q = r
    BY <1>2, <2>1, <2>2 DEF OnceInv
  <2> QED
    BY ZenonT(40), <1>1, <2>1, <2>3, <2>4 DEF OnceInv
<1>4. CASE WaitRemove(p)
  <2>1. pc[p] = "reap" /\ pc'[p] = "term" /\ UNCHANGED <<st, victim, reports>>
    BY Zenon, <1>4 DEF WaitRemove, At, Goto, TreeInv, TypeOK
  <2>2. \A q \in Procs \ {victim[p]} : parent'[q] = parent[q]
    BY Zenon, <1>4 DEF WaitRemove, RemoveChild, tree, TreeInv, TypeOK
  <2>3. \A q \in Procs : pc'[q] \in Reaping => pc[q] \in Reaping
    BY Zenon, <1>2, <2>1 DEF Reaping
  <2>4. \A r, q \in Procs :
          pc'[r] \in Reaping /\ pc'[q] \in Reaping /\ victim[q] = victim[r] => q = r
    BY Zenon, <2>3 DEF OnceInv
  <2>5. \A q \in Procs : pc'[q] \in Reaping =>
          /\ st[victim[q]] = (IF pc'[q] = "destroy" THEN "TERMINATED" ELSE "ZOMBIE")
          /\ pc'[q] = "reap" => parent'[victim[q]] = q
    <3>1. st[victim[p]] = "ZOMBIE"
      BY Zenon, <2>1 DEF OnceInv, Reaping
    <3>2. ASSUME NEW q \in Procs \ {p}, pc[q] \in Reaping
          PROVE  victim[q] \in Procs \ {victim[p]}
      BY Zenon, <2>1, <3>2 DEF OnceInv, TreeInv, VictimsDead, Reaping
    <3> QED
      BY <1>2, <2>1, <2>2, <3>1, <3>2 DEF OnceInv
  <2> QED
    BY Zenon, <1>1, <2>1, <2>4, <2>5 DEF OnceInv
<1>5. CASE WaitTerminate(p) \/ WaitDestroy(p)
  <2> DEFINE v == victim[p]
  <2>1. /\ pc[p] \in {"term", "destroy"} /\ v \in Procs /\ st[v] \in {"ZOMBIE", "TERMINATED"}
        /\ UNCHANGED parent
    BY ZenonT(40), <1>5 DEF WaitTerminate, WaitDestroy, At, tree, OnceInv, TreeInv, VictimsDead, Reaping
  <2>2. /\ \A q \in Procs \ {v} : st'[q] = st[q] /\ reports'[q] = reports[q]
        /\ \/ /\ pc'[p] = "destroy" /\ victim'[p] = v /\ st'[v] = "TERMINATED"
              /\ reports'[v] = reports[v]
           \/ pc'[p] = "user" /\ st'[v] = "FREE" /\ reports'[v] = reports[v] + 1
    BY <1>5, <2>1 DEF WaitTerminate, WaitDestroy, ClearAndReturn, Return, Goto, TreeInv, TypeOK
  <2>3. \A q \in Procs : pc'[q] \in Reaping => pc[q] \in Reaping /\ victim'[q] = victim[q]
    BY Zenon, <1>2, <2>1, <2>2 DEF Reaping
  <2>4. \A r, q \in Procs :
          pc'[r] \in Reaping /\ pc'[q] \in Reaping /\ victim'[q] = victim'[r] => q = r
    BY Zenon, <2>3 DEF OnceInv
  <2>5. \A q \in Procs : pc'[q] \in Reaping =>
          /\ st'[victim'[q]] = (IF pc'[q] = "destroy" THEN "TERMINATED" ELSE "ZOMBIE")
          /\ pc'[q] = "reap" => parent'[victim'[q]] = q
    <3>1. ASSUME NEW q \in Procs \ {p}, pc[q] \in Reaping
          PROVE  victim[q] \in Procs \ {v}
      BY Zenon, <2>1, <3>1 DEF OnceInv, TreeInv, VictimsDead, Reaping
    <3>2. ASSUME NEW q \in Procs \ {p}, pc'[q] \in Reaping
          PROVE  /\ st'[victim'[q]] = (IF pc'[q] = "destroy" THEN "TERMINATED" ELSE "ZOMBIE")
                 /\ pc'[q] = "reap" => parent'[victim'[q]] = q
      <4>1. /\ pc'[q] = pc[q] /\ victim'[q] = victim[q] /\ pc[q] \in Reaping
            /\ q \in Procs
        BY Zenon, <1>2, <2>3, <3>2
      <4>2. st'[victim[q]] = st[victim[q]] /\ parent'[victim[q]] = parent[victim[q]]
        <5>1. victim[q] \in Procs \ {v}
          BY Zenon, <3>1, <4>1
        <5>2. st'[victim[q]] = st[victim[q]]
          BY Zenon, <2>2, <5>1
        <5> QED
          BY Zenon, <2>1, <5>2
      <4> QED
        BY Zenon, <4>1, <4>2 DEF OnceInv
    <3> QED
      BY ZenonT(40), <2>2, <3>2 DEF Reaping
  <2>6. \A z \in Procs : reports'[z] = IF st'[z] = "FREE" THEN 1 ELSE 0
    <3>1. \A z \in Procs : reports[z] = IF st[z] = "FREE" THEN 1 ELSE 0
      BY Zenon DEF OnceInv
    <3>2. reports[v] = 0
      BY Zenon, <2>1, <3>1
    <3>3. reports'[v] = IF st'[v] = "FREE" THEN 1 ELSE 0
      BY <2>2, <3>2
    <3> QED
      BY Zenon, <2>2, <3>1, <3>3
  <2> QED
    BY Zenon, <1>1, <2>4, <2>5, <2>6 DEF OnceInv
<1> QED
  BY Zenon, <1>3, <1>4, <1>5

(* Every step keeps OnceInv while nobody ignores SIGCHLD. *)
LEMMA OnceNext ==
  ASSUME "ign" \notin Dispositions, TreeInv, OnceInv, [Next]_vars
  PROVE  OnceInv'
<1>1. TypeOK
  BY Zenon DEF TreeInv
<1>2. ASSUME NEW p \in Procs, UserStep(p) \/ ExitStep(p) \/ LeaveStack(p)
      PROVE  OnceInv'
  <2>1. UNCHANGED reports
    BY Zenon, <1>2 DEF UserStep, ExitStep, Fork, SetSigchld, WaitCall, ExitOrphan, ExitWakeInit, ExitZombie,
                LeaveStack
  <2> QED
    BY Zenon, <1>1, <1>2, <2>1, OnceQuiet, QuietUser, OnceUser DEF UserStep, ExitStep
<1>3. ASSUME NEW p \in Procs, WaitStep(p) PROVE OnceInv'
  <2>1. ASSUME \/ WaitNoZombie(p) \/ WaitSignal(p) \/ WaitStopped(p) \/ WaitContinued(p)
               \/ WaitHasChildren(p) \/ WaitPrepare(p) \/ WaitResume(p)
        PROVE  OnceInv'
    <3>1. UNCHANGED reports
      BY Zenon, <2>1 DEF WaitNoZombie, WaitSignal, WaitStopped, WaitContinued, WaitHasChildren, WaitPrepare,
                  WaitResume
    <3> QED
      BY Zenon, <1>1, <2>1, <3>1, OnceQuiet, QuietWait
  <2> QED
    BY Zenon, <1>3, <2>1, OnceWait DEF WaitStep
<1>4. ASSUME NEW p \in Procs,
             Stop(p) \/ continue_process(p) \/ Signal(p) \/ SignalWake(p) \/ Deliver(p)
      PROVE  OnceInv'
  <2>1. UNCHANGED reports
    BY Zenon, <1>4 DEF Stop, continue_process, Signal, SignalWake, Deliver
  <2> QED
    BY Zenon, <1>1, <1>4, <2>1, OnceQuiet, QuietSignals
<1>5. ASSUME NEW s \in Scanners, ScanStep(s) PROVE OnceInv'
  <2>1. UNCHANGED reports
    BY Zenon, <1>5 DEF ScanStep, ScanLocked, ScanDestroy, ScanWake, ScanSigchld
  <2>2. ~\E z \in Procs : ScanDestroy(s, z)
    BY Zenon DEF ScanDestroy, OnceInv
  <2> QED
    BY Zenon, <1>1, <1>5, <2>1, <2>2, OnceQuiet, QuietScan, ScanClaimsNobody DEF ScanStep
<1>6. CASE UNCHANGED vars
  <2>1. QuietStep /\ UNCHANGED reports
    BY Zenon, <1>6 DEF vars, call, QuietStep
  <2> QED
    BY Zenon, <2>1, OnceQuiet
<1> QED
  BY Zenon, <1>2, <1>3, <1>4, <1>5, <1>6 DEF Next

(* While no process ignores SIGCHLD, waitpid() alone destroys what it      *)
(* found, and returns the status of every child that is gone exactly once, *)
(* for any number of processes and of scanning CPUs.                       *)
THEOREM ReportsOnceCorrect ==
  ASSUME "ign" \notin Dispositions
  PROVE  Spec => [](DestroyedOnce /\ StatusOnce)
<1>1. Init => TreeInv /\ OnceInv
  <2>1. Init => OnceInv
    BY DEF Init, OnceInv, NoScan, Reaping
  <2> QED
    BY Zenon, <2>1, InitTree
<1>2. TreeInv /\ OnceInv /\ [Next]_vars => TreeInv' /\ OnceInv'
  BY Zenon, TreeNext, OnceNext
<1>3. TreeInv /\ OnceInv => DestroyedOnce /\ StatusOnce
  <2> SUFFICES ASSUME TreeInv, OnceInv PROVE DestroyedOnce /\ StatusOnce
    OBVIOUS
  <2>1. StatusOnce
    BY DEF OnceInv, StatusOnce
  <2>2. ASSUME NEW z \in Procs
        PROVE  /\ Cardinality(Destroyers(z)) <= 1
               /\ Destroyers(z) # {} => st[z] \in {"ZOMBIE", "TERMINATED"}
    <3>1. \A d \in Destroyers(z) : d \in Procs /\ pc[d] \in Reaping /\ victim[d] = z
      BY Zenon DEF Destroyers, OnceInv, Reaping
    <3>2. CASE Destroyers(z) = {}
      BY <3>2, FS_EmptySet
    <3>3. ASSUME NEW d \in Destroyers(z)
          PROVE  /\ Cardinality(Destroyers(z)) <= 1
                 /\ st[z] \in {"ZOMBIE", "TERMINATED"}
      <4>1. Destroyers(z) = {d}
        BY Zenon, <3>1, <3>3 DEF OnceInv
      <4>2. Cardinality(Destroyers(z)) = 1
        BY Zenon, <4>1, FS_Singleton
      <4> QED
        BY <3>1, <3>3, <4>2 DEF OnceInv
    <3> QED
      BY Zenon, <3>2, <3>3
  <2> QED
    BY Zenon, <2>1, <2>2 DEF DestroyedOnce
<1> QED
  BY <1>1, <1>2, <1>3, PTL DEF Spec

=============================================================================
