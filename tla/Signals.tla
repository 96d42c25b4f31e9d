------------------------------ MODULE Signals ------------------------------
(***************************************************************************)
(* The signal state of one process (kernel/process/signal.c): senders on   *)
(* other CPUs run send_signal(), the process runs its signal system calls  *)
(* and, on the way back to user mode, check_pending_signals().             *)
(*                                                                         *)
(* Only the task state is guarded by task_lock.  pending is a word that    *)
(* both sides update with unlocked read-modify-writes; blocked, in_handler *)
(* and the actions are written by the process alone and read by senders    *)
(* without a lock.  One action is one critical section or one access to    *)
(* the shared word.                                                        *)
(***************************************************************************)
EXTENDS Naturals, FiniteSets

CONSTANTS Senders,   \* CPUs running send_signal() for this process
          Used,      \* signals that are sent
          Actions,   \* sigaction structures the program installs
          Masks,     \* masks it passes to sigprocmask() and sigsuspend()
          Includes,  \* what the program does, and whether frames can fail
          Racing,    \* whether two read-modify-writes of pending may overlap
          MaxSends   \* bound: how often each signal is sent

(* SIGINT stands for every signal that terminates by default, SIGTSTP for  *)
(* those of the terminal that stop, SIGWINCH for those ignored by default. *)
Number == [INT |-> 2, KILL |-> 9, CONT |-> 18, STOP |-> 19, TSTP |-> 20, WINCH |-> 28]
Sigs == DOMAIN Number
default_signal_actions ==
  [INT |-> "term", KILL |-> "term", CONT |-> "cont", STOP |-> "stop", TSTP |-> "stop", WINCH |-> "ign"]
Unblockable == {"KILL", "STOP"}

DFL == [handler |-> "DFL", mask |-> {}, flags |-> {}]
IGN == [handler |-> "IGN", mask |-> {}, flags |-> {}]
Handlers == [handler : {"DFL", "IGN", "HND"}, mask : SUBSET Sigs, flags : SUBSET {"NODEFER", "RESETHAND"}]
Calls == {"sigprocmask", "sigaction", "sigsuspend", "suspend in handler", "pause", "execve",
          "longjmp", "frame fails"}

ASSUME SignalsAssumption ==
  /\ Used \subseteq Sigs
  /\ Actions \subseteq Handlers
  /\ Masks \subseteq SUBSET Sigs
  /\ Includes \subseteq Calls
  /\ Racing \in BOOLEAN
  /\ MaxSends \in Nat

VARIABLES
  st,         \* task state: "RUN" (READY or RUNNING), "SLEEP", "STOPPED", "DEAD"
  pending, blocked, action, in_handler,      \* signal_state_t
  suspend_active, suspend_saved_mask,        \* signal_state_t
  frame,      \* the frame on the signal stack of the handler that runs
  pc,         \* where the process is
  cur, word,  \* signal being delivered; value of pending that was read
  snd,        \* per sender: where it is, its signal, the value it read
  sent, handled,  \* how often each signal was sent, how often it took effect
  last,       \* the last job-control signal sent
  umask       \* the mask the program gave itself outside handlers

masks == <<blocked, in_handler, suspend_active, suspend_saved_mask>>
ghosts == <<sent, handled, last, umask>>
vars == <<st, pending, masks, action, frame, pc, cur, word, snd, ghosts>>

NoSig == "none"
NoFrame == [sig |-> NoSig, blocked |-> {}]
Idle == [at |-> "idle", sig |-> NoSig, word |-> {}]

TypeOK ==
  /\ st \in {"RUN", "SLEEP", "STOPPED", "DEAD"}
  /\ pending \subseteq Sigs /\ blocked \subseteq Sigs /\ in_handler \subseteq Sigs
  /\ suspend_active \in BOOLEAN /\ suspend_saved_mask \subseteq Sigs
  /\ action \in [Sigs -> Handlers]
  /\ frame \in [sig : Sigs \cup {NoSig}, blocked : SUBSET Sigs]
  /\ pc \in {"user", "check", "clear", "deliver", "putback", "suspend", "pause", "pausing"}
  /\ cur \in Sigs \cup {NoSig} /\ word \subseteq Sigs
  /\ snd \in [Senders -> [at : {"idle", "test", "cont", "tell", "note", "telling", "noting",
                                "drop", "ready", "wake"},
                          sig : Sigs \cup {NoSig}, word : SUBSET Sigs]]
  /\ sent \in [Sigs -> 0..MaxSends] /\ handled \in [Sigs -> Nat]
  /\ last \in Sigs \cup {NoSig} /\ umask \subseteq Sigs

(* init_process_signals() *)
Init ==
  /\ st = "RUN"
  /\ pending = {} /\ blocked = {} /\ in_handler = {}
  /\ suspend_active = FALSE /\ suspend_saved_mask = {}
  /\ action = [s \in Sigs |-> DFL]
  /\ frame = NoFrame
  /\ pc = "user" /\ cur = NoSig /\ word = {}
  /\ snd = [c \in Senders |-> Idle]
  /\ sent = [s \in Sigs |-> 0] /\ handled = [s \in Sigs |-> 0]
  /\ last = NoSig /\ umask = {}

-----------------------------------------------------------------------------
(* send_signal() *)
signal_sanitize_block_mask(m) == m \ Unblockable

GoTo(c, l) == snd' = [snd EXCEPT ![c].at = l]

kill(c, s) ==
  /\ snd[c] = Idle
  /\ st # "DEAD"
  /\ sent[s] < MaxSends
  /\ snd' = [snd EXCEPT ![c] = [at |-> "test", sig |-> s, word |-> {}]]
  /\ sent' = [sent EXCEPT ![s] = @ + 1]
  /\ last' = IF s \in {"STOP", "CONT"} THEN s ELSE last
  /\ UNCHANGED <<st, pending, masks, action, frame, pc, cur, word, handled, umask>>

(* The tests: an unblockable signal is posted and the process told; SIGCONT*)
(* continues a stopped process; an ignored signal is dropped; a blocked one*)
(* is noted and nobody told.                                               *)
Test(c) ==
  LET s == snd[c].sig IN
  /\ snd[c].at = "test"
  /\ GoTo(c, CASE s \in Unblockable -> "tell"
               [] s = "CONT" /\ st = "STOPPED" -> "cont"
               [] action[s].handler = "IGN" -> "drop"
               [] s \in blocked -> "note"
               [] OTHER -> "tell")
  /\ UNCHANGED <<st, pending, masks, action, frame, pc, cur, word, ghosts>>

(* continue_process(), which looks again under task_lock; then the rest. *)
Continue(c) ==
  /\ snd[c].at = "cont"
  /\ st' = IF st = "STOPPED" THEN "RUN" ELSE st
  /\ GoTo(c, CASE action["CONT"].handler = "IGN" -> "drop"
               [] "CONT" \in blocked -> "note"
               [] OTHER -> "tell")
  /\ UNCHANGED <<pending, masks, action, frame, pc, cur, word, ghosts>>

(* pending &= ~bit *)
Drop(c) ==
  /\ snd[c].at = "drop"
  /\ pending' = pending \ {snd[c].sig}
  /\ snd' = [snd EXCEPT ![c] = Idle]
  /\ UNCHANGED <<st, masks, action, frame, pc, cur, word, ghosts>>

(* pending |= bit: the word is read ... *)
PostLoad(c) ==
  /\ snd[c].at \in {"tell", "note"}
  /\ snd' = [snd EXCEPT ![c].word = pending,
                        ![c].at = IF @ = "tell" THEN "telling" ELSE "noting"]
  /\ UNCHANGED <<st, pending, masks, action, frame, pc, cur, word, ghosts>>

(* ... and written. *)
PostStore(c) ==
  /\ snd[c].at \in {"telling", "noting"}
  /\ pending' = (IF Racing THEN snd[c].word ELSE pending) \cup {snd[c].sig}
  /\ snd' = [snd EXCEPT ![c] = IF @.at = "telling"
                                 THEN [@ EXCEPT !.at = "ready", !.word = {}] ELSE Idle]
  /\ UNCHANGED <<st, masks, action, frame, pc, cur, word, ghosts>>

(* SIGKILL makes a stopped process ready. *)
KillReady(c) ==
  /\ snd[c].at = "ready"
  /\ st' = IF snd[c].sig = "KILL" /\ st = "STOPPED" THEN "RUN" ELSE st
  /\ GoTo(c, "wake")
  /\ UNCHANGED <<pending, masks, action, frame, pc, cur, word, ghosts>>

wake_up_process_for_signal(c) ==
  /\ snd[c].at = "wake"
  /\ st' = IF st = "SLEEP" THEN "RUN" ELSE st
  /\ snd' = [snd EXCEPT ![c] = Idle]
  /\ UNCHANGED <<pending, masks, action, frame, pc, cur, word, ghosts>>

-----------------------------------------------------------------------------
(* The process. *)
At(l) == st = "RUN" /\ pc = l
InMain == frame = NoFrame
Ignored == {s \in pending \ blocked : action[s].handler = "IGN"}
signal_deliverable_mask == (pending \ blocked) \ Ignored

(* SIGKILL, SIGSTOP, then in numerical order. *)
find_highest_priority_signal(S) ==
  CASE "KILL" \in S -> "KILL"
    [] "STOP" \in S -> "STOP"
    [] OTHER -> CHOOSE s \in S : \A t \in S : Number[s] <= Number[t]

(* An interrupt or some other system call: user mode is left, and on the   *)
(* way back the signals are checked.                                       *)
EnterKernel ==
  /\ At("user")
  /\ pc' = "check"
  /\ UNCHANGED <<st, pending, masks, action, frame, cur, word, snd, ghosts>>

(* Mutant: handlers nest. *)
CheckNested ==
  /\ At("check")
  /\ LET D == signal_deliverable_mask IN
     IF D = {}
       THEN pc' = "user" /\ pending' = pending \ Ignored /\ UNCHANGED <<cur, word>>
       ELSE /\ cur' = find_highest_priority_signal(D)
            /\ word' = pending
            /\ pc' = "clear"
            /\ UNCHANGED pending
  /\ UNCHANGED <<st, masks, action, frame, snd, ghosts>>

(* check_pending_signals(): nothing is delivered while a handler runs.     *)
Check ==
  /\ At("check")
  /\ LET D == signal_deliverable_mask IN
     CASE in_handler # {} -> pc' = "user" /\ UNCHANGED <<pending, cur, word>>
       [] in_handler = {} /\ D = {} ->
            pc' = "user" /\ pending' = pending \ Ignored /\ UNCHANGED <<cur, word>>
       [] OTHER -> /\ cur' = find_highest_priority_signal(D)
                   /\ word' = pending
                   /\ pc' = "clear"
                   /\ UNCHANGED pending
  /\ UNCHANGED <<st, masks, action, frame, snd, ghosts>>

(* pending &= ~bit, together with the ignored ones. *)
Clear ==
  /\ At("clear")
  /\ pending' = (IF Racing THEN word ELSE pending) \ (Ignored \cup {cur})
  /\ pc' = "deliver"
  /\ word' = {}
  /\ UNCHANGED <<st, masks, action, frame, cur, snd, ghosts>>

Effect == handled' = [handled EXCEPT ![cur] = @ + 1]

(* handle_default_signal_action(): sys_exit(), stop_process(), or nothing  *)
(* (the process that runs is not stopped).                                 *)
DefaultAction ==
  /\ At("deliver")
  /\ action[cur].handler = "DFL"
  /\ st' = CASE default_signal_actions[cur] = "term" -> "DEAD"
             [] default_signal_actions[cur] = "stop" -> "STOPPED"
             [] OTHER -> st
  /\ Effect
  /\ pc' = "user" /\ cur' = NoSig
  /\ UNCHANGED <<pending, masks, action, frame, word, snd, sent, last, umask>>

(* Mutant: the frame keeps the temporary mask of sigsuspend(). *)
HandlerKeepsMask ==
  LET a == action[cur] IN
  /\ At("deliver")
  /\ a.handler = "HND"
  /\ frame' = [sig |-> cur, blocked |-> blocked]
  /\ suspend_active' = FALSE
  /\ in_handler' = in_handler \cup {cur}
  /\ blocked' = blocked \cup a.mask \cup (IF "NODEFER" \in a.flags THEN {} ELSE {cur})
  /\ action' = IF "RESETHAND" \in a.flags THEN [action EXCEPT ![cur].handler = "DFL"] ELSE action
  /\ Effect
  /\ pc' = "user" /\ cur' = NoSig
  /\ UNCHANGED <<st, pending, suspend_saved_mask, word, snd, sent, last, umask>>

(* setup_signal_handler(): the frame keeps the mask to restore, which is   *)
(* the one before sigsuspend() if that is what the signal ended.           *)
setup_signal_handler ==
  LET a == action[cur] IN
  /\ At("deliver")
  /\ a.handler = "HND"
  /\ frame' = [sig |-> cur, blocked |-> IF suspend_active THEN suspend_saved_mask ELSE blocked]
  /\ suspend_active' = FALSE
  /\ in_handler' = in_handler \cup {cur}
  /\ blocked' = blocked \cup a.mask \cup (IF "NODEFER" \in a.flags THEN {} ELSE {cur})
  /\ action' = IF "RESETHAND" \in a.flags THEN [action EXCEPT ![cur].handler = "DFL"] ELSE action
  /\ Effect
  /\ pc' = "user" /\ cur' = NoSig
  /\ UNCHANGED <<st, pending, suspend_saved_mask, word, snd, sent, last, umask>>

(* The frame cannot be written: the signal is to be pending again. *)
FrameFails ==
  /\ "frame fails" \in Includes
  /\ At("deliver")
  /\ action[cur].handler = "HND"
  /\ suspend_active' = FALSE
  /\ word' = pending
  /\ pc' = "putback"
  /\ UNCHANGED <<st, pending, blocked, in_handler, suspend_saved_mask, action, frame, cur, snd,
                 ghosts>>

(* pending |= bit *)
PutBack ==
  /\ At("putback")
  /\ pending' = (IF Racing THEN word ELSE pending) \cup {cur}
  /\ pc' = "user" /\ cur' = NoSig
  /\ word' = {}
  /\ UNCHANGED <<st, masks, action, frame, snd, ghosts>>

(* sigreturn(), the one system call that does not check for signals. *)
sys_sigreturn ==
  /\ At("user") /\ ~InMain
  /\ blocked' = frame.blocked
  /\ in_handler' = in_handler \ {frame.sig}
  /\ frame' = NoFrame
  /\ UNCHANGED <<st, pending, suspend_active, suspend_saved_mask, action, pc, cur, word, snd, ghosts>>

(* The handler is left with longjmp(), as a shell does after SIGINT: the   *)
(* program sets its own mask, the kernel is not told.                      *)
longjmp ==
  /\ "longjmp" \in Includes
  /\ At("user") /\ ~InMain
  /\ frame' = NoFrame
  /\ blocked' = {} /\ umask' = {}
  /\ UNCHANGED <<st, pending, in_handler, suspend_active, suspend_saved_mask, action, pc, cur, word,
                 snd, sent, handled, last>>

sys_sigprocmask(m) ==
  /\ "sigprocmask" \in Includes
  /\ At("user")
  /\ blocked' = signal_sanitize_block_mask(m)
  /\ umask' = IF InMain THEN signal_sanitize_block_mask(m) ELSE umask
  /\ pc' = "check"
  /\ UNCHANGED <<st, pending, in_handler, suspend_active, suspend_saved_mask, action, frame, cur,
                 word, snd, sent, handled, last>>

sys_sigaction(s, a) ==
  /\ "sigaction" \in Includes
  /\ At("user")
  /\ s \notin Unblockable
  /\ action[s] # a
  /\ action' = [action EXCEPT ![s] = a]
  /\ pc' = "check"
  /\ UNCHANGED <<st, pending, masks, frame, cur, word, snd, ghosts>>

sys_sigsuspend(m) ==
  /\ \/ "sigsuspend" \in Includes /\ InMain
     \/ "suspend in handler" \in Includes /\ ~InMain
  /\ At("user")
  /\ suspend_saved_mask' = blocked
  /\ suspend_active' = TRUE
  /\ blocked' = signal_sanitize_block_mask(m)
  /\ pc' = "suspend"
  /\ UNCHANGED <<st, pending, in_handler, action, frame, cur, word, snd, ghosts>>

(* Mutant: the loop only sleeps. *)
SuspendSleeps ==
  /\ At("suspend")
  /\ st' = "SLEEP"
  /\ UNCHANGED <<pending, masks, action, frame, pc, cur, word, snd, ghosts>>

(* ... its loop: has_pending_signals(), else sleep for a millisecond. *)
SuspendTest ==
  /\ At("suspend")
  /\ pending' = pending \ Ignored
  /\ IF signal_deliverable_mask # {} THEN pc' = "check" /\ UNCHANGED st
                                     ELSE st' = "SLEEP" /\ UNCHANGED pc
  /\ UNCHANGED <<masks, action, frame, cur, word, snd, ghosts>>

SleepTimesOut ==
  /\ st = "SLEEP" /\ pc = "suspend"
  /\ st' = "RUN"
  /\ UNCHANGED <<pending, masks, action, frame, pc, cur, word, snd, ghosts>>

(* sys_pause(): the same test, and then, not under the same lock, to sleep. *)
sys_pause ==
  /\ "pause" \in Includes
  /\ At("user")
  /\ pc' = "pause"
  /\ UNCHANGED <<st, pending, masks, action, frame, cur, word, snd, ghosts>>

PauseTest ==
  /\ At("pause")
  /\ pending' = pending \ Ignored
  /\ pc' = IF signal_deliverable_mask # {} THEN "check" ELSE "pausing"
  /\ UNCHANGED <<st, masks, action, frame, cur, word, snd, ghosts>>

PauseSleep ==
  /\ At("pausing")
  /\ st' = "SLEEP"
  /\ pc' = "pause"
  /\ UNCHANGED <<pending, masks, action, frame, cur, word, snd, ghosts>>

(* Mutant: exec() starts with a clean slate. *)
ExecForgets ==
  /\ "execve" \in Includes
  /\ At("user")
  /\ action' = [s \in Sigs |-> DFL]
  /\ pending' = {} /\ blocked' = {} /\ umask' = {}
  /\ in_handler' = {} /\ frame' = NoFrame
  /\ suspend_active' = FALSE /\ suspend_saved_mask' = {}
  /\ pc' = "check"
  /\ UNCHANGED <<st, cur, word, snd, sent, handled, last>>

(* reset_process_signals_for_exec() *)
reset_process_signals_for_exec ==
  /\ "execve" \in Includes
  /\ At("user")
  /\ action' = [s \in Sigs |-> IF action[s].handler = "IGN" THEN action[s] ELSE DFL]
  /\ blocked' = signal_sanitize_block_mask(blocked)
  /\ umask' = signal_sanitize_block_mask(blocked)
  /\ in_handler' = {} /\ frame' = NoFrame
  /\ suspend_active' = FALSE /\ suspend_saved_mask' = {}
  /\ pc' = "check"
  /\ UNCHANGED <<st, pending, cur, word, snd, sent, handled, last>>

-----------------------------------------------------------------------------
SendStep(c) ==
  \/ Test(c) \/ Continue(c) \/ Drop(c) \/ PostLoad(c) \/ PostStore(c)
  \/ KillReady(c) \/ wake_up_process_for_signal(c)

KernelStep ==
  \/ Check \/ Clear \/ DefaultAction \/ setup_signal_handler \/ FrameFails \/ PutBack
  \/ SuspendTest \/ SleepTimesOut \/ PauseTest \/ PauseSleep

UserStep ==
  \/ longjmp \/ sys_pause \/ reset_process_signals_for_exec
  \/ \E m \in Masks : sys_sigprocmask(m) \/ sys_sigsuspend(m)
  \/ \E s \in Used, a \in Actions : sys_sigaction(s, a)

Next ==
  \/ \E c \in Senders : SendStep(c) \/ \E s \in Used : kill(c, s)
  \/ KernelStep \/ EnterKernel \/ sys_sigreturn \/ UserStep

Spec == Init /\ [][Next]_vars

(* A started kill() completes, a READY process is dispatched and the timer *)
(* interrupts user code.  Nothing makes a handler return.                  *)
Fairness ==
  /\ \A c \in Senders : WF_vars(SendStep(c))
  /\ WF_vars(KernelStep) /\ WF_vars(EnterKernel)

FairSpec == Spec /\ Fairness

-----------------------------------------------------------------------------
(* One frame: there is only one signal stack, so while a handler runs it   *)
(* is the only one marked, and the frame on the stack is its own.  (With   *)
(* the types.)                                                             *)
OneFrame ==
  /\ TypeOK
  /\ Cardinality(in_handler) <= 1
  /\ ~InMain => in_handler = {frame.sig}

(* A signal takes effect at most as often as it was sent. *)
(* Does not hold when updates of pending overlap (README, Deviations).     *)
EffectsBounded == \A s \in Sigs : handled[s] <= sent[s]

(* Whatever handlers, sigsuspend() and exec do to the mask, outside them   *)
(* the program runs with the mask it gave itself: "sigreturn restores it   *)
(* atomically" (sys_sigsuspend).                                           *)
(* Holds when only caught or fatal signals end sigsuspend() (README,       *)
(* Deviations).                                                            *)
MaskRestored == At("user") /\ InMain => blocked = umask

(* "POSIX forbids blocking SIGKILL/SIGSTOP": the invariant that            *)
(* signal_sanitize_block_mask() is there to "make explicit".               *)
(* Does not hold (README, Deviations).                                     *)
NeverBlocksKill == blocked \cap Unblockable = {}

(* No lost wake-up: a process asleep in pause() has nothing to deliver, or *)
(* a sender is about to wake it.                                           *)
(* Does not hold (README, Deviations).                                     *)
PauseNotMissed ==
  st = "SLEEP" /\ pc = "pause" /\ signal_deliverable_mask # {} =>
    \E c \in Senders : snd[c].at \in {"ready", "wake"}

(* From some time on a handler is marked active: it does not return or was *)
(* left with longjmp().  check_pending_signals() defers everything then,   *)
(* SIGKILL included.                                                       *)
HandlerStuck == <>[](in_handler # {})

(* A signal that is pending and not blocked does not stay pending: it is   *)
(* delivered or discarded, unless it is blocked, the process is stopped or *)
(* gone, or a handler is stuck.                                            *)
SignalTaken ==
  \/ \A s \in Sigs :
       s \in pending ~> (s \notin pending \/ s \in blocked \/ st \in {"STOPPED", "DEAD"})
  \/ HandlerStuck

(* The process is about to stop although SIGKILL is pending. *)
StopsOverKill ==
  pc = "deliver" /\ default_signal_actions[cur] = "stop" /\ "KILL" \in pending

(* SIGKILL kills, whatever mask, handler, sigsuspend() or stop the process *)
(* is in, with two exceptions: a handler is stuck, or SIGKILL came between *)
(* the choice of a stop signal and the stop.                               *)
(* Holds without overlapping updates of pending (README, Deviations).      *)
KillKills ==
  \/ sent["KILL"] > 0 ~> st = "DEAD"
  \/ HandlerStuck
  \/ <>StopsOverKill /\ <>[](st = "STOPPED")

(* SIGKILL and SIGSTOP cannot be held off (comment of send_signal()): a    *)
(* process that SIGKILL was sent to dies.                                  *)
(* Does not hold (README, Deviations).                                     *)
KillAlwaysKills == sent["KILL"] > 0 ~> st = "DEAD"

(* A process is not left stopped when SIGCONT was sent after SIGSTOP. *)
(* Does not hold (README, Deviations).                                     *)
ContContinues == last = "CONT" /\ st = "STOPPED" ~> last # "CONT" \/ st # "STOPPED"
=============================================================================
