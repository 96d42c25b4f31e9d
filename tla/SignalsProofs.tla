--------------------------- MODULE SignalsProofs ---------------------------
(***************************************************************************)
(* One signal stack is enough, and the program gets its mask back, for any *)
(* number of senders, any handlers and masks and any number of signals.    *)
(***************************************************************************)
EXTENDS Signals, FiniteSetTheorems, TLAPS

(* Only signals that were sent are on their way or pending. *)
SentOnly ==
  /\ pending \subseteq Used /\ word \subseteq Used
  /\ \A c \in Senders : /\ snd[c].word \subseteq Used
                        /\ snd[c].at # "idle" => snd[c].sig \in Used

(* OneFrame is not inductive by itself: a handler is only started from     *)
(* check_pending_signals(), which has picked a signal and has seen that no *)
(* handler runs.                                                           *)
FrameInv ==
  /\ TypeOK
  /\ SentOnly
  /\ in_handler = {} \/ \E x \in Sigs : in_handler = {x}
  /\ ~InMain => in_handler = {frame.sig}
  /\ pc \in {"clear", "deliver", "putback"} => cur \in Used /\ in_handler = {}

SenderStates == [at : {"idle", "test", "cont", "tell", "note", "telling", "noting",
                       "drop", "ready", "wake"},
                 sig : Sigs \cup {NoSig}, word : SUBSET Sigs]

-----------------------------------------------------------------------------
(* find_highest_priority_signal() picks one of the signals it is given. *)
LEMMA HighestIsMember ==
  ASSUME NEW S \in SUBSET Sigs, S # {}
  PROVE  find_highest_priority_signal(S) \in S
<1>1. Sigs = {"INT", "KILL", "CONT", "STOP", "TSTP", "WINCH"}
  BY DEF Sigs, Number
<1>2. /\ Number["INT"] = 2 /\ Number["KILL"] = 9 /\ Number["CONT"] = 18 
      /\ Number["STOP"] = 19 /\ Number["TSTP"] = 20 /\ Number["WINCH"] = 28
  BY DEF Number
<1>3. \E s \in S : \A t \in S : Number[s] <= Number[t]
  <2>1. CASE "INT" \in S
    BY <1>1, <1>2, <2>1
  <2>2. CASE "INT" \notin S /\ "KILL" \in S
    BY <1>1, <1>2, <2>2
  <2>3. CASE S \subseteq {"CONT", "STOP", "TSTP", "WINCH"} /\ "CONT" \in S
    BY <1>1, <1>2, <2>3
  <2>4. CASE S \subseteq {"STOP", "TSTP", "WINCH"} /\ "STOP" \in S
    BY <1>1, <1>2, <2>4
  <2>5. CASE S \subseteq {"TSTP", "WINCH"} /\ "TSTP" \in S
    BY <1>1, <1>2, <2>5
  <2>6. CASE S = {"WINCH"}
    BY <1>2, <2>6
  <2> QED
    BY <1>1, <2>1, <2>2, <2>3, <2>4, <2>5, <2>6, Zenon
<1>4. (CHOOSE s \in S : \A t \in S : Number[s] <= Number[t]) \in S
  BY <1>3
<1> QED
  BY <1>4 DEF find_highest_priority_signal

(* A sender's step keeps its record one, and touches nothing of the        *)
(* process but pending and, to make it run, the state.                     *)
LEMMA SenderRecords ==
  ASSUME TypeOK, SentOnly, NEW c \in Senders,
         SendStep(c) \/ \E s \in Used : kill(c, s)
  PROVE  /\ snd' \in [Senders -> SenderStates]
         /\ \A d \in Senders : /\ snd'[d].word \subseteq Used
                               /\ snd'[d].at # "idle" => snd'[d].sig \in Used
<1> DEFINE Good(r) == r \in SenderStates /\ r.word \subseteq Used /\ (r.at # "idle" => r.sig \in Used)
<1>1. snd \in [Senders -> SenderStates] /\ Good(snd[c])
  BY DEF TypeOK, SenderStates, SentOnly
<1>2. ASSUME NEW r, Good(r), snd' = [snd EXCEPT ![c] = r]
      PROVE  /\ snd' \in [Senders -> SenderStates]
             /\ \A d \in Senders : /\ snd'[d].word \subseteq Used
                                   /\ snd'[d].at # "idle" => snd'[d].sig \in Used
  <2>1. snd'[c] = r /\ \A d \in Senders \ {c} : snd'[d] = snd[d]
    BY <1>1, <1>2
  <2> QED
    BY <1>1, <1>2, <2>1 DEF SentOnly
<1>3. Good(Idle)
  BY DEF Idle, SenderStates
<1>4. ASSUME snd[c].at # "idle",
             NEW l \in {"test", "cont", "tell", "note", "telling", "noting", "drop", "ready", "wake"},
             NEW w \in SUBSET Used
      PROVE  Good([snd[c] EXCEPT !.at = l, !.word = w]) /\ Good([snd[c] EXCEPT !.at = l])
  BY <1>1, <1>4, SignalsAssumption, Zenon DEF SenderStates
<1> HIDE DEF Good
<1>5. ASSUME snd[c].at # "idle",
             NEW l \in {"test", "cont", "tell", "note", "telling", "noting", "drop", "ready", "wake"},
             GoTo(c, l)
      PROVE  /\ snd' \in [Senders -> SenderStates]
             /\ \A d \in Senders : /\ snd'[d].word \subseteq Used
                                   /\ snd'[d].at # "idle" => snd'[d].sig \in Used
  <2>1. snd' = [snd EXCEPT ![c] = [snd[c] EXCEPT !.at = l]]
    BY <1>5 DEF GoTo
  <2> QED
    BY <1>2, <1>4, <1>5, <2>1, Zenon
<1>6. CASE Test(c) \/ Continue(c) \/ KillReady(c)
  BY <1>5, <1>6 DEF Test, Continue, KillReady
<1>7. CASE Drop(c) \/ wake_up_process_for_signal(c)
  BY <1>2, <1>3, <1>7 DEF Drop, wake_up_process_for_signal
<1>8. CASE PostLoad(c)
  <2>1. PICK l \in {"telling", "noting"} :
          snd' = [snd EXCEPT ![c] = [snd[c] EXCEPT !.at = l, !.word = pending]]
    BY <1>1, <1>8 DEF PostLoad, Good, SenderStates
  <2> QED
    BY <1>2, <1>4, <1>8, <2>1, ZenonT(60) DEF PostLoad, SentOnly
<1>9. CASE PostStore(c)
  <2>1. \/ snd' = [snd EXCEPT ![c] = [snd[c] EXCEPT !.at = "ready", !.word = {}]]
        \/ snd' = [snd EXCEPT ![c] = Idle]
    BY <1>9, Zenon DEF PostStore
  <2> QED
    BY <1>2, <1>3, <1>4, <1>9, <2>1, Zenon DEF PostStore
<1>10. ASSUME NEW s \in Used, kill(c, s)
       PROVE  /\ snd' \in [Senders -> SenderStates]
              /\ \A d \in Senders : /\ snd'[d].word \subseteq Used
                                    /\ snd'[d].at # "idle" => snd'[d].sig \in Used
  <2>1. Good([at |-> "test", sig |-> s, word |-> {}])
    BY SignalsAssumption DEF Good, SenderStates
  <2> QED
    BY <1>2, <1>10, <2>1, Zenon DEF kill
<1> QED
  BY <1>6, <1>7, <1>8, <1>9, <1>10 DEF SendStep

(* A sender touches only the target's pending set and its sleep. *)
LEMMA SenderLeaves ==
  ASSUME TypeOK, SentOnly, NEW c \in Senders,
         SendStep(c) \/ \E s \in Used : kill(c, s)
  PROVE  /\ UNCHANGED <<blocked, in_handler, suspend_active, suspend_saved_mask, action, frame, pc,
                        cur, word, umask, handled>>
         /\ st' \in {st, "RUN"} /\ (st = "DEAD" => st' = "DEAD")
         /\ pending' \subseteq Used
<1>1. UNCHANGED <<blocked, in_handler, suspend_active, suspend_saved_mask, action, frame, pc,
                  cur, word, umask, handled>>
  BY DEF SendStep, Test, Continue, Drop, PostLoad, PostStore, KillReady,
         wake_up_process_for_signal, kill, masks, ghosts
<1>2. st' \in {st, "RUN"} /\ (st = "DEAD" => st' = "DEAD")
  BY DEF SendStep, Test, Continue, Drop, PostLoad, PostStore, KillReady,
         wake_up_process_for_signal, kill
<1>3. pending' \subseteq Used
  BY DEF SendStep, Test, Continue, Drop, PostLoad, PostStore, KillReady,
         wake_up_process_for_signal, kill, SentOnly
<1> QED
  BY <1>1, <1>2, <1>3

(* The steps of a sender keep FrameInv. *)
LEMMA SenderFrame ==
  ASSUME FrameInv, NEW c \in Senders, SendStep(c) \/ \E s \in Used : kill(c, s)
  PROVE  FrameInv'
<1>1. TypeOK /\ SentOnly
  BY DEF FrameInv
<1>2. sent' \in [Sigs -> 0..MaxSends] /\ last' \in Sigs \cup {NoSig}
  <2>1. CASE SendStep(c)
    BY <1>1, <2>1 DEF SendStep, Test, Continue, Drop, PostLoad, PostStore, KillReady,
         wake_up_process_for_signal, ghosts, TypeOK
  <2>2. ASSUME NEW s \in Used, kill(c, s)
        PROVE  sent' \in [Sigs -> 0..MaxSends] /\ last' \in Sigs \cup {NoSig}
    <3>1. s \in Sigs /\ sent[s] + 1 \in 0..MaxSends
      BY <1>1, <2>2, SignalsAssumption DEF kill, TypeOK
    <3> QED
      BY <1>1, <2>2, <3>1 DEF kill, TypeOK
  <2> QED
    BY <2>1, <2>2
<1>3. SentOnly'
  BY <1>1, SenderRecords, SenderLeaves DEF SentOnly
<1>4. TypeOK'
  <2>1. st' \in {"RUN", "SLEEP", "STOPPED", "DEAD"} /\ pending' \subseteq Sigs
    BY <1>1, SenderLeaves, SignalsAssumption DEF TypeOK
  <2>2. snd' \in [Senders -> SenderStates]
    BY <1>1, SenderRecords
  <2> QED
    BY <1>1, <1>2, <2>1, <2>2, SenderLeaves DEF TypeOK, SenderStates
<1> QED
  BY <1>1, <1>3, <1>4, SenderLeaves DEF FrameInv, InMain

-----------------------------------------------------------------------------
(* The process: steps that leave frame and marks alone. *)
Bookkeeping ==
  \/ EnterKernel \/ Check \/ Clear \/ DefaultAction \/ SuspendTest \/ SleepTimesOut
  \/ PauseTest \/ PauseSleep \/ sys_pause

(* The steps that move no mask and no frame keep FrameInv. *)
LEMMA BookkeepingFrame ==
  ASSUME FrameInv, Bookkeeping
  PROVE  FrameInv'
<1>1. TypeOK /\ SentOnly
  BY DEF FrameInv
<1>2. UNCHANGED <<blocked, in_handler, suspend_active, suspend_saved_mask, action, frame, snd, sent,
                  last, umask>>
  BY DEF Bookkeeping, EnterKernel, Check, Clear, DefaultAction, SuspendTest, SleepTimesOut,
         PauseTest, PauseSleep, sys_pause, masks, ghosts
<1>3. pending' \subseteq Used /\ word' \subseteq Used
  BY <1>1 DEF Bookkeeping, EnterKernel, Check, Clear, DefaultAction, SuspendTest, SleepTimesOut,
         PauseTest, PauseSleep, sys_pause, SentOnly
<1>4. /\ st' \in {"RUN", "SLEEP", "STOPPED", "DEAD"}
      /\ pc' \in {"user", "check", "clear", "deliver", "putback", "suspend", "pause", "pausing"}
  BY <1>1 DEF Bookkeeping, EnterKernel, Check, Clear, DefaultAction, SuspendTest, SleepTimesOut,
         PauseTest, PauseSleep, sys_pause, TypeOK
<1>5. /\ cur' \in Sigs \cup {NoSig}
      /\ pc' \in {"clear", "deliver", "putback"} => cur' \in Used /\ in_handler = {}
  <2>1. CASE Check
    <3>1. pc' = "clear" => in_handler = {} /\ signal_deliverable_mask # {}
                           /\ cur' = find_highest_priority_signal(signal_deliverable_mask)
      BY <2>1 DEF Check
    <3>2. pc' # "clear" => pc' = "user" /\ cur' = cur
      BY <2>1 DEF Check
    <3>3. signal_deliverable_mask \subseteq Used /\ Used \subseteq Sigs
      BY <1>1, SignalsAssumption DEF signal_deliverable_mask, SentOnly
    <3>4. pc' = "clear" => cur' \in Used
      BY <3>1, <3>3, HighestIsMember
    <3> QED
      BY <1>1, <2>1, <3>1, <3>2, <3>3, <3>4 DEF Check, TypeOK
  <2>2. CASE Clear
    BY <1>1, <2>2 DEF Clear, At, FrameInv, TypeOK
  <2>3. CASE DefaultAction
    BY <2>3 DEF DefaultAction
  <2>4. CASE EnterKernel \/ SuspendTest \/ SleepTimesOut \/ PauseTest \/ PauseSleep \/ sys_pause
    BY <1>1, <2>4 DEF EnterKernel, SuspendTest, SleepTimesOut, PauseTest, PauseSleep, sys_pause,
                      At, FrameInv, TypeOK
  <2> QED
    BY <2>1, <2>2, <2>3, <2>4 DEF Bookkeeping
<1>6. handled' \in [Sigs -> Nat]
  <2>1. CASE DefaultAction
    BY <1>1, <2>1, SignalsAssumption DEF DefaultAction, At, Effect, FrameInv, TypeOK
  <2>2. CASE UNCHANGED handled
    BY <1>1, <2>2 DEF TypeOK
  <2> QED
    BY <2>1, <2>2 DEF Bookkeeping, EnterKernel, Check, Clear, SuspendTest, SleepTimesOut,
         PauseTest, PauseSleep, sys_pause, ghosts
<1>7. TypeOK'
  <2>1. pending' \subseteq Sigs /\ word' \subseteq Sigs
    BY <1>3, SignalsAssumption
  <2> QED
    BY <1>1, <1>2, <1>4, <1>5, <1>6, <2>1 DEF TypeOK
<1>8. SentOnly'
  BY <1>1, <1>2, <1>3 DEF SentOnly
<1> QED
  BY <1>2, <1>5, <1>7, <1>8 DEF FrameInv, InMain

(* A handler is started, or cannot be. *)
LEMMA HandlerFrame ==
  ASSUME FrameInv, setup_signal_handler \/ FrameFails \/ PutBack
  PROVE  FrameInv'
<1>1. TypeOK /\ SentOnly /\ cur \in Used /\ cur \in Sigs /\ in_handler = {}
  BY SignalsAssumption, Zenon DEF FrameInv, setup_signal_handler, FrameFails, PutBack, At
<1>2. UNCHANGED <<st, suspend_saved_mask, snd, sent, last, umask>>
  BY Zenon DEF setup_signal_handler, FrameFails, PutBack, masks, ghosts
<1>3. SentOnly'
  <2>1. pending' \subseteq Used /\ word' \subseteq Used
    BY <1>1 DEF SentOnly, setup_signal_handler, FrameFails, PutBack
  <2> QED
    BY <1>1, <1>2, <2>1, Zenon DEF SentOnly
<1>4. suspend_active' \in BOOLEAN
  BY <1>1 DEF TypeOK, setup_signal_handler, FrameFails, PutBack, masks
<1>5. pending' \subseteq Sigs /\ word' \subseteq Sigs
  BY <1>3, SignalsAssumption DEF SentOnly
<1>6. CASE setup_signal_handler
  <2>1. action[cur] \in Handlers
    BY <1>1 DEF TypeOK
  <2>2. blocked' \subseteq Sigs /\ in_handler' = {cur}
    BY <1>1, <1>6, <2>1 DEF setup_signal_handler, Handlers, TypeOK
  <2>3. frame' \in [sig : Sigs \cup {NoSig}, blocked : SUBSET Sigs] /\ frame'.sig = cur
    BY <1>1, <1>6 DEF setup_signal_handler, TypeOK
  <2>4. action' \in [Sigs -> Handlers]
    <3>1. [action[cur] EXCEPT !.handler = "DFL"] \in Handlers
      BY <2>1 DEF Handlers
    <3>2. [action EXCEPT ![cur] = [action[cur] EXCEPT !.handler = "DFL"]] \in [Sigs -> Handlers]
      BY <1>1, <3>1 DEF TypeOK
    <3> QED
      BY <1>1, <1>6, <3>2 DEF setup_signal_handler, TypeOK
  <2>5. handled' \in [Sigs -> Nat]
    BY <1>1, <1>6 DEF setup_signal_handler, Effect, TypeOK
  <2>6. pc' = "user" /\ cur' = NoSig
    BY <1>6, Zenon DEF setup_signal_handler
  <2>7. TypeOK'
    BY <1>1, <1>2, <1>4, <1>5, <2>2, <2>3, <2>4, <2>5, <2>6 DEF TypeOK
  <2> QED
    BY <1>1, <1>2, <1>3, <2>2, <2>3, <2>6, <2>7 DEF FrameInv
<1>7. CASE FrameFails \/ PutBack
  <2>1. /\ UNCHANGED <<blocked, in_handler, action, frame, handled>>
        /\ (pc' = "putback" /\ cur' = cur) \/ (pc' = "user" /\ cur' = NoSig)
    BY <1>7, Zenon DEF FrameFails, PutBack, masks, ghosts
  <2>2. TypeOK'
    BY <1>1, <1>2, <1>4, <1>5, <2>1 DEF TypeOK
  <2> QED
    BY <1>1, <1>2, <1>3, <2>1, <2>2 DEF FrameInv, InMain
<1> QED
  BY <1>6, <1>7

(* What the program does itself. *)
LEMMA ProgramFrame ==
  ASSUME FrameInv, sys_sigreturn \/ (UserStep /\ ~sys_pause)
  PROVE  FrameInv'
<1>1. TypeOK /\ SentOnly
  BY DEF FrameInv
<1>2. UNCHANGED <<st, pending, cur, word, snd, sent, handled, last>>
  BY Zenon DEF sys_sigreturn, UserStep, longjmp, reset_process_signals_for_exec, sys_sigprocmask,
         sys_sigsuspend, sys_sigaction, ghosts
<1>3. SentOnly'
  BY <1>1, <1>2 DEF SentOnly
<1>4. pc' \in {"user", "check", "suspend"}
  BY Zenon DEF sys_sigreturn, UserStep, longjmp, reset_process_signals_for_exec, sys_sigprocmask,
         sys_sigsuspend, sys_sigaction, At
<1>5. /\ blocked' \subseteq Sigs /\ umask' \subseteq Sigs /\ suspend_saved_mask' \subseteq Sigs
      /\ suspend_active' \in BOOLEAN
      /\ frame' \in [sig : Sigs \cup {NoSig}, blocked : SUBSET Sigs]
  <2>1. NoFrame \in [sig : Sigs \cup {NoSig}, blocked : SUBSET Sigs]
    BY DEF NoFrame
  <2>2. CASE sys_sigreturn \/ longjmp \/ reset_process_signals_for_exec
    BY <1>1, <2>1, <2>2, Zenon DEF sys_sigreturn, longjmp, reset_process_signals_for_exec,
                            signal_sanitize_block_mask, TypeOK, ghosts
  <2>3. ASSUME NEW m \in Masks, sys_sigprocmask(m) \/ sys_sigsuspend(m)
        PROVE  /\ blocked' \subseteq Sigs /\ umask' \subseteq Sigs /\ suspend_saved_mask' \subseteq Sigs
               /\ suspend_active' \in BOOLEAN
               /\ frame' \in [sig : Sigs \cup {NoSig}, blocked : SUBSET Sigs]
    BY <1>1, <2>3, SignalsAssumption, Zenon DEF sys_sigprocmask, sys_sigsuspend,
                            signal_sanitize_block_mask, TypeOK, ghosts
  <2>4. CASE \E s \in Used, a \in Actions : sys_sigaction(s, a)
    BY <1>1, <2>4 DEF sys_sigaction, masks, ghosts, TypeOK
  <2> QED
    BY <2>2, <2>3, <2>4 DEF UserStep
<1>6. action' \in [Sigs -> Handlers]
  <2>1. CASE reset_process_signals_for_exec
    BY <1>1, <2>1 DEF reset_process_signals_for_exec, DFL, Handlers, TypeOK
  <2>2. ASSUME NEW s \in Used, NEW a \in Actions, sys_sigaction(s, a) PROVE action' \in [Sigs -> Handlers]
    BY <1>1, <2>2, SignalsAssumption DEF sys_sigaction, TypeOK
  <2>3. CASE UNCHANGED action
    BY <1>1, <2>3 DEF TypeOK
  <2> QED
    BY <2>1, <2>2, <2>3, Zenon DEF UserStep, sys_sigreturn, longjmp, sys_sigprocmask, sys_sigsuspend
<1>7. /\ in_handler' \subseteq Sigs
      /\ in_handler' = {} \/ \E x \in Sigs : in_handler' = {x}
      /\ frame' # NoFrame => in_handler' = {frame'.sig}
  <2>1. CASE sys_sigreturn \/ reset_process_signals_for_exec
    BY <2>1 DEF sys_sigreturn, reset_process_signals_for_exec, FrameInv, InMain
  <2>2. CASE UNCHANGED in_handler /\ frame' \in {frame, NoFrame}
    BY <1>1, <2>2 DEF FrameInv, InMain, TypeOK
  <2> QED
    BY <2>1, <2>2, Zenon DEF UserStep, longjmp, sys_sigprocmask, sys_sigsuspend, sys_sigaction, masks
<1>8. TypeOK'
  BY <1>1, <1>2, <1>4, <1>5, <1>6, <1>7 DEF TypeOK
<1> QED
  BY <1>3, <1>4, <1>7, <1>8 DEF FrameInv, InMain

(* Every step keeps FrameInv. *)
LEMMA FrameNext == ASSUME FrameInv, [Next]_vars PROVE FrameInv'
<1>1. CASE UNCHANGED vars
  BY <1>1 DEF vars, masks, ghosts, FrameInv, TypeOK, SentOnly, InMain
<1>2. ASSUME NEW c \in Senders, SendStep(c) \/ \E s \in Used : kill(c, s) PROVE FrameInv'
  BY <1>2, SenderFrame
<1>3. CASE KernelStep \/ EnterKernel
  BY <1>3, BookkeepingFrame, HandlerFrame DEF KernelStep, Bookkeeping
<1>4. CASE sys_sigreturn \/ UserStep
  BY <1>4, BookkeepingFrame, ProgramFrame DEF Bookkeeping
<1> QED
  BY <1>1, <1>2, <1>3, <1>4 DEF Next

(* FrameInv holds when the process starts. *)
LEMMA FrameInit == Init => FrameInv
<1> SUFFICES ASSUME Init PROVE FrameInv
  OBVIOUS
<1>1. TypeOK
  <2>1. action \in [Sigs -> Handlers]
    BY DEF Init, DFL, Handlers
  <2>2. frame \in [sig : Sigs \cup {NoSig}, blocked : SUBSET Sigs]
    BY DEF Init, NoFrame
  <2>3. snd \in [Senders -> SenderStates]
    BY DEF Init, Idle, SenderStates
  <2>4. sent \in [Sigs -> 0..MaxSends] /\ handled \in [Sigs -> Nat]
    BY SignalsAssumption DEF Init
  <2> QED
    BY <2>1, <2>2, <2>3, <2>4, Zenon DEF Init, TypeOK, SenderStates
<1> QED
  BY <1>1 DEF Init, FrameInv, SentOnly, InMain, Idle

(* However sends, stops, sigsuspend(), exec and longjmp() interleave, the  *)
(* one signal stack holds one frame, that of the only handler marked, for  *)
(* any number of senders and whether or not updates of pending race.       *)
THEOREM OneFrameCorrect == Spec => []OneFrame
<1>1. FrameInv => OneFrame
  <2> SUFFICES ASSUME FrameInv PROVE Cardinality(in_handler) <= 1
    BY DEF FrameInv, OneFrame
  <2>1. CASE in_handler = {}
    BY <2>1, FS_EmptySet
  <2>2. ASSUME NEW x \in Sigs, in_handler = {x} PROVE Cardinality(in_handler) <= 1
    <3>1. Cardinality({x}) = 1
      BY FS_Singleton
    <3> QED
      BY <2>2, <3>1
  <2> QED
    BY <2>1, <2>2 DEF FrameInv
<1>2. FrameInv /\ [Next]_vars => FrameInv'
  BY FrameNext
<1> QED
  BY <1>1, <1>2, FrameInit, PTL DEF Spec

-----------------------------------------------------------------------------
(* When the program gets its mask back.  sigsuspend() is not called inside *)
(* a handler, and if it is called at all, whatever ends it is fatal or     *)
(* starts a handler, which returns: no signal used has another default or  *)
(* is ignored, frames can be written, handlers are not left with longjmp() *)
(* and no update of pending is lost.  Without any one of these clauses     *)
(* TLC finds the program outside a handler with another mask.              *)
SuspendEndsInHandler ==
  /\ "suspend in handler" \notin Includes
  /\ "sigsuspend" \in Includes =>
       /\ "frame fails" \notin Includes /\ "longjmp" \notin Includes
       /\ ~Racing
       /\ \A a \in Actions : a.handler # "IGN"
       /\ \A s \in Used : default_signal_actions[s] = "term"

(* The temporary mask is in force only between sigsuspend() and the        *)
(* handler it waits for; the mask to return to is then saved by            *)
(* sigsuspend(), later in the frame.  Once the loop of sigsuspend() has    *)
(* seen a signal, that signal is still there for check_pending_signals().  *)
MaskInv ==
  /\ ~suspend_active => IF InMain THEN blocked = umask ELSE frame.blocked = umask
  /\ suspend_active /\ st # "DEAD" =>
       /\ "sigsuspend" \in Includes
       /\ InMain /\ suspend_saved_mask = umask
       /\ pc \in {"suspend", "check", "clear", "deliver"}
       /\ pc = "check" => signal_deliverable_mask # {}
  /\ "sigsuspend" \in Includes =>
       /\ InMain => in_handler = {}
       /\ \A s \in Sigs : action[s].handler # "IGN"
       /\ \A c \in Senders : snd[c].at # "drop"

(* Senders only add to what sigsuspend() has seen. *)
LEMMA SenderMask ==
  ASSUME SuspendEndsInHandler, FrameInv, MaskInv, NEW c \in Senders,
         SendStep(c) \/ \E s \in Used : kill(c, s)
  PROVE  MaskInv'
<1>1. TypeOK /\ SentOnly
  BY DEF FrameInv
<1>2. /\ UNCHANGED <<blocked, in_handler, suspend_active, suspend_saved_mask, action, frame, pc, umask>>
      /\ st = "DEAD" => st' = "DEAD"
  BY <1>1, SenderLeaves
<1>3. CASE "sigsuspend" \notin Includes
  BY <1>2, <1>3 DEF MaskInv, InMain
<1>4. CASE "sigsuspend" \in Includes
  <2>1. ~Racing /\ (\A s \in Sigs : action[s].handler # "IGN") /\ \A d \in Senders : snd[d].at # "drop"
    BY <1>4, Zenon DEF SuspendEndsInHandler, MaskInv
  <2>2. snd[c].at # "idle" => snd[c].sig \in Sigs
    BY <1>1, SignalsAssumption DEF SentOnly
  <2>3. \A d \in Senders : snd'[d].at # "drop"
    <3>1. ASSUME NEW l, l # "drop", snd' = [snd EXCEPT ![c].at = l] PROVE \A d \in Senders : snd'[d].at # "drop"
      BY <1>1, <2>1, <3>1 DEF TypeOK
    <3>2. CASE Test(c)
      <4>1. action[snd[c].sig].handler # "IGN"
        BY <2>1, <2>2, <3>2 DEF Test
      <4> QED
        BY <3>1, <3>2, <4>1, Zenon DEF Test, GoTo
    <3>3. CASE Continue(c)
      <4>1. action["CONT"].handler # "IGN"
        BY <2>1 DEF Sigs, Number
      <4> QED
        BY <3>1, <3>3, <4>1, Zenon DEF Continue, GoTo
    <3>4. CASE KillReady(c)
      BY <3>1, <3>4, Zenon DEF KillReady, GoTo
    <3>5. CASE Drop(c) \/ wake_up_process_for_signal(c) \/ \E s \in Used : kill(c, s)
      BY <1>1, <2>1, <3>5 DEF Drop, wake_up_process_for_signal, kill, Idle, TypeOK
    <3>6. CASE PostLoad(c) \/ PostStore(c)
      <4>1. \A d \in Senders \ {c} : snd'[d] = snd[d]
        BY <1>1, <3>6 DEF PostLoad, PostStore, TypeOK
      <4>2. snd[c] \in SenderStates
        BY <1>1 DEF TypeOK, SenderStates
      <4>3. \/ snd'[c] = Idle
            \/ snd'[c] = [snd[c] EXCEPT !.at = "ready", !.word = {}]
            \/ \E l \in {"telling", "noting"} : snd'[c] = [snd[c] EXCEPT !.at = l, !.word = pending]
        <5>1. CASE PostStore(c)
          BY <1>1, <5>1 DEF PostStore, TypeOK
        <5>2. CASE PostLoad(c)
          <6>1. PICK l \in {"telling", "noting"} :
                  snd' = [snd EXCEPT ![c] = [snd[c] EXCEPT !.at = l, !.word = pending]]
            BY <4>2, <5>2, Zenon DEF PostLoad, SenderStates
          <6> QED
            BY <1>1, <6>1, Zenon DEF TypeOK
        <5> QED
          BY <3>6, <5>1, <5>2
      <4>4. snd'[c].at # "drop"
        <5>1. Idle.at = "idle"
          BY DEF Idle
        <5>2. /\ [snd[c] EXCEPT !.at = "ready", !.word = {}].at = "ready"
              /\ \A l \in {"telling", "noting"} : [snd[c] EXCEPT !.at = l, !.word = pending].at = l
          BY <4>2 DEF SenderStates
        <5> QED
          BY <4>3, <5>1, <5>2, Zenon
      <4> QED
        BY <2>1, <4>1, <4>4
    <3> QED
      BY <3>2, <3>3, <3>4, <3>5, <3>6 DEF SendStep
  <2>4. pending \subseteq pending'
    BY <2>1 DEF SendStep, Test, Continue, Drop, PostLoad, PostStore, KillReady,
                wake_up_process_for_signal, kill
  <2>5. signal_deliverable_mask \subseteq signal_deliverable_mask'
    BY <1>2, <2>4 DEF signal_deliverable_mask, Ignored
  <2> QED
    BY <1>2, <2>3, <2>5 DEF MaskInv, InMain
<1> QED
  BY <1>3, <1>4

(* The steps that move no mask and no frame keep MaskInv. *)
LEMMA BookkeepingMask ==
  ASSUME SuspendEndsInHandler, FrameInv, MaskInv, Bookkeeping
  PROVE  MaskInv'
<1>1. UNCHANGED <<blocked, in_handler, suspend_active, suspend_saved_mask, action, frame, snd, umask>>
  BY DEF Bookkeeping, EnterKernel, Check, Clear, DefaultAction, SuspendTest, SleepTimesOut,
         PauseTest, PauseSleep, sys_pause, masks, ghosts
<1>2. CASE ~suspend_active
  BY <1>1, <1>2 DEF MaskInv, InMain
<1>3. CASE suspend_active /\ st = "DEAD"
  <2>1. st' = "DEAD"
    BY <1>3 DEF Bookkeeping, EnterKernel, Check, Clear, DefaultAction, SuspendTest, SleepTimesOut,
         PauseTest, PauseSleep, sys_pause, At
  <2> QED
    BY <1>1, <1>3, <2>1 DEF MaskInv, InMain
<1>4. CASE suspend_active /\ st # "DEAD"
  <2>1. /\ "sigsuspend" \in Includes /\ InMain /\ suspend_saved_mask = umask /\ in_handler = {}
        /\ pc \in {"suspend", "check", "clear", "deliver"}
        /\ pc = "check" => signal_deliverable_mask # {}
    BY <1>4 DEF MaskInv
  <2>2. st' = "DEAD" \/ (/\ pc' \in {"suspend", "check", "clear", "deliver"}
                         /\ pc' = "check" => signal_deliverable_mask' # {})
    <3>1. CASE Check \/ Clear
      BY <2>1, <3>1 DEF Check, Clear, At
    <3>2. CASE DefaultAction
      <4>1. cur \in Used
        BY <3>2 DEF DefaultAction, At, FrameInv
      <4>2. default_signal_actions[cur] = "term"
        BY <2>1, <4>1, Zenon DEF SuspendEndsInHandler
      <4> QED
        BY <3>2, <4>2 DEF DefaultAction
    <3>3. CASE SuspendTest
      <4>1. pc' = "check" => signal_deliverable_mask # {} \/ pc = "check"
        BY <3>3 DEF SuspendTest
      <4>2. pending' = pending \ Ignored
        BY <3>3 DEF SuspendTest
      <4>3. signal_deliverable_mask' = signal_deliverable_mask
        BY <1>1, <4>2 DEF signal_deliverable_mask, Ignored
      <4> QED
        BY <2>1, <3>3, <4>1, <4>3 DEF SuspendTest
    <3>4. CASE SleepTimesOut
      BY <3>4 DEF SleepTimesOut
    <3>5. CASE EnterKernel \/ PauseTest \/ PauseSleep \/ sys_pause
      BY <2>1, <3>5 DEF EnterKernel, PauseTest, PauseSleep, sys_pause, At
    <3> QED
      BY <3>1, <3>2, <3>3, <3>4, <3>5 DEF Bookkeeping
  <2> QED
    BY <1>1, <1>4, <2>1, <2>2 DEF MaskInv, InMain
<1> QED
  BY <1>2, <1>3, <1>4

(* Entering a handler, or failing to, keeps MaskInv. *)
LEMMA HandlerMask ==
  ASSUME SuspendEndsInHandler, FrameInv, MaskInv, setup_signal_handler \/ FrameFails \/ PutBack
  PROVE  MaskInv'
<1>1. /\ TypeOK /\ cur \in Sigs /\ in_handler = {} /\ st # "DEAD" /\ InMain
      /\ UNCHANGED <<snd, umask>> /\ suspend_active' = FALSE
  <2>1. /\ TypeOK /\ cur \in Sigs /\ in_handler = {} /\ st # "DEAD" /\ InMain
        /\ UNCHANGED <<snd, umask>>
    BY SignalsAssumption, Zenon DEF FrameInv, setup_signal_handler, FrameFails, PutBack, At, InMain,
                                   ghosts
  <2>2. PutBack => ~suspend_active /\ suspend_active' = suspend_active
    BY DEF PutBack, At, MaskInv, masks
  <2>3. suspend_active \in BOOLEAN
    BY <2>1 DEF TypeOK
  <2> QED
    BY <2>1, <2>2, <2>3 DEF setup_signal_handler, FrameFails
<1>2. CASE setup_signal_handler
  <2>1. frame'.blocked = umask
    BY <1>1, <1>2 DEF setup_signal_handler, MaskInv
  <2>2. frame'.sig = cur /\ frame' # NoFrame
    <3>1. frame'.sig = cur
      BY <1>2 DEF setup_signal_handler
    <3>2. NoSig \notin Sigs /\ NoFrame.sig = NoSig
      BY DEF NoSig, Sigs, Number, NoFrame
    <3> QED
      BY <1>1, <3>1, <3>2
  <2>3. \A s \in Sigs : action'[s].handler \in {action[s].handler, "DFL"}
    <3>1. action \in [Sigs -> Handlers] /\ action[cur] \in Handlers
      BY <1>1 DEF TypeOK
    <3>2. [action[cur] EXCEPT !.handler = "DFL"].handler = "DFL"
      BY <3>1 DEF Handlers
    <3>3. action' = action \/ action' = [action EXCEPT ![cur] = [action[cur] EXCEPT !.handler = "DFL"]]
      BY <1>2 DEF setup_signal_handler
    <3>4. ASSUME NEW s \in Sigs PROVE action'[s] \in {action[s], [action[cur] EXCEPT !.handler = "DFL"]}
      BY <1>1, <3>1, <3>3
    <3> QED
      BY <3>2, <3>4, Zenon
  <2> QED
    BY <1>1, <2>1, <2>2, <2>3 DEF MaskInv, InMain
<1>3. CASE FrameFails
  <2>1. "sigsuspend" \notin Includes /\ ~suspend_active /\ UNCHANGED <<blocked, frame>>
    BY <1>1, <1>3, Zenon DEF FrameFails, SuspendEndsInHandler, MaskInv
  <2> QED
    BY <1>1, <2>1 DEF MaskInv, InMain
<1>4. CASE PutBack
  <2>1. /\ ~suspend_active /\ UNCHANGED <<blocked, in_handler, action, frame>>
        /\ pc' = "user"
    BY <1>4 DEF PutBack, At, MaskInv, masks
  <2> QED
    BY <1>1, <2>1 DEF MaskInv, InMain
<1> QED
  BY <1>2, <1>3, <1>4

(* sigreturn() and the system calls of the program keep MaskInv. *)
LEMMA ProgramMask ==
  ASSUME SuspendEndsInHandler, FrameInv, MaskInv, sys_sigreturn \/ (UserStep /\ ~sys_pause)
  PROVE  MaskInv'
<1>1. /\ At("user") /\ UNCHANGED <<st, pending, snd>>
  BY Zenon DEF sys_sigreturn, UserStep, longjmp, reset_process_signals_for_exec, sys_sigprocmask,
         sys_sigsuspend, sys_sigaction, ghosts
<1>2. ~suspend_active /\ TypeOK
  BY <1>1 DEF At, MaskInv, FrameInv
<1>3. CASE sys_sigreturn
  BY <1>1, <1>2, <1>3 DEF sys_sigreturn, MaskInv, FrameInv, InMain, ghosts
<1>4. CASE longjmp
  BY <1>1, <1>2, <1>4, Zenon DEF longjmp, MaskInv, InMain, SuspendEndsInHandler
<1>5. CASE reset_process_signals_for_exec
  <2>1. /\ suspend_active' = FALSE /\ frame' = NoFrame /\ blocked' = umask' /\ in_handler' = {}
        /\ \A s \in Sigs : action'[s].handler \in {action[s].handler, "DFL"}
    BY <1>5 DEF reset_process_signals_for_exec, DFL
  <2> QED
    BY <1>1, <2>1 DEF MaskInv, InMain
<1>6. ASSUME NEW m \in Masks, sys_sigprocmask(m) PROVE MaskInv'
  BY <1>1, <1>2, <1>6 DEF sys_sigprocmask, MaskInv, InMain
<1>7. ASSUME NEW m \in Masks, sys_sigsuspend(m) PROVE MaskInv'
  <2>1. InMain /\ "sigsuspend" \in Includes /\ blocked = umask
    BY <1>2, <1>7, Zenon DEF sys_sigsuspend, SuspendEndsInHandler, MaskInv
  <2>2. /\ suspend_active' = TRUE /\ suspend_saved_mask' = blocked /\ pc' = "suspend"
        /\ UNCHANGED <<in_handler, action, frame, snd, umask>>
    BY <1>7, Zenon DEF sys_sigsuspend, ghosts
  <2> QED
    BY <2>1, <2>2 DEF MaskInv, InMain
<1>8. ASSUME NEW s \in Used, NEW a \in Actions, sys_sigaction(s, a) PROVE MaskInv'
  <2>1. /\ UNCHANGED <<blocked, in_handler, suspend_active, suspend_saved_mask, frame, umask>>
        /\ \A t \in Sigs : action'[t] \in {action[t], a}
    BY <1>2, <1>8 DEF sys_sigaction, masks, ghosts, TypeOK
  <2>2. "sigsuspend" \in Includes => a.handler # "IGN"
    BY Zenon DEF SuspendEndsInHandler
  <2>3. "sigsuspend" \in Includes => \A t \in Sigs : action'[t].handler # "IGN"
    BY <2>1, <2>2 DEF MaskInv
  <2> QED
    BY <1>1, <1>2, <2>1, <2>3 DEF MaskInv, InMain
<1> QED
  BY <1>3, <1>4, <1>5, <1>6, <1>7, <1>8 DEF UserStep

(* Outside handlers the program runs with the mask it gave itself, however *)
(* handlers, sigsuspend() and exec changed it in between, provided what    *)
(* ends a sigsuspend() is fatal or starts a handler.                       *)
THEOREM MaskRestoredCorrect ==
  ASSUME SuspendEndsInHandler
  PROVE  Spec => []MaskRestored
<1>1. Init => FrameInv /\ MaskInv
  <2>1. Init => MaskInv
    BY DEF Init, MaskInv, InMain, DFL, Idle
  <2> QED
    BY <2>1, FrameInit
<1>2. FrameInv /\ MaskInv /\ [Next]_vars => FrameInv' /\ MaskInv'
  <2> SUFFICES ASSUME FrameInv, MaskInv, [Next]_vars PROVE MaskInv'
    BY FrameNext
  <2>1. CASE UNCHANGED vars
    BY <2>1 DEF vars, masks, ghosts, MaskInv, InMain, signal_deliverable_mask, Ignored
  <2>2. ASSUME NEW c \in Senders, SendStep(c) \/ \E s \in Used : kill(c, s) PROVE MaskInv'
    BY <2>2, SenderMask
  <2>3. CASE KernelStep \/ EnterKernel
    BY <2>3, BookkeepingMask, HandlerMask DEF KernelStep, Bookkeeping
  <2>4. CASE sys_sigreturn \/ UserStep
    BY <2>4, BookkeepingMask, ProgramMask DEF Bookkeeping
  <2> QED
    BY <2>1, <2>2, <2>3, <2>4 DEF Next
<1>3. MaskInv => MaskRestored
  BY DEF MaskInv, MaskRestored, At
<1> QED
  BY <1>1, <1>2, <1>3, PTL DEF Spec
============================================================================
