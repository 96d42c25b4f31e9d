----------------------------- MODULE PipeProofs -----------------------------
(***************************************************************************)
(* Proofs about pipes, for any number of readers and writers, any size of  *)
(* the ring and any count: no process sleeps through what it waits for,    *)
(* the buffer is freed once, after its last user, and the ring implements  *)
(* the queue of ByteQueue.  And about named FIFOs, whose opens sleep and   *)
(* notify alike: the two ends meet, and their counts are exact.            *)
(***************************************************************************)
EXTENDS Pipe, FiniteSetTheorems, TLAPS

(* The part of TypeOK the argument needs.  The ring's bytes and positions  *)
(* have no part in it.                                                     *)
PipeTypes ==
  /\ PollTypeOK
  /\ count \in 0..PIPE_BUF_SIZE
  /\ readers \in 0..1 /\ writers \in 0..1
  /\ freed \in BOOLEAN
  /\ refs \subseteq Procs
  /\ pc \in [Procs -> Pcs]
  /\ want \in [Procs -> Nat]
  /\ done \in [Procs -> Nat]

(* A call has something left to move until it notifies for the last time. *)
CountsInv ==
  \A p \in Procs :
    /\ pc[p] = "user" => done[p] = 0
    /\ pc[p] \in {"gen", "scan", "wait", "asleep"} => done[p] < want[p]

(* A process that sleeps is registered on the pipe, and one that is about  *)
(* to sleep with a fresh generation has seen nothing it waits for happen.  *)
SleepInv ==
  /\ \A p \in sleeping : pc[p] = "asleep" /\ keys[p] = {buffer}
  /\ \A p \in Procs : pc[p] = "wait" /\ fresh[p] => Blocked(p) \/ Notifying # {}

Holding == {"user"} \cup InCall
Closing == {"close", "bye", "byefree", "free"}
Closed == {"bye", "byefree", "free", "gone"}

SameEnd(p, q) == p \in Readers <=> q \in Readers

(* The last reference to a file makes its holder the one that closes that  *)
(* end; the second end to be closed is the one that frees the buffer.      *)
EndsInv ==
  /\ \A p \in Procs : p \in refs <=> pc[p] \in Holding
  /\ readers = 0 => \A p \in Readers : pc[p] \in Closed
  /\ writers = 0 => \A p \in Writers : pc[p] \in Closed
  /\ \A p, q \in Procs : SameEnd(p, q) /\ p # q /\ pc[p] \in Closing => pc[q] = "gone"
  /\ \A p \in Procs : pc[p] \in {"byefree", "free"} => readers = 0 /\ writers = 0
  /\ BufferLive

IInv == PipeTypes /\ CountsInv /\ SleepInv /\ PipeSleepers /\ EndsInv

-----------------------------------------------------------------------------
(* An open pipe nobody has used satisfies the invariant. *)
LEMMA IInvInit == Init => IInv
<1> SUFFICES ASSUME Init PROVE IInv
  OBVIOUS
<1> USE PipeAssumption DEF Init, PollInit
<1>1. PipeTypes /\ CountsInv
  <2>1. PollTypeOK /\ pc \in [Procs -> Pcs]
    BY Zenon DEF PollTypeOK, Pcs
  <2>2. \A p \in Procs : pc[p] = "user" /\ done[p] = 0
    OBVIOUS
  <2>3. want \in [Procs -> Nat] /\ done \in [Procs -> Nat]
    OBVIOUS
  <2>4. count \in 0..PIPE_BUF_SIZE /\ readers \in 0..1 /\ writers \in 0..1
    OBVIOUS
  <2>5. freed \in BOOLEAN /\ refs \subseteq Procs
    BY ZenonT(40)
  <2> QED
    BY Zenon, <2>1, <2>2, <2>3, <2>4, <2>5 DEF PipeTypes, CountsInv
<1>2. SleepInv /\ PipeSleepers
  BY DEF SleepInv, PipeSleepers, NoLostWakeup, SignalNotLost
<1>3. EndsInv
  BY DEF EndsInv, Holding, Closing, Closed, InCall, BufferLive
<1> QED
  BY <1>1, <1>2, <1>3 DEF IInv

(* What a read that finds bytes does, apart from the bytes: it takes some  *)
(* of what there is and is bound to notify.                                *)
LEMMA ReadScanFacts ==
    ASSUME IInv, NEW p \in Readers, ReadScan(p)
    PROVE  /\ pc[p] = "scan" /\ Goto(p, "notify")
           /\ count' \in 0..PIPE_BUF_SIZE
           /\ done' \in [Procs -> Nat] /\ \A q \in Procs : q # p => done'[q] = done[q]
           /\ UNCHANGED <<want, ends, pollvars>>
<1> DEFINE k == Least(want[p], count)
<1>1. p \in Procs /\ k \in Nat /\ k <= count
  BY PipeAssumption DEF IInv, PipeTypes, Least
<1>2. count' = count - k /\ done' = [done EXCEPT ![p] = k]
  BY DEF ReadScan
<1> HIDE DEF k
<1>3. count' \in 0..PIPE_BUF_SIZE
  BY <1>1, <1>2, PipeAssumption DEF IInv, PipeTypes
<1>4. done' \in [Procs -> Nat] /\ \A q \in Procs : q # p => done'[q] = done[q]
  BY <1>1, <1>2 DEF IInv, PipeTypes
<1> QED
  BY <1>3, <1>4 DEF ReadScan

(* What a write does, apart from the bytes: either it has stored something *)
(* in this round or an earlier one and is bound to notify, or the ring was *)
(* full, it has stored nothing, and it waits or returns.                   *)
LEMMA WriteScanFacts ==
    ASSUME IInv, NEW p \in Writers, WriteScan(p)
    PROVE  /\ pc[p] = "scan" /\ readers > 0
           /\ count' \in 0..PIPE_BUF_SIZE
           /\ UNCHANGED <<ends, pollvars>>
           /\ \/ /\ Goto(p, "notify") /\ UNCHANGED want
                 /\ done' \in [Procs -> Nat] /\ \A q \in Procs : q # p => done'[q] = done[q]
              \/ NothingMoved(p) /\ count = PIPE_BUF_SIZE /\ UNCHANGED count
<1> DEFINE k == Least(want[p] - done[p], Room)
<1>1. p \in Procs /\ done[p] \in Nat /\ want[p] \in Nat /\ done[p] < want[p] /\ count \in 0..PIPE_BUF_SIZE
  BY PipeAssumption DEF IInv, PipeTypes, CountsInv, WriteScan
<1>2. k \in Nat /\ k <= PIPE_BUF_SIZE - count /\ (k = 0 => count = PIPE_BUF_SIZE)
  BY <1>1, PipeAssumption DEF Least, Room
<1>3. /\ pc[p] = "scan" /\ readers > 0 /\ count' = count + k
      /\ UNCHANGED <<ends, pollvars>>
      /\ IF done[p] + k > 0
           THEN /\ done' = [done EXCEPT ![p] = @ + k]
                /\ Goto(p, "notify")
                /\ UNCHANGED want
           ELSE NothingMoved(p)
  BY Zenon DEF WriteScan
<1> HIDE DEF k
<1>4. count' \in 0..PIPE_BUF_SIZE
  BY <1>1, <1>2, <1>3, PipeAssumption
<1>5. CASE done[p] + k > 0
  <2>1. done' = [done EXCEPT ![p] = @ + k] /\ Goto(p, "notify") /\ UNCHANGED want
    BY <1>3, <1>5
  <2>2. done' \in [Procs -> Nat] /\ \A q \in Procs : q # p => done'[q] = done[q]
    BY <2>1, <1>1, <1>2 DEF IInv, PipeTypes
  <2> QED
    BY <2>1, <2>2, <1>3, <1>4
<1>6. CASE ~(done[p] + k > 0)
  <2>1. NothingMoved(p)
    BY <1>3, <1>6
  <2>2. k = 0
    BY <1>1, <1>2, <1>6
  <2>3. count = PIPE_BUF_SIZE /\ UNCHANGED count
    BY <2>2, <1>1, <1>2, <1>3, SMTT(30)
  <2> QED
    BY <2>1, <2>3, <1>3, <1>4
<1> QED
  BY <1>5, <1>6
(* No step leaves the types. *)
LEMMA TypesNext == IInv /\ [Next]_vars => PipeTypes'
<1> SUFFICES ASSUME IInv, [Next]_vars PROVE PipeTypes'
  OBVIOUS
<1> USE PipeAssumption DEF IInv, PipeTypes, PollTypeOK, Pcs, CountsInv, ring, ends, local, pollvars
<1>1. ASSUME NEW p \in Procs, \E n \in 1..MaxCount : Start(p, n) PROVE PipeTypes'
  BY <1>1 DEF Start, Goto
<1>2. ASSUME NEW p \in Procs, Generation(p) PROVE PipeTypes'
  BY <1>2 DEF Generation, task_poll_generation, Goto
<1>3. ASSUME NEW p \in Procs, p \in Readers, ReadScan(p) PROVE PipeTypes'
  BY <1>3, ReadScanFacts DEF Goto
<1>4. ASSUME NEW p \in Procs, p \in Readers, ReadEof(p) PROVE PipeTypes'
  BY <1>4 DEF ReadEof, Return, Goto
<1>5. ASSUME NEW p \in Procs, p \in Readers, ReadEmpty(p) PROVE PipeTypes'
  BY <1>5 DEF ReadEmpty, NothingMoved, Return, AtEof, Goto
<1>6. ASSUME NEW p \in Procs, p \in Writers, WriteBroken(p) PROVE PipeTypes'
  BY <1>6 DEF WriteBroken, Return, send_signal, Goto
<1>7. ASSUME NEW p \in Procs, p \in Writers, WriteScan(p) PROVE PipeTypes'
  BY <1>7, WriteScanFacts DEF NothingMoved, Return, Goto
<1>8. ASSUME NEW p \in Procs, Notify(p) PROVE PipeTypes'
  BY <1>8 DEF Notify, task_poll_notify_key, Return, Goto
<1>9. ASSUME NEW p \in Procs, Wait(p) PROVE PipeTypes'
  <2>1. UNCHANGED <<count, readers, writers, freed, refs>>
    BY <1>9 DEF Wait
  <2>2. PollTypeOK'
    <3>1. CASE UNCHANGED pollvars
      BY <3>1
    <3>2. CASE PollSleep(p, {buffer}, FALSE)
      BY <3>2 DEF PollSleep
    <3> QED
      BY <1>9, <3>1, <3>2, Zenon DEF Wait
  <2>3. pc' \in [Procs -> Pcs] /\ want' \in [Procs -> Nat] /\ done' \in [Procs -> Nat]
    <3>1. CASE Return(p)
      BY <3>1 DEF Return, Goto
    <3>2. CASE (Goto(p, "gen") \/ Goto(p, "asleep")) /\ UNCHANGED <<want, done>>
      BY <3>2 DEF Goto
    <3> QED
      BY <1>9, <3>1, <3>2, Zenon DEF Wait
  <2> QED
    BY <2>1, <2>2, <2>3
<1>10. ASSUME NEW p \in Procs, Resume(p) PROVE PipeTypes'
  BY <1>10 DEF Resume, PollResume, Return, Goto
<1>11. ASSUME NEW p \in Procs, Close(p) PROVE PipeTypes'
  BY <1>11 DEF Close, Sharers, Goto
<1>12. ASSUME NEW p \in Procs, CloseEnd(p) PROVE PipeTypes'
  BY <1>12 DEF CloseEnd, EndsInv, Closed, Goto
<1>13. ASSUME NEW p \in Procs, CloseNotify(p) PROVE PipeTypes'
  BY <1>13 DEF CloseNotify, task_poll_notify_key, Goto
<1>14. ASSUME NEW p \in Procs, CloseFree(p) PROVE PipeTypes'
  BY <1>14 DEF CloseFree, Goto
<1>15. ASSUME NEW p \in Procs, Signal(p) PROVE PipeTypes'
  BY <1>15 DEF Signal, send_signal, Goto
<1>16. ASSUME NEW p \in Procs, SignalWake(p) PROVE PipeTypes'
  BY <1>16 DEF SignalWake, wake_up_process_for_signal, Goto
<1>17. ASSUME NEW p \in Procs, Deliver(p) PROVE PipeTypes'
  BY <1>17 DEF Deliver, check_pending_signals, Goto
<1>18. CASE ForeignNotify
  BY <1>18 DEF ForeignNotify, task_poll_notify_key, Goto
<1>19. CASE UNCHANGED vars
  BY Zenon, <1>19 DEF vars, Goto
<1> QED
  BY <1>1, <1>2, <1>3, <1>4, <1>5, <1>6, <1>7, <1>8, <1>9, <1>10, <1>11, <1>12, <1>13, <1>14, <1>15, <1>16, <1>17, <1>18, <1>19, ZenonT(30)
  DEF Next, KernelStep, UserStep, Read, Write

(* A call goes on only with something left to move. *)
LEMMA CountsNext == IInv /\ [Next]_vars => CountsInv'
<1> SUFFICES ASSUME IInv, [Next]_vars PROVE CountsInv'
  OBVIOUS
<1> USE PipeAssumption DEF IInv, PipeTypes, CountsInv, ends, local, pollvars
<1>1. ASSUME NEW p \in Procs, \E n \in 1..MaxCount : Start(p, n) PROVE CountsInv'
  BY <1>1 DEF Start, Goto
<1>2. ASSUME NEW p \in Procs, Generation(p) PROVE CountsInv'
  BY <1>2 DEF Generation, task_poll_generation, Goto
<1>3. ASSUME NEW p \in Procs, p \in Readers, ReadScan(p) PROVE CountsInv'
  BY <1>3, ReadScanFacts DEF Goto
<1>4. ASSUME NEW p \in Procs, p \in Readers, ReadEof(p) PROVE CountsInv'
  BY <1>4 DEF ReadEof, Return, Goto
<1>5. ASSUME NEW p \in Procs, p \in Readers, ReadEmpty(p) PROVE CountsInv'
  BY <1>5 DEF ReadEmpty, NothingMoved, Return, AtEof, Goto
<1>6. ASSUME NEW p \in Procs, p \in Writers, WriteBroken(p) PROVE CountsInv'
  BY <1>6 DEF WriteBroken, Return, send_signal, Goto
<1>7. ASSUME NEW p \in Procs, p \in Writers, WriteScan(p) PROVE CountsInv'
  BY <1>7, WriteScanFacts DEF NothingMoved, Return, Goto
<1>8. ASSUME NEW p \in Procs, Notify(p) PROVE CountsInv'
  BY <1>8 DEF Notify, task_poll_notify_key, Return, Goto
<1>9. ASSUME NEW p \in Procs, Wait(p) PROVE CountsInv'
  BY <1>9 DEF Wait, PollStale, PollInterrupted, PollSleep, Return, Goto
<1>10. ASSUME NEW p \in Procs, Resume(p) PROVE CountsInv'
  BY <1>10 DEF Resume, PollResume, Return, Goto
<1>11. ASSUME NEW p \in Procs, Close(p) PROVE CountsInv'
  BY <1>11 DEF Close, Sharers, Goto
<1>12. ASSUME NEW p \in Procs, CloseEnd(p) PROVE CountsInv'
  BY <1>12 DEF CloseEnd, FreesBuffer, Goto
<1>13. ASSUME NEW p \in Procs, CloseNotify(p) PROVE CountsInv'
  BY <1>13 DEF CloseNotify, task_poll_notify_key, Goto
<1>14. ASSUME NEW p \in Procs, CloseFree(p) PROVE CountsInv'
  BY <1>14 DEF CloseFree, Goto
<1>15. ASSUME NEW p \in Procs, Signal(p) PROVE CountsInv'
  BY <1>15 DEF Signal, send_signal, Goto
<1>16. ASSUME NEW p \in Procs, SignalWake(p) PROVE CountsInv'
  BY <1>16 DEF SignalWake, wake_up_process_for_signal, Goto
<1>17. ASSUME NEW p \in Procs, Deliver(p) PROVE CountsInv'
  BY <1>17 DEF Deliver, check_pending_signals, Goto
<1>18. CASE ForeignNotify
  BY <1>18 DEF ForeignNotify, task_poll_notify_key, Goto
<1>19. CASE UNCHANGED vars
  BY <1>19, SMTT(30) DEF vars, Goto
<1> QED
  BY Zenon, <1>1, <1>2, <1>3, <1>4, <1>5, <1>6, <1>7, <1>8, <1>9, <1>10, <1>11, <1>12, <1>13, <1>14, <1>15, <1>16, <1>17, <1>18, <1>19
  DEF Next, KernelStep, UserStep, Read, Write

(* Nobody sleeps, or is about to, beside what it waits for: every step     *)
(* that changes the condition is followed by a notification of its own,    *)
(* and the notification leaves no sleeper and no fresh generation.         *)
LEMMA SleepNext == IInv /\ [Next]_vars => (SleepInv /\ NoLostWakeup)'
<1> SUFFICES ASSUME IInv, [Next]_vars PROVE (SleepInv /\ NoLostWakeup)'
  OBVIOUS
<1> USE PipeAssumption DEF IInv, PipeTypes, PollTypeOK, CountsInv, PipeSleepers, SleepInv, NoLostWakeup, Blocked, Notifying, ring, ends, local, pollvars
<1>1. ASSUME NEW p \in Procs, \E n \in 1..MaxCount : Start(p, n) PROVE (SleepInv /\ NoLostWakeup)'
  BY <1>1 DEF Start, Goto
<1>2. ASSUME NEW p \in Procs, Generation(p) PROVE (SleepInv /\ NoLostWakeup)'
  BY <1>2 DEF Generation, task_poll_generation, Goto
<1>3. ASSUME NEW p \in Procs, p \in Readers, ReadScan(p) PROVE (SleepInv /\ NoLostWakeup)'
  BY <1>3, ReadScanFacts DEF Goto
<1>4. ASSUME NEW p \in Procs, p \in Readers, ReadEof(p) PROVE (SleepInv /\ NoLostWakeup)'
  BY <1>4 DEF ReadEof, Return, Goto
<1>5. ASSUME NEW p \in Procs, p \in Readers, ReadEmpty(p) PROVE (SleepInv /\ NoLostWakeup)'
  BY <1>5 DEF ReadEmpty, NothingMoved, Return, AtEof, Goto
<1>6. ASSUME NEW p \in Procs, p \in Writers, WriteBroken(p) PROVE (SleepInv /\ NoLostWakeup)'
  BY ZenonT(60), <1>6 DEF WriteBroken, Return, send_signal, Goto
<1>7. ASSUME NEW p \in Procs, p \in Writers, WriteScan(p) PROVE (SleepInv /\ NoLostWakeup)'
  BY <1>7, WriteScanFacts DEF NothingMoved, Return, Goto
<1>8. ASSUME NEW p \in Procs, Notify(p) PROVE (SleepInv /\ NoLostWakeup)'
  BY <1>8 DEF Notify, task_poll_notify_key, Return, Goto
<1>9. ASSUME NEW p \in Procs, Wait(p) PROVE (SleepInv /\ NoLostWakeup)'
  BY <1>9 DEF Wait, PollStale, PollInterrupted, PollSleep, Return, Goto
<1>10. ASSUME NEW p \in Procs, Resume(p) PROVE (SleepInv /\ NoLostWakeup)'
  BY <1>10 DEF Resume, PollResume, Return, Goto
<1>11. ASSUME NEW p \in Procs, Close(p) PROVE (SleepInv /\ NoLostWakeup)'
  BY <1>11 DEF Close, Sharers, Goto
<1>12. ASSUME NEW p \in Procs, CloseEnd(p) PROVE (SleepInv /\ NoLostWakeup)'
  BY <1>12 DEF CloseEnd, FreesBuffer, Goto
<1>13. ASSUME NEW p \in Procs, CloseNotify(p) PROVE (SleepInv /\ NoLostWakeup)'
  BY <1>13 DEF CloseNotify, task_poll_notify_key, Goto
<1>14. ASSUME NEW p \in Procs, CloseFree(p) PROVE (SleepInv /\ NoLostWakeup)'
  BY <1>14 DEF CloseFree, Goto
<1>15. ASSUME NEW p \in Procs, Signal(p) PROVE (SleepInv /\ NoLostWakeup)'
  BY <1>15 DEF Signal, send_signal, Goto
<1>16. ASSUME NEW p \in Procs, SignalWake(p) PROVE (SleepInv /\ NoLostWakeup)'
  BY <1>16 DEF SignalWake, wake_up_process_for_signal, Goto
<1>17. ASSUME NEW p \in Procs, Deliver(p) PROVE (SleepInv /\ NoLostWakeup)'
  BY <1>17 DEF Deliver, check_pending_signals, Goto
<1>18. CASE ForeignNotify
  BY <1>18 DEF ForeignNotify, task_poll_notify_key, Goto
<1>19. CASE UNCHANGED vars
  BY Zenon, <1>19 DEF vars, Goto
<1> QED
  BY <1>1, <1>2, <1>3, <1>4, <1>5, <1>6, <1>7, <1>8, <1>9, <1>10, <1>11, <1>12, <1>13, <1>14, <1>15, <1>16, <1>17, <1>18, <1>19, ZenonT(30)
  DEF Next, KernelStep, UserStep, Read, Write

(* A sender posts before it wakes, and a process tests before it sleeps. *)
LEMMA SignalNext == IInv /\ [Next]_vars => SignalNotLost'
<1> SUFFICES ASSUME IInv, [Next]_vars PROVE SignalNotLost'
  OBVIOUS
<1> USE PipeAssumption DEF IInv, PipeTypes, PollTypeOK, PipeSleepers, SignalNotLost, ends, local, pollvars
<1>1. ASSUME NEW p \in Procs, \E n \in 1..MaxCount : Start(p, n) PROVE SignalNotLost'
  BY <1>1 DEF Start, Goto
<1>2. ASSUME NEW p \in Procs, Generation(p) PROVE SignalNotLost'
  BY <1>2 DEF Generation, task_poll_generation, Goto
<1>3. ASSUME NEW p \in Procs, p \in Readers, ReadScan(p) PROVE SignalNotLost'
  BY <1>3, ReadScanFacts DEF Goto
<1>4. ASSUME NEW p \in Procs, p \in Readers, ReadEof(p) PROVE SignalNotLost'
  BY <1>4 DEF ReadEof, Return, Goto
<1>5. ASSUME NEW p \in Procs, p \in Readers, ReadEmpty(p) PROVE SignalNotLost'
  BY <1>5 DEF ReadEmpty, NothingMoved, Return, AtEof, Goto
<1>6. ASSUME NEW p \in Procs, p \in Writers, WriteBroken(p) PROVE SignalNotLost'
  BY <1>6 DEF WriteBroken, Return, send_signal, Goto
<1>7. ASSUME NEW p \in Procs, p \in Writers, WriteScan(p) PROVE SignalNotLost'
  BY <1>7, WriteScanFacts DEF NothingMoved, Return, Goto
<1>8. ASSUME NEW p \in Procs, Notify(p) PROVE SignalNotLost'
  BY <1>8 DEF Notify, task_poll_notify_key, Return, Goto
<1>9. ASSUME NEW p \in Procs, Wait(p) PROVE SignalNotLost'
  BY <1>9 DEF Wait, PollStale, PollInterrupted, PollSleep, Return, Goto
<1>10. ASSUME NEW p \in Procs, Resume(p) PROVE SignalNotLost'
  BY <1>10 DEF Resume, PollResume, Return, Goto
<1>11. ASSUME NEW p \in Procs, Close(p) PROVE SignalNotLost'
  BY <1>11 DEF Close, Sharers, Goto
<1>12. ASSUME NEW p \in Procs, CloseEnd(p) PROVE SignalNotLost'
  BY <1>12 DEF CloseEnd, FreesBuffer, Goto
<1>13. ASSUME NEW p \in Procs, CloseNotify(p) PROVE SignalNotLost'
  BY <1>13 DEF CloseNotify, task_poll_notify_key, Goto
<1>14. ASSUME NEW p \in Procs, CloseFree(p) PROVE SignalNotLost'
  BY <1>14 DEF CloseFree, Goto
<1>15. ASSUME NEW p \in Procs, Signal(p) PROVE SignalNotLost'
  BY <1>15 DEF Signal, send_signal, Goto
<1>16. ASSUME NEW p \in Procs, SignalWake(p) PROVE SignalNotLost'
  BY <1>16 DEF SignalWake, wake_up_process_for_signal, Goto
<1>17. ASSUME NEW p \in Procs, Deliver(p) PROVE SignalNotLost'
  BY <1>17 DEF Deliver, check_pending_signals, Goto
<1>18. CASE ForeignNotify
  BY <1>18 DEF ForeignNotify, task_poll_notify_key, Goto
<1>19. CASE UNCHANGED vars
  BY <1>19, SMTT(30) DEF vars, Goto
<1> QED
  BY Zenon, <1>1, <1>2, <1>3, <1>4, <1>5, <1>6, <1>7, <1>8, <1>9, <1>10, <1>11, <1>12, <1>13, <1>14, <1>15, <1>16, <1>17, <1>18, <1>19
  DEF Next, KernelStep, UserStep, Read, Write

(* The ends are closed by the holders of the last references, one each,    *)
(* and the second of them frees the buffer.                                *)
LEMMA EndsNext == IInv /\ [Next]_vars => EndsInv'
<1> SUFFICES ASSUME IInv, [Next]_vars PROVE EndsInv'
  OBVIOUS
<1> USE PipeAssumption DEF IInv, PipeTypes, EndsInv, Holding, InCall, Closing, Closed, SameEnd, BufferLive, ends, local, pollvars
<1>1. ASSUME NEW p \in Procs, \E n \in 1..MaxCount : Start(p, n) PROVE EndsInv'
  BY <1>1 DEF Start, Goto
<1>2. ASSUME NEW p \in Procs, Generation(p) PROVE EndsInv'
  BY <1>2 DEF Generation, task_poll_generation, Goto
<1>3. ASSUME NEW p \in Procs, p \in Readers, ReadScan(p) PROVE EndsInv'
  BY <1>3, ReadScanFacts DEF Goto
<1>4. ASSUME NEW p \in Procs, p \in Readers, ReadEof(p) PROVE EndsInv'
  BY <1>4 DEF ReadEof, Return, Goto
<1>5. ASSUME NEW p \in Procs, p \in Readers, ReadEmpty(p) PROVE EndsInv'
  BY <1>5, SMTT(30) DEF ReadEmpty, NothingMoved, Return, AtEof, Goto
<1>6. ASSUME NEW p \in Procs, p \in Writers, WriteBroken(p) PROVE EndsInv'
  BY ZenonT(60), <1>6 DEF WriteBroken, Return, send_signal, Goto
<1>7. ASSUME NEW p \in Procs, p \in Writers, WriteScan(p) PROVE EndsInv'
  BY <1>7, WriteScanFacts, SMTT(30) DEF NothingMoved, Return, Goto
<1>8. ASSUME NEW p \in Procs, Notify(p) PROVE EndsInv'
  BY <1>8 DEF Notify, task_poll_notify_key, Return, Goto
<1>9. ASSUME NEW p \in Procs, Wait(p) PROVE EndsInv'
  BY <1>9 DEF Wait, PollStale, PollInterrupted, PollSleep, Return, Goto
<1>10. ASSUME NEW p \in Procs, Resume(p) PROVE EndsInv'
  BY <1>10, SMTT(30) DEF Resume, PollResume, Return, Goto
<1>11. ASSUME NEW p \in Procs, Close(p) PROVE EndsInv'
  <2>1. pc[p] = "user" /\ p \in refs /\ refs' = refs \ {p} /\ UNCHANGED <<readers, writers, freed>>
    BY <1>11 DEF Close
  <2>2. \/ refs \cap Sharers(p) = {p} /\ pc' = [pc EXCEPT ![p] = "close"]
        \/ pc' = [pc EXCEPT ![p] = "gone"]
    BY <1>11, Zenon DEF Close, Goto
  <2>3. ASSUME pc' = [pc EXCEPT ![p] = "gone"] PROVE EndsInv'
    BY <2>1, <2>3
  <2>4. ASSUME refs \cap Sharers(p) = {p}, pc' = [pc EXCEPT ![p] = "close"] PROVE EndsInv'
    <3>1. \A q \in Procs : SameEnd(p, q) /\ q # p => q \notin refs
      BY <2>4 DEF Sharers
    <3>2. \A q \in Procs : SameEnd(p, q) /\ q # p => pc[q] = "gone"
      BY <3>1, <2>1, SMTT(30) DEF Pcs
    <3> QED
      BY <2>1, <2>4, <3>2
  <2> QED
    BY <2>2, <2>3, <2>4
<1>12. ASSUME NEW p \in Procs, CloseEnd(p) PROVE EndsInv'
  BY <1>12, SMTT(30) DEF CloseEnd, FreesBuffer, Goto
<1>13. ASSUME NEW p \in Procs, CloseNotify(p) PROVE EndsInv'
  BY <1>13 DEF CloseNotify, task_poll_notify_key, Goto
<1>14. ASSUME NEW p \in Procs, CloseFree(p) PROVE EndsInv'
  BY <1>14 DEF CloseFree, Goto
<1>15. ASSUME NEW p \in Procs, Signal(p) PROVE EndsInv'
  BY <1>15 DEF Signal, send_signal, Goto
<1>16. ASSUME NEW p \in Procs, SignalWake(p) PROVE EndsInv'
  BY <1>16 DEF SignalWake, wake_up_process_for_signal, Goto
<1>17. ASSUME NEW p \in Procs, Deliver(p) PROVE EndsInv'
  BY Zenon, <1>17 DEF Deliver, check_pending_signals, Goto
<1>18. CASE ForeignNotify
  BY <1>18 DEF ForeignNotify, task_poll_notify_key, Goto
<1>19. CASE UNCHANGED vars
  BY <1>19 DEF vars, Goto
<1> QED
  BY <1>1, <1>2, <1>3, <1>4, <1>5, <1>6, <1>7, <1>8, <1>9, <1>10, <1>11, <1>12, <1>13, <1>14, <1>15, <1>16, <1>17, <1>18, <1>19, ZenonT(30)
  DEF Next, KernelStep, UserStep, Read, Write

(* The invariant holds in every reachable state. *)
LEMMA IInvInductive == Spec => []IInv
<1>1. IInv /\ [Next]_vars => IInv'
  BY TypesNext, CountsNext, SleepNext, SignalNext, EndsNext DEF IInv, PipeSleepers
<1> QED BY <1>1, IInvInit, PTL DEF Spec

-----------------------------------------------------------------------------
(* No process is left asleep in pipe_read() or pipe_write() beside what it *)
(* waits for or with a signal that nobody is going to wake it for.         *)
THEOREM PipeSleepersCorrect == Spec => []PipeSleepers
<1>1. IInv => PipeSleepers
  BY DEF IInv
<1> QED BY <1>1, IInvInductive, PTL

(* The shared buffer outlives every use of it and is freed once. *)
THEOREM BufferLiveCorrect == Spec => []BufferLive
<1>1. IInv => BufferLive
  BY DEF IInv, EndsInv
<1> QED BY <1>1, IInvInductive, PTL

-----------------------------------------------------------------------------
(* The ring as a queue.  What a reader finds is decided by positions that  *)
(* wrap: the oldest byte is at read_pos, and the first free place follows  *)
(* the queued bytes.                                                       *)
RingInv ==
  /\ data \in [0..(PIPE_BUF_SIZE - 1) -> Byte]
  /\ read_pos \in 0..(PIPE_BUF_SIZE - 1)
  /\ write_pos = (read_pos + count) % PIPE_BUF_SIZE

(* A position taken back by one turn if it has passed the end. *)
Wrapped(x) == IF x < PIPE_BUF_SIZE THEN x ELSE x - PIPE_BUF_SIZE

(* The remainder of a position that is less than two turns ahead. *)
LEMMA Wrap == \A x \in Nat : x < 2 * PIPE_BUF_SIZE => x % PIPE_BUF_SIZE = Wrapped(x)
BY SMTT(30), PipeAssumption DEF Wrapped

(* A function on 1..k is a sequence of length k. *)
LEMMA FunctionIsSeq ==
  ASSUME NEW S, NEW k \in Nat, NEW f \in [1..k -> S]
  PROVE  f \in Seq(S) /\ Len(f) = k
OBVIOUS

(* Two sequences that agree on every place are one. *)
LEMMA SeqEqual ==
  ASSUME NEW S, NEW s \in Seq(S), NEW t \in Seq(S), Len(s) = Len(t),
         \A i \in 1..Len(s) : s[i] = t[i]
  PROVE  s = t
OBVIOUS

(* What taking bytes from either end of a sequence leaves. *)
LEMMA SubSeqFacts ==
  ASSUME NEW S, NEW q \in Seq(S), NEW k \in 1..Len(q)
  PROVE  /\ SubSeq(q, 1, k) \in Seq(S) /\ Len(SubSeq(q, 1, k)) = k
         /\ \A i \in 1..k : SubSeq(q, 1, k)[i] = q[i]
         /\ SubSeq(q, k + 1, Len(q)) \in Seq(S) /\ Len(SubSeq(q, k + 1, Len(q))) = Len(q) - k
         /\ \A i \in 1..(Len(q) - k) : SubSeq(q, k + 1, Len(q))[i] = q[k + i]
OBVIOUS

(* What putting two sequences together gives. *)
LEMMA ConcatFacts ==
  ASSUME NEW S, NEW q \in Seq(S), NEW s \in Seq(S)
  PROVE  /\ q \o s \in Seq(S) /\ Len(q \o s) = Len(q) + Len(s)
         /\ \A i \in 1..(Len(q) + Len(s)) :
              (q \o s)[i] = IF i <= Len(q) THEN q[i] ELSE s[i - Len(q)]
OBVIOUS

(* The k bytes from place r of the ring d on.  Oldest(k) is the case of    *)
(* the pipe's own ring.                                                    *)
Bytes(d, r, k) == [i \in 1..k |-> d[(r + i - 1) % PIPE_BUF_SIZE]]

(* They are a sequence of that length. *)
LEMMA BytesSeq ==
  ASSUME NEW d \in [0..(PIPE_BUF_SIZE - 1) -> Byte], NEW r \in 0..(PIPE_BUF_SIZE - 1),
         NEW k \in 0..PIPE_BUF_SIZE
  PROVE  /\ Bytes(d, r, k) \in Seq(Byte) /\ Len(Bytes(d, r, k)) = k
         /\ \A i \in 1..k : Bytes(d, r, k)[i] = d[(r + i - 1) % PIPE_BUF_SIZE]
<1>1. ASSUME NEW i \in 1..k
      PROVE  (r + i - 1) % PIPE_BUF_SIZE \in 0..(PIPE_BUF_SIZE - 1)
  <2>1. r + i - 1 \in Nat /\ r + i - 1 < 2 * PIPE_BUF_SIZE
    BY PipeAssumption
  <2> QED
    BY <2>1, Wrap, PipeAssumption DEF Wrapped
<1>2. Bytes(d, r, k) \in [1..k -> Byte]
  BY <1>1 DEF Bytes
<1>3. \A i \in 1..k : Bytes(d, r, k)[i] = d[(r + i - 1) % PIPE_BUF_SIZE]
  BY Zenon DEF Bytes
<1>4. Bytes(d, r, k) \in Seq(Byte) /\ Len(Bytes(d, r, k)) = k
  BY <1>2, FunctionIsSeq
<1> QED
  BY <1>3, <1>4, Zenon

(* Taking k bytes away at read_pos takes the first k of the queue. *)
LEMMA TakeOldest ==
  ASSUME RingInv, count \in 0..PIPE_BUF_SIZE, NEW k \in 1..count,
         read_pos' = (read_pos + k) % PIPE_BUF_SIZE, count' = count - k,
         data' = data, write_pos' = write_pos
  PROVE  /\ RingInv'
         /\ Oldest(k) = SubSeq(Oldest(count), 1, k)
         /\ Oldest(count)' = SubSeq(Oldest(count), k + 1, Len(Oldest(count)))
<1>1. /\ PIPE_BUF_SIZE \in Nat \ {0} /\ read_pos \in 0..(PIPE_BUF_SIZE - 1)
      /\ data \in [0..(PIPE_BUF_SIZE - 1) -> Byte]
      /\ count \in 0..PIPE_BUF_SIZE /\ write_pos = (read_pos + count) % PIPE_BUF_SIZE
  BY PipeAssumption DEF RingInv
<1>2. read_pos' = Wrapped(read_pos + k)
  <2>1. read_pos + k \in Nat /\ read_pos + k < 2 * PIPE_BUF_SIZE
    BY <1>1
  <2> QED
    BY <2>1, Wrap, Zenon
<1>3. read_pos' \in 0..(PIPE_BUF_SIZE - 1) /\ count' \in 0..PIPE_BUF_SIZE
  BY <1>1, <1>2 DEF Wrapped
<1>4. RingInv'
  <2>1. /\ read_pos + count \in Nat /\ read_pos + count < 2 * PIPE_BUF_SIZE
        /\ read_pos' + count' \in Nat /\ read_pos' + count' < 2 * PIPE_BUF_SIZE
    BY <1>1, <1>3
  <2>2. (read_pos + count) % PIPE_BUF_SIZE = (read_pos' + count') % PIPE_BUF_SIZE
    <3>1. (read_pos + count) % PIPE_BUF_SIZE = Wrapped(read_pos + count)
      BY <2>1, Wrap, Zenon
    <3>2. (read_pos' + count') % PIPE_BUF_SIZE = Wrapped(read_pos' + count')
      BY <2>1, Wrap, Zenon
    <3>3. Wrapped(read_pos + count) = Wrapped(read_pos' + count')
      BY <1>1, <1>2 DEF Wrapped
    <3> QED
      BY <3>1, <3>2, <3>3, Zenon
  <2> QED
    BY <1>1, <1>3, <2>2 DEF RingInv
<1> DEFINE q == Bytes(data, read_pos, count)
           t == Bytes(data, read_pos, k)
           u == Bytes(data, read_pos', count - k)
<1>5. /\ q \in Seq(Byte) /\ Len(q) = count
      /\ \A i \in 1..count : q[i] = data[(read_pos + i - 1) % PIPE_BUF_SIZE]
  BY ZenonT(40), <1>1, BytesSeq
<1>6. /\ t \in Seq(Byte) /\ Len(t) = k
      /\ \A i \in 1..k : t[i] = data[(read_pos + i - 1) % PIPE_BUF_SIZE]
  <2>1. k \in 0..PIPE_BUF_SIZE
    BY <1>1
  <2> QED
    BY <1>1, <2>1, BytesSeq, Zenon
<1>7. /\ u \in Seq(Byte) /\ Len(u) = count - k
      /\ \A i \in 1..(count - k) : u[i] = data[(read_pos' + i - 1) % PIPE_BUF_SIZE]
  <2>1. count - k \in 0..PIPE_BUF_SIZE
    BY <1>1
  <2> QED
    BY <1>1, <1>3, <2>1, BytesSeq, Zenon
<1>8. q = Oldest(count) /\ t = Oldest(k) /\ u = Oldest(count)'
  BY DEF Oldest, Bytes
<1> HIDE DEF q, t, u
<1>9. t = SubSeq(q, 1, k)
  <2>1. \A i \in 1..k : t[i] = q[i]
    BY SMTT(30), <1>1, <1>5, <1>6
  <2>2. k \in 1..Len(q)
    BY <1>5
  <2> QED
    BY <1>5, <1>6, <2>1, <2>2, SubSeqFacts, SeqEqual
<1>10. u = SubSeq(q, k + 1, Len(q))
  <2>1. ASSUME NEW i \in 1..(count - k)
        PROVE  u[i] = q[k + i]
    <3>1. /\ read_pos' + i - 1 \in Nat /\ read_pos' + i - 1 < 2 * PIPE_BUF_SIZE
          /\ read_pos + (k + i) - 1 \in Nat /\ read_pos + (k + i) - 1 < 2 * PIPE_BUF_SIZE
      BY <1>1, <1>3
    <3>2. (read_pos' + i - 1) % PIPE_BUF_SIZE = (read_pos + (k + i) - 1) % PIPE_BUF_SIZE
      <4>1. (read_pos' + i - 1) % PIPE_BUF_SIZE = Wrapped(read_pos' + i - 1)
        BY <3>1, Wrap, Zenon
      <4>2. (read_pos + (k + i) - 1) % PIPE_BUF_SIZE = Wrapped(read_pos + (k + i) - 1)
        BY <3>1, Wrap, Zenon
      <4> QED
        BY <1>1, <1>2, <4>1, <4>2 DEF Wrapped
    <3>3. k + i \in 1..count
      BY <1>1
    <3> QED
      BY ZenonT(40), <1>5, <1>7, <3>2, <3>3
  <2>2. k \in 1..Len(q)
    BY <1>5
  <2> QED
    BY <1>5, <1>7, <2>1, <2>2, SubSeqFacts, SeqEqual
<1> QED
  BY <1>4, <1>8, <1>9, <1>10

(* Storing k bytes at write_pos, in the room there is, appends them to the *)
(* queue: no queued byte is overwritten.                                   *)
LEMMA PutNewest ==
  ASSUME RingInv, count \in 0..PIPE_BUF_SIZE, NEW k \in 0..(PIPE_BUF_SIZE - count),
         NEW s \in [1..k -> Byte],
         data' = [i \in DOMAIN data |->
                    LET j == ((i + PIPE_BUF_SIZE - write_pos) % PIPE_BUF_SIZE) + 1
                    IN  IF j <= k THEN s[j] ELSE data[i]],
         write_pos' = (write_pos + k) % PIPE_BUF_SIZE, count' = count + k,
         read_pos' = read_pos
  PROVE  RingInv' /\ Oldest(count)' = Oldest(count) \o s
<1> DEFINE N == PIPE_BUF_SIZE
<1>1. /\ N \in Nat \ {0} /\ read_pos \in 0..(N - 1) /\ count \in 0..N
      /\ k \in 0..N /\ count + k \in 0..N
  BY PipeAssumption DEF RingInv
<1>2. data \in [0..(N - 1) -> Byte]
  BY DEF RingInv
<1>3. write_pos = Wrapped(read_pos + count)
  <2>1. read_pos + count \in Nat /\ read_pos + count < 2 * PIPE_BUF_SIZE
    BY <1>1
  <2>2. write_pos = (read_pos + count) % PIPE_BUF_SIZE
    BY DEF RingInv
  <2> QED
    BY <2>1, <2>2, Wrap, Zenon
<1>4. write_pos \in 0..(N - 1)
  BY <1>1, <1>3 DEF Wrapped
<1>5. ASSUME NEW x \in 0..(N - 1)
      PROVE  /\ (x + PIPE_BUF_SIZE - write_pos) % PIPE_BUF_SIZE = Wrapped(x + PIPE_BUF_SIZE - write_pos)
             /\ Wrapped(x + PIPE_BUF_SIZE - write_pos) \in Nat
  <2>1. x + PIPE_BUF_SIZE - write_pos \in Nat /\ x + PIPE_BUF_SIZE - write_pos < 2 * PIPE_BUF_SIZE
    BY <1>1, <1>4
  <2>2. Wrapped(x + PIPE_BUF_SIZE - write_pos) \in Nat
    BY <1>1, <2>1 DEF Wrapped
  <2> QED
    BY <2>1, <2>2, Wrap, Zenon
<1>6. ASSUME NEW x \in 0..(N - 1)
      PROVE  LET j == Wrapped(x + PIPE_BUF_SIZE - write_pos) + 1
             IN  data'[x] = IF j <= k THEN s[j] ELSE data[x]
  BY <1>2, <1>5, Zenon
<1>7. data' \in [0..(N - 1) -> Byte]
  <2>1. ASSUME NEW x \in 0..(N - 1) PROVE data'[x] \in Byte
    <3>1. Wrapped(x + PIPE_BUF_SIZE - write_pos) + 1 <= k =>
            Wrapped(x + PIPE_BUF_SIZE - write_pos) + 1 \in 1..k
      BY <1>1, <1>5
    <3> QED
      BY <1>2, <1>6, <3>1, Zenon
  <2>2. data' = [x \in 0..(N - 1) |-> data'[x]]
    BY <1>2, Zenon
  <2> QED
    BY <2>1, <2>2, Zenon
<1>8. write_pos' = (read_pos' + count') % PIPE_BUF_SIZE
  <2>1. /\ write_pos + k \in Nat /\ write_pos + k < 2 * PIPE_BUF_SIZE
        /\ read_pos + (count + k) \in Nat /\ read_pos + (count + k) < 2 * PIPE_BUF_SIZE
    BY <1>1, <1>4
  <2>2. (write_pos + k) % PIPE_BUF_SIZE = Wrapped(write_pos + k)
    BY <2>1, Wrap, Zenon
  <2>3. (read_pos + (count + k)) % PIPE_BUF_SIZE = Wrapped(read_pos + (count + k))
    BY <2>1, Wrap, Zenon
  <2>4. Wrapped(write_pos + k) = Wrapped(read_pos + (count + k))
    BY <1>1, <1>3 DEF Wrapped
  <2> QED
    BY <2>2, <2>3, <2>4, Zenon
<1>9. RingInv'
  BY <1>1, <1>7, <1>8, Zenon DEF RingInv
<1> DEFINE q == Bytes(data, read_pos, count)
           u == Bytes(data', read_pos, count + k)
<1>10. /\ q \in Seq(Byte) /\ Len(q) = count
       /\ \A i \in 1..count : q[i] = data[(read_pos + i - 1) % PIPE_BUF_SIZE]
  BY <1>1, <1>2, BytesSeq, Zenon
<1>11. /\ u \in Seq(Byte) /\ Len(u) = count + k
       /\ \A i \in 1..(count + k) : u[i] = data'[(read_pos + i - 1) % PIPE_BUF_SIZE]
  BY <1>1, <1>7, BytesSeq, Zenon
<1>12. q = Oldest(count) /\ u = Oldest(count)'
  BY DEF Oldest, Bytes
<1>13. s \in Seq(Byte) /\ Len(s) = k
  BY <1>1, FunctionIsSeq
<1> HIDE DEF q, u
<1>14. ASSUME NEW i \in 1..(count + k)
       PROVE  u[i] = IF i <= count THEN q[i] ELSE s[i - count]
  <2> DEFINE x == Wrapped(read_pos + i - 1)
  <2>1. read_pos + i - 1 \in Nat /\ read_pos + i - 1 < 2 * PIPE_BUF_SIZE
    BY <1>1
  <2>2. (read_pos + i - 1) % PIPE_BUF_SIZE = x
    BY <2>1, Wrap, Zenon
  <2>3. x \in 0..(N - 1)
    BY <1>1, <2>1 DEF Wrapped
  <2>4. u[i] = data'[x]
    BY <1>11, <2>2, Zenon
  <2>5. CASE i <= count
    <3>1. ~(Wrapped(x + PIPE_BUF_SIZE - write_pos) + 1 <= k)
      BY <1>1, <1>3, <2>5 DEF Wrapped
    <3>2. i \in 1..count
      BY <1>1, <2>5
    <3> QED
      BY <1>6, <1>10, <2>2, <2>3, <2>4, <2>5, <3>1, <3>2, ZenonT(40)
  <2>6. CASE ~(i <= count)
    <3>1. Wrapped(x + PIPE_BUF_SIZE - write_pos) + 1 = i - count /\ i - count <= k
      BY <1>1, <1>3, <2>6 DEF Wrapped
    <3> QED
      BY <1>6, <2>3, <2>4, <2>6, <3>1, ZenonT(40)
  <2> QED
    BY <2>5, <2>6
<1>15. u = q \o s
  <2>1. /\ q \o s \in Seq(Byte) /\ Len(q \o s) = count + k
        /\ \A i \in 1..(count + k) : (q \o s)[i] = IF i <= count THEN q[i] ELSE s[i - count]
    <3>1. Len(q) = count /\ Len(s) = k /\ q \in Seq(Byte) /\ s \in Seq(Byte)
      BY <1>10, <1>13, Zenon
    <3> QED
      BY <3>1, ConcatFacts, Zenon
  <2>2. \A i \in 1..Len(u) : u[i] = (q \o s)[i]
    BY <1>11, <1>14, <2>1, Zenon
  <2>3. Len(u) = Len(q \o s)
    BY <1>11, <2>1, Zenon
  <2> QED
    BY <1>11, <2>1, <2>2, <2>3, SeqEqual, Zenon
<1> QED
  BY <1>9, <1>12, <1>15, Zenon

(* The steps that the queue sees; any other leaves the ring, the reader's  *)
(* results and the writers alone.                                          *)
LEMMA QueueSteps ==
  ASSUME [Next]_vars
  PROVE  \/ \E p \in Readers : ReadScan(p) \/ ReadEof(p)
         \/ \E p \in Writers : WriteScan(p)
         \/ \E p \in Procs : CloseEnd(p)
         \/ UNCHANGED <<ring, seen, writers>>
<1>1. ASSUME NEW p \in Procs, KernelStep(p), ~CloseEnd(p),
             p \in Readers => ~ReadScan(p) /\ ~ReadEof(p), p \in Writers => ~WriteScan(p)
      PROVE  UNCHANGED <<ring, seen, writers>>
  BY <1>1, Zenon DEF KernelStep, Generation, Read, Write, ReadEmpty, WriteBroken, Notify, Wait,
                     Resume, CloseNotify, CloseFree, ends
<1>2. ASSUME NEW p \in Procs, UserStep(p) PROVE UNCHANGED <<ring, seen, writers>>
  BY <1>2, Zenon DEF UserStep, Close, Start, ends
<1>3. ASSUME NEW p \in Procs, Signal(p) \/ SignalWake(p) \/ Deliver(p)
      PROVE  UNCHANGED <<ring, seen, writers>>
  BY <1>3, Zenon DEF Signal, SignalWake, Deliver, ends
<1>4. CASE ForeignNotify \/ UNCHANGED vars
  BY <1>4, Zenon DEF ForeignNotify, vars, ends
<1> QED
  BY <1>1, <1>2, <1>3, <1>4, Zenon DEF Next

(* Every step keeps the ring's positions in order and is a step of the     *)
(* queue, or none.                                                         *)
LEMMA RingNext ==
  ASSUME IInv, RingInv, [Next]_vars
  PROVE  RingInv' /\ [Queue!Next]_<<Oldest(count), got, writers > 0, eof>>
<1>1. count \in 0..PIPE_BUF_SIZE /\ readers \in 0..1 /\ writers \in 0..1
  BY DEF IInv, PipeTypes
<1>2. Oldest(count) \in Seq(Byte) /\ Len(Oldest(count)) = count
  <2>1. Oldest(count) = Bytes(data, read_pos, count)
    BY Zenon DEF Oldest, Bytes
  <2> QED
    BY ZenonT(40), <1>1, <2>1, BytesSeq DEF RingInv
<1>3. ASSUME NEW p \in Readers, ReadScan(p)
      PROVE  RingInv' /\ Queue!Get
  <2> DEFINE k == Least(want[p], count)
  <2>1. /\ got' = Oldest(k) /\ read_pos' = (read_pos + k) % PIPE_BUF_SIZE /\ count' = count - k
        /\ UNCHANGED <<data, write_pos, writers, eof>> /\ count > 0 /\ pc[p] = "scan"
    BY <1>3, Zenon DEF ReadScan, ends
  <2>2. want[p] \in Nat /\ want[p] > 0
    BY SMTT(30), <2>1, PipeAssumption DEF IInv, PipeTypes, CountsInv
  <2>3. k \in 1..count
    BY <1>1, <2>1, <2>2 DEF Least
  <2> HIDE DEF k
  <2>4. /\ RingInv' /\ Oldest(k) = SubSeq(Oldest(count), 1, k)
        /\ Oldest(count)' = SubSeq(Oldest(count), k + 1, Len(Oldest(count)))
    BY <1>1, <2>1, <2>3, TakeOldest, Zenon
  <2>5. UNCHANGED <<writers > 0, eof>>
    BY <2>1
  <2>6. k \in 1..Len(Oldest(count))
    BY <1>2, <2>3
  <2> QED
    BY <2>1, <2>4, <2>5, <2>6, Zenon DEF Queue!Get
<1>4. ASSUME NEW p \in Readers, ReadEof(p)
      PROVE  RingInv' /\ Queue!ReportEof
  <2>1. eof' = TRUE /\ UNCHANGED <<data, read_pos, write_pos, count, got, writers>>
    BY <1>4, Zenon DEF ReadEof, ring, ends
  <2>2. count = 0 /\ ~(writers > 0)
    BY <1>4 DEF ReadEof, AtEof
  <2>3. Oldest(count) = << >>
    BY <1>2, <2>2
  <2>4. Oldest(count)' = Oldest(count) /\ UNCHANGED <<got, writers > 0>>
    BY <2>1 DEF Oldest
  <2>5. RingInv'
    BY <2>1 DEF RingInv
  <2> QED
    BY <2>1, <2>2, <2>3, <2>4, <2>5, Zenon DEF Queue!ReportEof
<1>5. ASSUME NEW p \in Writers, WriteScan(p)
      PROVE  RingInv' /\ (Queue!Put \/ UNCHANGED <<Oldest(count), got, writers > 0, eof>>)
  <2> DEFINE k == Least(want[p] - done[p], Room)
  <2>1. PICK s \in [1..k -> Byte] :
          /\ data' = [i \in DOMAIN data |->
                        LET j == ((i + PIPE_BUF_SIZE - write_pos) % PIPE_BUF_SIZE) + 1
                        IN  IF j <= k THEN s[j] ELSE data[i]]
          /\ write_pos' = (write_pos + k) % PIPE_BUF_SIZE
          /\ count' = count + k
    BY <1>5, Zenon DEF WriteScan
  <2>2. /\ UNCHANGED <<read_pos, got, eof, writers>> /\ pc[p] = "scan"
    BY <1>5, Zenon DEF WriteScan, ends, seen
  <2>3. want[p] \in Nat /\ done[p] \in Nat /\ done[p] < want[p]
    BY <2>2, PipeAssumption DEF IInv, PipeTypes, CountsInv
  <2>4. k \in 0..(PIPE_BUF_SIZE - count)
    BY <1>1, <2>3, PipeAssumption DEF Least, Room
  <2> HIDE DEF k
  <2>5. RingInv' /\ Oldest(count)' = Oldest(count) \o s
    BY <1>1, <2>1, <2>2, <2>4, PutNewest, Zenon
  <2>6. UNCHANGED <<got, writers > 0, eof>>
    BY <2>2
  <2>7. CASE k = 0
    <3>1. s \in Seq(Byte) /\ Len(s) = 0
      BY <2>7, FunctionIsSeq
    <3>2. Oldest(count) \o s = Oldest(count)
      BY <1>2, <3>1
    <3> QED
      BY <2>5, <2>6, <3>2, Zenon
  <2>8. CASE k # 0
    <3>1. k \in 1..(PIPE_BUF_SIZE - Len(Oldest(count)))
      BY <1>1, <1>2, <2>4, <2>8, PipeAssumption
    <3>2. writers > 0
      <4>1. p \in Procs /\ pc[p] \notin Closed
        BY <2>2, PipeAssumption DEF Closed
      <4>2. writers # 0
        BY <4>1 DEF IInv, EndsInv
      <4> QED
        BY <1>1, <4>2
    <3> QED
      BY <2>5, <2>6, <3>1, <3>2, Zenon DEF Queue!Put
  <2> QED
    BY <2>5, <2>7, <2>8, Zenon
<1>6. ASSUME NEW p \in Procs, CloseEnd(p)
      PROVE  RingInv' /\ (Queue!Hangup \/ UNCHANGED <<Oldest(count), got, writers > 0, eof>>)
  <2>1. /\ UNCHANGED <<data, read_pos, write_pos, count, got, eof>>
        /\ writers' = IF p \in Writers THEN writers - 1 ELSE writers
    BY <1>6, Zenon DEF CloseEnd, ring, seen
  <2>2. Oldest(count)' = Oldest(count) /\ RingInv'
    BY <2>1 DEF Oldest, RingInv
  <2>3. (writers > 0)' = (writers > 0) \/ (writers > 0 /\ (writers > 0)' = FALSE)
    BY <1>1, <2>1
  <2> QED
    BY <2>1, <2>2, <2>3, Zenon DEF Queue!Hangup
<1>7. CASE UNCHANGED <<ring, seen, writers>>
  <2>1. UNCHANGED <<data, read_pos, write_pos, count, got, eof, writers>>
    BY <1>7, Zenon DEF ring, seen
  <2>2. Oldest(count)' = Oldest(count) /\ RingInv' /\ UNCHANGED <<got, writers > 0, eof>>
    BY <2>1 DEF Oldest, RingInv
  <2> QED
    BY <2>2, Zenon
<1> QED
  BY <1>3, <1>4, <1>5, <1>6, <1>7, QueueSteps, Zenon DEF Queue!Next

(* A pipe implements the abstract queue, for any number of readers and     *)
(* writers, any ring and any counts: readers get exactly the bytes that    *)
(* were written, each once and in order, and end of file only when every   *)
(* writer is gone and the last byte was read.                              *)
THEOREM ImplementsByteQueue == Spec => QueueSpec
<1>1. Init => RingInv /\ Queue!Init
  <2> SUFFICES ASSUME Init PROVE RingInv /\ Queue!Init
    OBVIOUS
  <2>1. data \in [0..(PIPE_BUF_SIZE - 1) -> Byte]
    BY PipeAssumption, Zenon DEF Init
  <2>2. read_pos = 0 /\ write_pos = 0 /\ count = 0 /\ got = << >> /\ eof = FALSE /\ writers = 1
    BY DEF Init
  <2>3. (0 + 0) % PIPE_BUF_SIZE = 0
    BY PipeAssumption
  <2>4. RingInv
    BY <2>1, <2>2, <2>3, PipeAssumption DEF RingInv
  <2>5. Oldest(count) = << >>
    BY <2>2 DEF Oldest
  <2>6. (writers > 0) = TRUE
    BY <2>2
  <2> QED
    BY <2>2, <2>4, <2>5, <2>6 DEF Queue!Init
<1>2. IInv /\ RingInv /\ [Next]_vars =>
        RingInv' /\ [Queue!Next]_<<Oldest(count), got, writers > 0, eof>>
  BY RingNext
<1> QED
  BY <1>1, <1>2, IInvInductive, PTL DEF Spec, QueueSpec, Queue!Spec

-----------------------------------------------------------------------------
(* Opening a named FIFO, for any number of processes that open it for      *)
(* reading, for writing or for both.                                       *)

CONSTANTS Reading, Writing, MaxOpens

VARIABLES reader_epoch, writer_epoch, counterpart_epoch, opens, met

Fifo == INSTANCE FifoOpen

(* Where an opener of a FIFO is, and where the counts include it. *)
FifoPcs == {"out", "gen", "announce", "connected", "notify", "wait", "asleep",
            "regen", "recheck", "withdraw", "leave", "open"}
Present == {"connected", "open", "notify", "wait", "asleep", "regen", "recheck", "withdraw"}

(* What the argument needs of the types; and an opener somebody met is     *)
(* one that waits.                                                         *)
FifoPlaces ==
  /\ fresh \in [Procs -> BOOLEAN]
  /\ sleeping \subseteq Procs
  /\ keys \in [Procs -> SUBSET Keys]
  /\ readers \in Nat /\ writers \in Nat
  /\ reader_epoch \in Nat /\ writer_epoch \in Nat
  /\ pc \in [Procs -> FifoPcs]
  /\ counterpart_epoch \in [Procs -> Nat]
  /\ met \subseteq Fifo!Waiting

(* A counterpart that came during an open has moved the epoch the opener   *)
(* compares, for good: the epochs only go up.                              *)
EpochMoved(p) ==
  IF p \in Reading THEN counterpart_epoch[p] < writer_epoch ELSE counterpart_epoch[p] < reader_epoch

(* An opener for both ends never waits.  Nobody has seen an epoch that is  *)
(* yet to come.                                                            *)
EpochsInv ==
  \A p \in Fifo!Waiting :
    /\ p \notin Reading \cap Writing
    /\ p \in Reading => counterpart_epoch[p] <= writer_epoch
    /\ p \notin Reading => counterpart_epoch[p] <= reader_epoch
    /\ p \in met => EpochMoved(p)

(* Whoever sleeps is registered on the buffer.  An opener somebody met     *)
(* that sleeps, or is about to with a fresh generation, is going to be     *)
(* notified.                                                               *)
OpenersWoken ==
  /\ \A p \in sleeping : pc[p] = "asleep" /\ keys[p] = {buffer}
  /\ \A p \in met : pc[p] = "wait" /\ fresh[p] => Fifo!Notifying
  /\ \A p \in met : p \in sleeping => Fifo!Notifying

(* The counts are exact. *)
There == {p \in Procs : pc[p] \in Present}
OpenCounts ==
  /\ readers = Cardinality(There \cap Reading)
  /\ writers = Cardinality(There \cap Writing)

FifoInv == FifoPlaces /\ EpochsInv /\ OpenersWoken /\ Fifo!SignalNotLost /\ OpenCounts

(* The two copies of IsFiniteSet are one. *)
LEMMA FifoFinite == Fifo!FifoAssumption => IsFiniteSet(Procs)
BY Zenon DEF Fifo!FifoAssumption, Fifo!IsFiniteSet, IsFiniteSet

(* A FIFO nobody has opened satisfies the invariant. *)
LEMMA FifoInit == Fifo!FifoAssumption /\ Fifo!Init => FifoInv
<1> SUFFICES ASSUME Fifo!FifoAssumption, Fifo!Init PROVE FifoInv
  OBVIOUS
<1> USE DEF Fifo!Init, Fifo!PollInit
<1>1. Fifo!Waiting = {} /\ There = {}
  BY DEF Fifo!Waiting, There, Present
<1>2. FifoPlaces
  BY <1>1 DEF FifoPlaces, FifoPcs
<1>3. EpochsInv
  BY <1>1 DEF EpochsInv
<1>4. OpenersWoken
  BY DEF OpenersWoken
<1>5. Fifo!SignalNotLost
  BY DEF Fifo!SignalNotLost
<1>6. OpenCounts
  <2>1. There \cap Reading = {} /\ There \cap Writing = {}
    BY <1>1
  <2> QED
    BY <2>1, FS_EmptySet DEF OpenCounts
<1> QED
  BY <1>2, <1>3, <1>4, <1>5, <1>6 DEF FifoInv

(* pipe_wait_interruptible() tests for a signal and sleeps in one          *)
(* critical section, and send_signal() posts before it wakes.              *)
LEMMA FifoSignalNext == Fifo!SignalNotLost /\ [Fifo!Next]_Fifo!vars => Fifo!SignalNotLost'
<1> SUFFICES ASSUME Fifo!SignalNotLost, [Fifo!Next]_Fifo!vars PROVE Fifo!SignalNotLost'
  OBVIOUS
<1> USE DEF Fifo!SignalNotLost
<1>1. ASSUME NEW p, \/ Fifo!send_signal(p) \/ Fifo!wake_up_process_for_signal(p)
                   \/ Fifo!check_pending_signals(p) \/ Fifo!PollSleep(p, {buffer}, FALSE)
                   \/ Fifo!PollResume(p) \/ Fifo!task_poll_generation(p)
                   \/ Fifo!task_poll_notify_key(buffer) \/ UNCHANGED Fifo!pollvars
      PROVE Fifo!SignalNotLost'
  BY ZenonT(40), <1>1 DEF Fifo!send_signal, Fifo!wake_up_process_for_signal, Fifo!check_pending_signals,
     Fifo!PollSleep, Fifo!PollResume, Fifo!task_poll_generation, Fifo!task_poll_notify_key, Fifo!pollvars
<1>2. CASE Fifo!Next
  <2>1. PICK p \in Procs : \/ Fifo!KernelStep(p) \/ Fifo!Start(p) \/ Fifo!Close(p) \/ Fifo!Signal(p)
                           \/ Fifo!SignalWake(p) \/ Fifo!Deliver(p)
    BY <1>2, Zenon DEF Fifo!Next
  <2>2. CASE Fifo!KernelStep(p)
    BY <1>1, <2>2, Zenon DEF Fifo!KernelStep, Fifo!Generation, Fifo!OpenFails, Fifo!Announce, Fifo!AnnounceNotify,
       Fifo!Wait, Fifo!Resume, Fifo!Regenerate, Fifo!Recheck, Fifo!Withdraw, Fifo!LeaveNotify
  <2>3. CASE Fifo!Start(p) \/ Fifo!Close(p) \/ Fifo!Signal(p) \/ Fifo!SignalWake(p) \/ Fifo!Deliver(p)
    BY <1>1, <2>3, Zenon DEF Fifo!Start, Fifo!Close, Fifo!Signal, Fifo!SignalWake, Fifo!Deliver
  <2> QED
    BY <2>1, <2>2, <2>3
<1>3. CASE UNCHANGED Fifo!vars
  BY <1>1, <1>3, Zenon DEF Fifo!vars
<1> QED
  BY <1>2, <1>3

(* One more process counts as one where it belongs. *)
LEMMA FifoCountUp ==
  ASSUME NEW S, NEW R, NEW p, IsFiniteSet(S), p \notin S
  PROVE  Cardinality((S \cup {p}) \cap R) = Cardinality(S \cap R) + Fifo!One(p, R)
<1>1. IsFiniteSet(S \cap R) /\ p \notin S \cap R
  BY FS_Subset
<1>2. Cardinality(S \cap R) \in Nat
  BY <1>1, FS_CardinalityType
<1>3. CASE p \in R
  <2>1. (S \cup {p}) \cap R = (S \cap R) \cup {p}
    BY <1>3
  <2> QED
    BY <1>1, <1>3, <2>1, FS_AddElement DEF Fifo!One
<1>4. CASE p \notin R
  <2>1. (S \cup {p}) \cap R = S \cap R
    BY <1>4
  <2>2. \A n \in Nat : n + 0 = n
    OBVIOUS
  <2>3. Fifo!One(p, R) = 0
    BY <1>4 DEF Fifo!One
  <2> QED
    BY <1>2, <2>1, <2>2, <2>3, ZenonT(40)
<1> QED
  BY <1>3, <1>4

(* A step of a process that stays announced, or stays out, keeps the       *)
(* counts exact.                                                           *)
LEMMA FifoCountsKept ==
  ASSUME OpenCounts, pc \in [Procs -> FifoPcs], NEW p \in Procs, NEW l, Fifo!Goto(p, l),
         pc[p] \in Present <=> l \in Present, UNCHANGED <<readers, writers>>
  PROVE  OpenCounts'
<1>1. There' = There
  BY DEF There, Fifo!Goto
<1> QED
  BY <1>1 DEF OpenCounts

(* So does an announcement of pipe_open_named(), which adds one ... *)
LEMMA FifoCountsUp ==
  ASSUME Fifo!FifoAssumption, OpenCounts, pc \in [Procs -> FifoPcs], NEW p \in Procs, NEW l \in Present,
         Fifo!Goto(p, l), pc[p] \notin Present,
         readers' = readers + Fifo!One(p, Reading), writers' = writers + Fifo!One(p, Writing)
  PROVE  OpenCounts'
<1>1. There' = There \cup {p} /\ p \notin There
  BY DEF There, Fifo!Goto
<1>2. IsFiniteSet(There)
  BY FifoFinite, FS_Subset DEF There
<1> QED
  BY <1>1, <1>2, FifoCountUp DEF OpenCounts

(* ... and pipe_close() or a withdrawal, which takes it back. *)
LEMMA FifoCountsDown ==
  ASSUME Fifo!FifoAssumption, OpenCounts, pc \in [Procs -> FifoPcs], NEW p \in Procs, NEW l,
         l \notin Present, Fifo!Goto(p, l), pc[p] \in Present, Fifo!Uncount(p)
  PROVE  OpenCounts'
<1>1. There = There' \cup {p} /\ p \notin There'
  BY DEF There, Fifo!Goto
<1>2. IsFiniteSet(There')
  BY FifoFinite, FS_Subset DEF There
<1>3. Cardinality(There' \cap Reading) \in Nat /\ Cardinality(There' \cap Writing) \in Nat
  BY SMTT(30), <1>2, FS_Subset, FS_CardinalityType
<1>4. /\ readers = Cardinality(There' \cap Reading) + Fifo!One(p, Reading)
      /\ writers = Cardinality(There' \cap Writing) + Fifo!One(p, Writing)
  BY <1>1, <1>2, FifoCountUp DEF OpenCounts
<1> QED
  BY <1>3, <1>4 DEF OpenCounts, Fifo!Uncount, Fifo!One

(* No step makes the counts of the buffer differ from its openers. *)
LEMMA FifoCountsNext ==
  ASSUME Fifo!FifoAssumption, FifoInv, [Fifo!Next]_Fifo!vars PROVE OpenCounts'
<1> USE DEF FifoInv, FifoPlaces, Fifo!Return, Present, Fifo!counts
<1>1. ASSUME NEW p \in Procs, Fifo!Announce(p) PROVE OpenCounts'
  <2>1. PICK l \in {"connected", "notify"} : Fifo!Goto(p, l)
    BY <1>1, Zenon DEF Fifo!Announce
  <2> QED
    BY <1>1, <2>1, FifoCountsUp DEF Fifo!Announce
<1>2. ASSUME NEW p \in Procs, Fifo!Close(p) PROVE OpenCounts'
  BY <1>2, FifoCountsDown DEF Fifo!Close
<1>3. ASSUME NEW p \in Procs, Fifo!Withdraw(p) PROVE OpenCounts'
  <2>1. CASE Fifo!Uncount(p) /\ Fifo!Goto(p, "leave")
    BY Zenon, <1>3, <2>1, FifoCountsDown DEF Fifo!Withdraw
  <2>2. CASE Fifo!Return(p, "open") /\ UNCHANGED Fifo!counts
    BY SMTT(30), <1>3, <2>2, FifoCountsKept DEF Fifo!Withdraw
  <2> QED
    BY <1>3, <2>1, <2>2, ZenonT(40) DEF Fifo!Withdraw
<1>4. ASSUME NEW p \in Procs, Fifo!Start(p) \/ Fifo!Generation(p) \/ Fifo!OpenFails(p) \/ Fifo!LeaveNotify(p)
      PROVE OpenCounts'
  <2>1. PICK l \in {"gen", "announce", "out"} : Fifo!Goto(p, l)
    BY <1>4, Zenon DEF Fifo!Start, Fifo!Generation, Fifo!OpenFails, Fifo!LeaveNotify
  <2>2. pc[p] \notin Present /\ UNCHANGED <<readers, writers>>
    BY <1>4, Zenon DEF Fifo!Start, Fifo!Generation, Fifo!OpenFails, Fifo!LeaveNotify
  <2> QED
    BY <2>1, <2>2, FifoCountsKept
<1>5. ASSUME NEW p \in Procs,
             Fifo!AnnounceNotify(p) \/ Fifo!Wait(p) \/ Fifo!Resume(p) \/ Fifo!Regenerate(p) \/ Fifo!Recheck(p)
      PROVE OpenCounts'
  <2>1. PICK l \in Present : Fifo!Goto(p, l)
    BY <1>5, Zenon DEF Fifo!AnnounceNotify, Fifo!Wait, Fifo!Resume, Fifo!Regenerate, Fifo!Recheck
  <2>2. pc[p] \in Present /\ UNCHANGED <<readers, writers>>
    BY <1>5, ZenonT(40) DEF Fifo!AnnounceNotify, Fifo!Wait, Fifo!Resume, Fifo!Regenerate, Fifo!Recheck
  <2> QED
    BY <2>1, <2>2, FifoCountsKept
<1>6. ASSUME UNCHANGED <<readers, writers, pc>> PROVE OpenCounts'
  BY <1>6 DEF OpenCounts, There
<1>7. ASSUME NEW p \in Procs, Fifo!Signal(p) \/ Fifo!SignalWake(p) \/ Fifo!Deliver(p) PROVE OpenCounts'
  BY <1>6, <1>7, Zenon DEF Fifo!Signal, Fifo!SignalWake, Fifo!Deliver
<1>8. CASE UNCHANGED Fifo!vars
  BY <1>6, <1>8, Zenon DEF Fifo!vars
<1> QED
  BY <1>1, <1>2, <1>3, <1>4, <1>5, <1>7, <1>8, ZenonT(40) DEF Fifo!Next, Fifo!KernelStep

-----------------------------------------------------------------------------
(* No step leaves the types, and no opener that somebody met withdraws. *)
LEMMA FifoPlacesNext ==
  ASSUME Fifo!FifoAssumption, FifoInv, OpenCounts', [Fifo!Next]_Fifo!vars PROVE FifoPlaces'
<1> USE DEF FifoInv, FifoPlaces, Fifo!FifoAssumption
<1>0. readers' \in Nat /\ writers' \in Nat
  <2>1. IsFiniteSet(There')
    BY SMTT(30), FifoFinite, FS_Subset DEF There
  <2> QED
    BY <2>1, FS_Subset, FS_CardinalityType DEF OpenCounts
<1>1. ASSUME NEW p \in Procs,
             \/ Fifo!send_signal(p) \/ Fifo!wake_up_process_for_signal(p)
             \/ Fifo!check_pending_signals(p) \/ Fifo!PollSleep(p, {buffer}, FALSE)
             \/ Fifo!PollResume(p) \/ Fifo!task_poll_generation(p)
             \/ Fifo!task_poll_notify_key(buffer) \/ UNCHANGED Fifo!pollvars
      PROVE /\ fresh' \in [Procs -> BOOLEAN]
            /\ sleeping' \subseteq Procs
            /\ keys' \in [Procs -> SUBSET Keys]
  <2>1. CASE Fifo!task_poll_notify_key(buffer)
    BY <2>1 DEF Fifo!task_poll_notify_key
  <2>2. CASE Fifo!PollSleep(p, {buffer}, FALSE)
    BY <2>2 DEF Fifo!PollSleep
  <2>3. CASE Fifo!PollResume(p) \/ Fifo!task_poll_generation(p)
    BY ZenonT(40), <2>3 DEF Fifo!PollResume, Fifo!task_poll_generation
  <2>4. CASE Fifo!send_signal(p) \/ Fifo!wake_up_process_for_signal(p) \/ Fifo!check_pending_signals(p)
    BY <2>4 DEF Fifo!send_signal, Fifo!wake_up_process_for_signal, Fifo!check_pending_signals
  <2>5. CASE UNCHANGED Fifo!pollvars
    BY <2>5 DEF Fifo!pollvars
  <2> QED
    BY ZenonT(40), <1>1, <2>1, <2>2, <2>3, <2>4, <2>5
<1>2. ASSUME NEW p \in Procs, NEW l \in FifoPcs, Fifo!Goto(p, l) PROVE pc' \in [Procs -> FifoPcs]
  BY <1>2 DEF Fifo!Goto
<1>3. ASSUME NEW p \in Procs, NEW l, Fifo!Return(p, l)
      PROVE /\ counterpart_epoch' \in [Procs -> Nat]
            /\ met' \subseteq Fifo!Waiting'
  BY <1>3 DEF Fifo!Return, Fifo!Goto, Fifo!Waiting
<1>4. ASSUME NEW p \in Procs, NEW l, Fifo!Goto(p, l), met' = met,
             l \in {"notify", "wait", "asleep", "regen", "recheck", "withdraw"} \/ p \notin met
      PROVE  met' \subseteq Fifo!Waiting'
  BY Zenon, <1>4 DEF Fifo!Goto, Fifo!Waiting
<1> HIDE DEF FifoPlaces
<1>5. ASSUME NEW p \in Procs, Fifo!Announce(p) PROVE FifoPlaces'
  <2>1. PICK l \in {"connected", "notify"} : Fifo!Goto(p, l)
    BY <1>5, ZenonT(40) DEF Fifo!Announce
  <2>2. pc[p] = "announce" /\ met' = met \cup (Fifo!Waiting \cap Fifo!Counterparts(p))
    BY ZenonT(40), <1>5 DEF Fifo!Announce
  <2>3. met' \subseteq Fifo!Waiting'
    BY <2>1, <2>2 DEF Fifo!Waiting, Fifo!Goto, FifoPlaces
  <2>4. /\ counterpart_epoch' \in [Procs -> Nat]
        /\ reader_epoch' \in Nat /\ writer_epoch' \in Nat
    BY SMTT(30), <1>5 DEF Fifo!Announce, FifoPlaces, Fifo!One
  <2>5. UNCHANGED Fifo!pollvars
    BY SMTT(30), <1>5 DEF Fifo!Announce
  <2> QED
    BY Zenon, <1>0, <1>1, <1>2, <2>1, <2>3, <2>4, <2>5 DEF FifoPlaces, FifoPcs
<1>6. ASSUME NEW p \in Procs,
             Fifo!OpenFails(p) \/ Fifo!LeaveNotify(p)
      PROVE  FifoPlaces'
  <2>1. Fifo!Return(p, "out") /\ UNCHANGED Fifo!counts
    BY <1>6, Zenon DEF Fifo!OpenFails, Fifo!LeaveNotify
  <2>2. Fifo!task_poll_notify_key(buffer) \/ UNCHANGED Fifo!pollvars
    BY <1>6, Zenon DEF Fifo!OpenFails, Fifo!LeaveNotify
  <2> QED
    BY ZenonT(40), <1>0, <1>1, <1>2, <1>3, <2>1, <2>2 DEF FifoPlaces, FifoPcs, Fifo!Return, Fifo!counts
<1>7. ASSUME NEW p \in Procs, Fifo!AnnounceNotify(p) \/ Fifo!Recheck(p) \/ Fifo!Withdraw(p)
      PROVE  FifoPlaces'
  <2>1. /\ UNCHANGED <<reader_epoch, writer_epoch>>
        /\ Fifo!task_poll_notify_key(buffer) \/ UNCHANGED Fifo!pollvars
    BY <1>7, Zenon DEF Fifo!AnnounceNotify, Fifo!Recheck, Fifo!Withdraw, Fifo!counts, Fifo!Uncount
  <2>2. \/ Fifo!Return(p, "open")
        \/ Fifo!Goto(p, "wait") /\ UNCHANGED <<counterpart_epoch, met>>
        \/ Fifo!Goto(p, "leave") /\ UNCHANGED <<counterpart_epoch, met>> /\ pc[p] = "withdraw" /\ ~Fifo!Connected(p)
    BY <1>7, Zenon DEF Fifo!AnnounceNotify, Fifo!Recheck, Fifo!Withdraw
  <2>3. CASE Fifo!Return(p, "open")
    BY ZenonT(40), <1>0, <1>1, <1>2, <1>3, <2>1, <2>3 DEF FifoPlaces, FifoPcs, Fifo!Return
  <2>4. CASE Fifo!Goto(p, "wait") /\ UNCHANGED <<counterpart_epoch, met>>
    BY ZenonT(40), <1>0, <1>1, <1>2, <1>4, <2>1, <2>4 DEF FifoPlaces, FifoPcs
  <2>5. CASE Fifo!Goto(p, "leave") /\ UNCHANGED <<counterpart_epoch, met>> /\ pc[p] = "withdraw" /\ ~Fifo!Connected(p)
    <3>1. p \notin met
      BY <2>5 DEF EpochsInv, EpochMoved, Fifo!Waiting, Fifo!Connected, FifoPlaces
    <3> QED
      BY ZenonT(40), <1>0, <1>1, <1>2, <1>4, <2>1, <2>5, <3>1 DEF FifoPlaces, FifoPcs
  <2> QED
    BY <2>2, <2>3, <2>4, <2>5
<1>8. ASSUME NEW p \in Procs,
             \/ Fifo!Start(p) \/ Fifo!Generation(p) \/ Fifo!Wait(p) \/ Fifo!Resume(p)
             \/ Fifo!Regenerate(p) \/ Fifo!Close(p)
      PROVE  FifoPlaces'
  <2>1. /\ UNCHANGED <<reader_epoch, writer_epoch, counterpart_epoch, met>>
        /\ \/ Fifo!PollSleep(p, {buffer}, FALSE) \/ Fifo!PollResume(p)
           \/ Fifo!task_poll_generation(p) \/ UNCHANGED Fifo!pollvars
    BY <1>8, Zenon DEF Fifo!Start, Fifo!Generation, Fifo!Wait, Fifo!Resume, Fifo!Regenerate, Fifo!Close,
       Fifo!counts, Fifo!Uncount
  <2>2. PICK l \in FifoPcs : /\ Fifo!Goto(p, l)
                             /\ \/ l \in {"asleep", "regen", "recheck", "withdraw"}
                                \/ pc[p] \in {"out", "gen", "open"}
    BY <1>8, Zenon DEF Fifo!Start, Fifo!Generation, Fifo!Wait, Fifo!Resume, Fifo!Regenerate, Fifo!Close, FifoPcs
  <2>3. met' \subseteq Fifo!Waiting'
    <3>1. CASE pc[p] \in {"out", "gen", "open"}
      <4>1. p \notin met
        BY <3>1 DEF FifoPlaces, Fifo!Waiting
      <4> QED
        BY <1>4, <2>1, <2>2, <4>1
    <3>2. CASE l \in {"asleep", "regen", "recheck", "withdraw"}
      BY SMTT(30), <1>4, <2>1, <2>2, <3>2
    <3> QED
      BY <2>2, <3>1, <3>2
  <2> QED
    BY ZenonT(40), <1>0, <1>1, <1>2, <2>1, <2>2, <2>3 DEF FifoPlaces
<1>9. ASSUME NEW p \in Procs, Fifo!Signal(p) \/ Fifo!SignalWake(p) \/ Fifo!Deliver(p)
      PROVE  FifoPlaces'
  <2>1. /\ UNCHANGED <<reader_epoch, writer_epoch, counterpart_epoch, met, pc>>
        /\ Fifo!send_signal(p) \/ Fifo!wake_up_process_for_signal(p) \/ Fifo!check_pending_signals(p)
    BY <1>9, ZenonT(40) DEF Fifo!Signal, Fifo!SignalWake, Fifo!Deliver, Fifo!counts
  <2> QED
    BY ZenonT(40), <1>0, <1>1, <2>1 DEF FifoPlaces, Fifo!Waiting
<1>10. CASE UNCHANGED Fifo!vars
  BY <1>10 DEF Fifo!vars, Fifo!pollvars, Fifo!counts, FifoPlaces, Fifo!Waiting
<1> QED
  BY <1>5, <1>6, <1>7, <1>8, <1>9, <1>10, ZenonT(40) DEF Fifo!Next, Fifo!KernelStep

(* An announcement moves the epoch that every waiting counterpart          *)
(* compares.                                                               *)
LEMMA FifoEpochsNext ==
  ASSUME Fifo!FifoAssumption, FifoInv, FifoPlaces', [Fifo!Next]_Fifo!vars PROVE EpochsInv'
<1> USE DEF FifoInv
<1>1. ASSUME Fifo!Waiting' \subseteq Fifo!Waiting,
             UNCHANGED <<reader_epoch, writer_epoch, counterpart_epoch, met>>
      PROVE  EpochsInv'
  BY Zenon, <1>1 DEF EpochsInv, EpochMoved
<1>2. ASSUME NEW p \in Procs, NEW l \in {"out", "open"}, Fifo!Return(p, l),
             UNCHANGED <<reader_epoch, writer_epoch>>
      PROVE  EpochsInv'
  <2>1. \A q \in Fifo!Waiting' : q # p /\ q \in Fifo!Waiting /\ counterpart_epoch'[q] = counterpart_epoch[q]
    BY <1>2 DEF FifoPlaces, Fifo!Waiting, Fifo!Return, Fifo!Goto
  <2>2. met' \subseteq met
    BY Zenon, <1>2 DEF Fifo!Return
  <2> QED
    BY Zenon, <1>2, <2>1, <2>2 DEF EpochsInv, EpochMoved
<1>3. ASSUME NEW p \in Procs, Fifo!Announce(p) PROVE EpochsInv'
  <2>1. PICK l \in {"connected", "notify"} :
          /\ Fifo!Goto(p, l)
          /\ l = "notify" => p \notin NonBlocking /\ IF p \in Reading THEN ~(writers' > 0) ELSE ~(readers' > 0)
    BY <1>3, ZenonT(40) DEF Fifo!Announce
  <2>2. /\ pc[p] = "announce"
        /\ met' = met \cup (Fifo!Waiting \cap Fifo!Counterparts(p))
        /\ counterpart_epoch' =
             [counterpart_epoch EXCEPT ![p] = IF p \in Reading THEN writer_epoch ELSE reader_epoch]
        /\ reader_epoch' = reader_epoch + Fifo!One(p, Reading)
        /\ writer_epoch' = writer_epoch + Fifo!One(p, Writing)
        /\ writers' = writers + Fifo!One(p, Writing)
    BY Zenon, <1>3 DEF Fifo!Announce
  <2>3. p \notin met' /\ p \notin Fifo!Waiting
    BY Zenon, <2>2 DEF FifoPlaces, Fifo!Waiting
  <2>4. ASSUME NEW q \in Fifo!Waiting', q # p
        PROVE  /\ q \in Fifo!Waiting
               /\ counterpart_epoch'[q] = counterpart_epoch[q]
    BY Zenon, <2>1, <2>2, <2>4 DEF FifoPlaces, Fifo!Waiting, Fifo!Goto
  <2>5. ASSUME NEW q \in Fifo!Waiting', q # p
        PROVE  /\ q \notin Reading \cap Writing
               /\ q \in Reading => counterpart_epoch'[q] <= writer_epoch'
               /\ q \notin Reading => counterpart_epoch'[q] <= reader_epoch'
    <3> q \in Procs
      BY DEF Fifo!Waiting
    <3> QED
      BY SMTT(30), <2>2, <2>4, <2>5 DEF EpochsInv, FifoPlaces, Fifo!One
  <2>6. ASSUME NEW q \in Fifo!Waiting', q # p, q \in met' PROVE EpochMoved(q)'
    <3> q \in Procs
      BY DEF Fifo!Waiting
    <3>1. CASE q \in met
      BY SMTT(30), <2>2, <2>4, <2>6, <3>1 DEF EpochsInv, EpochMoved, FifoPlaces, Fifo!One
    <3>2. CASE q \in Fifo!Counterparts(p)
      <4>1. /\ q \notin Reading \cap Writing
            /\ q \in Reading => counterpart_epoch[q] <= writer_epoch
            /\ q \notin Reading => counterpart_epoch[q] <= reader_epoch
        BY Zenon, <2>4, <2>6 DEF EpochsInv
      <4>2. CASE q \in Reading
        <5>1. p \in Writing
          BY Zenon, <3>2, <4>1, <4>2 DEF Fifo!Counterparts
        <5> QED
          BY SMTT(30), <2>2, <2>4, <2>6, <4>1, <4>2, <5>1 DEF EpochMoved, FifoPlaces, Fifo!One
      <4>3. CASE q \notin Reading
        <5>1. p \in Reading
          BY Zenon, <3>2, <4>1, <4>3 DEF Fifo!Counterparts
        <5> QED
          BY SMTT(30), <2>2, <2>4, <2>6, <4>1, <4>3, <5>1 DEF EpochMoved, FifoPlaces, Fifo!One
      <4> QED
        BY Zenon, <4>2, <4>3
    <3> QED
      BY Zenon, <2>2, <2>6, <3>1, <3>2
  <2>7. ASSUME p \in Fifo!Waiting'
        PROVE  /\ p \notin Reading \cap Writing
               /\ p \in Reading => counterpart_epoch'[p] <= writer_epoch'
               /\ p \notin Reading => counterpart_epoch'[p] <= reader_epoch'
    <3>1. l = "notify"
      BY Zenon, <2>1, <2>7 DEF Fifo!Waiting, Fifo!Goto, FifoPlaces
    <3>2. p \notin Reading \cap Writing
      BY SMTT(30), <2>1, <2>2, <3>1 DEF FifoPlaces, Fifo!One
    <3> QED
      BY SMTT(30), <2>2, <3>2 DEF FifoPlaces, Fifo!One
  <2> QED
    BY Zenon, <2>3, <2>5, <2>6, <2>7 DEF EpochsInv
<1>4. ASSUME NEW p \in Procs, Fifo!OpenFails(p) \/ Fifo!LeaveNotify(p) PROVE EpochsInv'
  <2>1. Fifo!Return(p, "out") /\ UNCHANGED <<reader_epoch, writer_epoch>>
    BY <1>4, ZenonT(40) DEF Fifo!OpenFails, Fifo!LeaveNotify, Fifo!counts
  <2> QED
    BY <1>2, <2>1
<1>5. ASSUME NEW p \in Procs, Fifo!AnnounceNotify(p) \/ Fifo!Recheck(p) \/ Fifo!Withdraw(p)
      PROVE  EpochsInv'
  <2>1. UNCHANGED <<reader_epoch, writer_epoch>>
    BY <1>5, Zenon DEF Fifo!AnnounceNotify, Fifo!Recheck, Fifo!Withdraw, Fifo!counts, Fifo!Uncount
  <2>2. \/ Fifo!Return(p, "open")
        \/ /\ UNCHANGED <<counterpart_epoch, met>>
           /\ Fifo!Goto(p, "leave") \/ Fifo!Goto(p, "wait")
           /\ pc[p] \in {"notify", "recheck", "withdraw"}
    BY <1>5, Zenon DEF Fifo!AnnounceNotify, Fifo!Recheck, Fifo!Withdraw
  <2>3. CASE /\ UNCHANGED <<counterpart_epoch, met>>
             /\ Fifo!Goto(p, "leave") \/ Fifo!Goto(p, "wait")
             /\ pc[p] \in {"notify", "recheck", "withdraw"}
    <3>1. Fifo!Waiting' \subseteq Fifo!Waiting
      BY <2>3 DEF Fifo!Waiting, Fifo!Goto, FifoPlaces
    <3> QED
      BY Zenon, <1>1, <2>1, <2>3, <3>1
  <2> QED
    BY SMTT(30), <1>2, <2>1, <2>2, <2>3
<1>6. ASSUME NEW p \in Procs,
             \/ Fifo!Start(p) \/ Fifo!Generation(p) \/ Fifo!Wait(p) \/ Fifo!Resume(p)
             \/ Fifo!Regenerate(p) \/ Fifo!Close(p)
      PROVE  EpochsInv'
  <2>1. UNCHANGED <<reader_epoch, writer_epoch, counterpart_epoch, met>>
    BY <1>6, Zenon DEF Fifo!Start, Fifo!Generation, Fifo!Wait, Fifo!Resume, Fifo!Regenerate, Fifo!Close,
       Fifo!counts, Fifo!Uncount
  <2>2. PICK l : /\ Fifo!Goto(p, l)
                 /\ \/ l \in {"gen", "announce", "leave"}
                    \/ pc[p] \in {"wait", "asleep", "regen"}
    BY <1>6, ZenonT(40) DEF Fifo!Start, Fifo!Generation, Fifo!Wait, Fifo!Resume, Fifo!Regenerate, Fifo!Close
  <2>3. Fifo!Waiting' \subseteq Fifo!Waiting
    BY <2>2 DEF Fifo!Waiting, Fifo!Goto, FifoPlaces
  <2> QED
    BY <1>1, <2>1, <2>3
<1>7. ASSUME NEW p \in Procs, Fifo!Signal(p) \/ Fifo!SignalWake(p) \/ Fifo!Deliver(p)
      PROVE  EpochsInv'
  <2>1. UNCHANGED <<reader_epoch, writer_epoch, counterpart_epoch, met, pc>>
    BY <1>7, Zenon DEF Fifo!Signal, Fifo!SignalWake, Fifo!Deliver, Fifo!counts
  <2> QED
    BY <1>1, <2>1 DEF Fifo!Waiting
<1>8. CASE UNCHANGED Fifo!vars
  BY <1>1, <1>8 DEF Fifo!vars, Fifo!counts, Fifo!Waiting
<1> QED
  BY <1>3, <1>4, <1>5, <1>6, <1>7, <1>8, ZenonT(40) DEF Fifo!Next, Fifo!KernelStep

(* Every announcement is followed by a notification, which wakes whoever   *)
(* sleeps and makes the generation of the others stale.                    *)
LEMMA FifoWokenNext ==
  ASSUME Fifo!FifoAssumption, FifoInv, FifoPlaces', [Fifo!Next]_Fifo!vars PROVE OpenersWoken'
<1> USE DEF FifoInv, FifoPlaces
<1>1. ASSUME NEW p \in Procs, NEW l, Fifo!Goto(p, l), pc[p] \notin {"connected", "notify", "leave"}
      PROVE  Fifo!Notifying => Fifo!Notifying'
  BY Zenon, <1>1 DEF Fifo!Notifying, Fifo!Goto
<1>2. ASSUME NEW p \in Procs, NEW l, Fifo!Goto(p, l), p \notin sleeping,
             UNCHANGED <<sleeping, keys>>
      PROVE  \A q \in sleeping' : pc'[q] = "asleep" /\ keys'[q] = {buffer}
  BY Zenon, <1>2 DEF Fifo!Goto, OpenersWoken
<1>3. ASSUME NEW p \in Procs, NEW l, Fifo!Goto(p, l), pc[p] \notin {"connected", "notify", "leave"},
             p \notin sleeping, UNCHANGED <<sleeping, keys>>, met' \subseteq met,
             \A q \in Procs : q # p => fresh'[q] = fresh[q],
             l = "wait" => p \notin met'
      PROVE  OpenersWoken'
  <2>1. \A q \in met' : q \in sleeping' => Fifo!Notifying'
    BY Zenon, <1>1, <1>3 DEF OpenersWoken
  <2>2. ASSUME NEW q \in met', pc'[q] = "wait", fresh'[q] PROVE Fifo!Notifying'
    <3>1. q \in Procs /\ q \in met
      BY Zenon, <1>3 DEF Fifo!Waiting
    <3>2. q # p
      BY Zenon, <1>3, <2>2, <3>1 DEF Fifo!Goto
    <3>3. pc[q] = "wait" /\ fresh[q]
      BY Zenon, <1>3, <2>2, <3>1, <3>2 DEF Fifo!Goto
    <3> QED
      BY Zenon, <1>1, <1>3, <3>1, <3>3 DEF OpenersWoken
  <2> QED
    BY Zenon, <1>2, <1>3, <2>1, <2>2 DEF OpenersWoken
<1>4. ASSUME Fifo!task_poll_notify_key(buffer) PROVE OpenersWoken'
  <2>1. sleeping' = {}
    BY Zenon, <1>4 DEF Fifo!task_poll_notify_key, OpenersWoken
  <2>2. \A q \in met' : ~fresh'[q]
    BY Zenon, <1>4 DEF Fifo!task_poll_notify_key, Fifo!Waiting
  <2> QED
    BY Zenon, <2>1, <2>2 DEF OpenersWoken
<1>5. ASSUME NEW p \in Procs, Fifo!Announce(p) PROVE OpenersWoken'
  <2>1. PICK l \in {"connected", "notify"} : Fifo!Goto(p, l)
    BY <1>5, ZenonT(40) DEF Fifo!Announce
  <2>2. pc[p] = "announce" /\ UNCHANGED <<sleeping, keys>>
    BY Zenon, <1>5 DEF Fifo!Announce, Fifo!pollvars
  <2>3. p \notin sleeping
    BY Zenon, <2>2 DEF OpenersWoken
  <2>4. Fifo!Notifying'
    BY <2>1 DEF Fifo!Notifying, Fifo!Goto
  <2> QED
    BY Zenon, <1>2, <2>1, <2>2, <2>3, <2>4 DEF OpenersWoken
<1>6. ASSUME NEW p \in Procs, Fifo!AnnounceNotify(p) \/ Fifo!LeaveNotify(p) PROVE OpenersWoken'
  BY <1>4, <1>6, ZenonT(40) DEF Fifo!AnnounceNotify, Fifo!LeaveNotify
<1>7. ASSUME NEW p \in Procs,
             \/ Fifo!Start(p) \/ Fifo!Generation(p) \/ Fifo!OpenFails(p) \/ Fifo!Regenerate(p)
             \/ Fifo!Withdraw(p) \/ Fifo!Close(p)
      PROVE  OpenersWoken'
  <2>1. PICK l \in {"gen", "announce", "out", "recheck", "open", "leave"} : Fifo!Goto(p, l)
    BY <1>7, Zenon DEF Fifo!Start, Fifo!Generation, Fifo!OpenFails, Fifo!Regenerate, Fifo!Withdraw, Fifo!Close,
       Fifo!Return
  <2>2. pc[p] \in {"out", "gen", "announce", "regen", "withdraw", "open"}
    BY <1>7, Zenon DEF Fifo!Start, Fifo!Generation, Fifo!OpenFails, Fifo!Regenerate, Fifo!Withdraw, Fifo!Close
  <2>3. met' = met \/ met' = met \ {p}
    BY <1>7, Zenon DEF Fifo!Start, Fifo!Generation, Fifo!OpenFails, Fifo!Regenerate, Fifo!Withdraw, Fifo!Close,
       Fifo!Return
  <2>4. UNCHANGED Fifo!pollvars \/ Fifo!task_poll_generation(p)
    BY <1>7, ZenonT(40) DEF Fifo!Start, Fifo!Generation, Fifo!OpenFails, Fifo!Regenerate, Fifo!Withdraw, Fifo!Close
  <2>5. UNCHANGED <<sleeping, keys>> /\ \A q \in Procs : q # p => fresh'[q] = fresh[q]
    BY Zenon, <2>4 DEF Fifo!pollvars, Fifo!task_poll_generation
  <2>6. p \notin sleeping
    BY <2>2 DEF OpenersWoken
  <2> QED
    BY Zenon, <1>3, <2>1, <2>2, <2>3, <2>5, <2>6
<1>8. ASSUME NEW p \in Procs, Fifo!Recheck(p) PROVE OpenersWoken'
  <2>1. UNCHANGED <<sleeping, keys, fresh>> /\ pc[p] = "recheck"
    BY Zenon, <1>8 DEF Fifo!Recheck, Fifo!pollvars
  <2>2. p \notin sleeping
    BY Zenon, <2>1 DEF OpenersWoken
  <2>3. CASE Fifo!Return(p, "open")
    BY Zenon, <1>3, <2>1, <2>2, <2>3 DEF Fifo!Return
  <2>4. CASE ~Fifo!Connected(p) /\ Fifo!Goto(p, "wait") /\ met' = met
    <3>1. p \notin met
      BY <2>1, <2>4 DEF EpochsInv, EpochMoved, Fifo!Waiting, Fifo!Connected
    <3> QED
      BY Zenon, <1>3, <2>1, <2>2, <2>4, <3>1
  <2> QED
    BY <1>8, <2>3, <2>4, ZenonT(40) DEF Fifo!Recheck
<1>9. ASSUME NEW p \in Procs, Fifo!Wait(p) PROVE OpenersWoken'
  <2>1. pc[p] = "wait" /\ met' = met
    BY Zenon, <1>9 DEF Fifo!Wait
  <2>2. p \notin sleeping
    BY Zenon, <2>1 DEF OpenersWoken
  <2>3. CASE UNCHANGED Fifo!pollvars
    <3>1. PICK l \in {"regen", "withdraw", "asleep"} : Fifo!Goto(p, l)
      BY <1>9, ZenonT(40) DEF Fifo!Wait
    <3> QED
      BY Zenon, <1>3, <2>1, <2>2, <2>3, <3>1 DEF Fifo!pollvars
  <2>4. CASE Fifo!PollSleep(p, {buffer}, FALSE) /\ Fifo!Goto(p, "asleep")
    <3>1. /\ fresh[p]
          /\ sleeping' = sleeping \cup {p}
          /\ keys' = [keys EXCEPT ![p] = {buffer}]
          /\ fresh' = [fresh EXCEPT ![p] = FALSE]
      BY Zenon, <2>4 DEF Fifo!PollSleep, Fifo!PollStale
    <3>2. \A q \in sleeping' : pc'[q] = "asleep" /\ keys'[q] = {buffer}
      BY SMTT(30), <2>2, <2>4, <3>1 DEF OpenersWoken, Fifo!Goto
    <3>3. \A q \in met' : pc'[q] = "wait" /\ fresh'[q] => Fifo!Notifying'
      BY ZenonT(40), <1>1, <2>1, <2>4, <3>1 DEF OpenersWoken, Fifo!Goto, Fifo!Waiting
    <3>4. \A q \in met' : q \in sleeping' => Fifo!Notifying'
      BY ZenonT(60), <1>1, <2>1, <2>4, <3>1 DEF OpenersWoken
    <3> QED
      BY Zenon, <3>2, <3>3, <3>4 DEF OpenersWoken
  <2> QED
    BY <1>9, <2>3, <2>4, ZenonT(40) DEF Fifo!Wait
<1>10. ASSUME NEW p \in Procs, Fifo!Resume(p) PROVE OpenersWoken'
  <2>1. PICK l \in {"withdraw", "regen"} : Fifo!Goto(p, l)
    BY <1>10, ZenonT(40) DEF Fifo!Resume
  <2>2. /\ pc[p] = "asleep" /\ p \notin sleeping /\ met' = met
        /\ UNCHANGED <<sleeping, fresh>> /\ keys' = [keys EXCEPT ![p] = {}]
    BY Zenon, <1>10 DEF Fifo!Resume, Fifo!PollResume
  <2>3. \A q \in sleeping' : pc'[q] = "asleep" /\ keys'[q] = {buffer}
    BY SMTT(30), <2>1, <2>2 DEF OpenersWoken, Fifo!Goto
  <2>4. \A q \in met' : pc'[q] = "wait" /\ fresh'[q] => Fifo!Notifying'
    BY ZenonT(40), <1>1, <2>1, <2>2 DEF OpenersWoken, Fifo!Goto, Fifo!Waiting
  <2> QED
    BY <1>1, <2>1, <2>2, <2>3, <2>4 DEF OpenersWoken
<1>11. ASSUME UNCHANGED <<pc, met, fresh, keys>>, sleeping' \subseteq sleeping PROVE OpenersWoken'
  BY Zenon, <1>11 DEF OpenersWoken, Fifo!Notifying
<1>12. ASSUME NEW p \in Procs, Fifo!Signal(p) \/ Fifo!SignalWake(p) \/ Fifo!Deliver(p)
      PROVE  OpenersWoken'
  <2>1. UNCHANGED <<pc, met, fresh, keys>> /\ (sleeping' = sleeping \/ sleeping' = sleeping \ {p})
    BY <1>12, ZenonT(40) DEF Fifo!Signal, Fifo!SignalWake, Fifo!Deliver, Fifo!send_signal, Fifo!wake_up_process_for_signal,
       Fifo!check_pending_signals
  <2> QED
    BY <1>11, <2>1
<1>13. CASE UNCHANGED Fifo!vars
  BY <1>11, <1>13 DEF Fifo!vars, Fifo!pollvars
<1> QED
  BY <1>5, <1>6, <1>7, <1>8, <1>9, <1>10, <1>12, <1>13, ZenonT(40) DEF Fifo!Next, Fifo!KernelStep

(* Whoever opens a FIFO, waits for its other end and is met by it gets     *)
(* the file, however soon the counterpart closes it again and whatever     *)
(* signal comes, and does not sleep on; and the counts of the buffer are   *)
(* those of the processes that have it open or have announced themselves   *)
(* in pipe_open_named().                                                   *)
THEOREM FifoOpensMeet ==
  ASSUME Fifo!FifoAssumption PROVE Fifo!Spec => [](Fifo!OpensMeet /\ Fifo!CountsExact)
<1>1. Fifo!Init => FifoInv
  BY FifoInit
<1>2. FifoInv /\ [Fifo!Next]_Fifo!vars => FifoInv'
  <2> SUFFICES ASSUME FifoInv, [Fifo!Next]_Fifo!vars PROVE FifoInv'
    OBVIOUS
  <2>1. OpenCounts'
    BY FifoCountsNext
  <2>2. FifoPlaces'
    BY SMTT(30), <2>1, FifoPlacesNext
  <2>3. EpochsInv' /\ OpenersWoken'
    BY SMTT(30), <2>2, FifoEpochsNext, FifoWokenNext
  <2>4. Fifo!SignalNotLost'
    BY Zenon, FifoSignalNext DEF FifoInv
  <2> QED
    BY Zenon, <2>1, <2>2, <2>3, <2>4 DEF FifoInv
<1>3. FifoInv => Fifo!OpensMeet
  BY DEF FifoInv, FifoPlaces, OpenersWoken, Fifo!OpensMeet, Fifo!Waiting
<1>4. FifoInv => Fifo!CountsExact
  <2> SUFFICES ASSUME FifoInv PROVE Fifo!CountsExact
    OBVIOUS
  <2>1. {p \in Procs : pc[p] \in {"connected", "open"}} \cup Fifo!Waiting = There
    BY DEF There, Present, Fifo!Waiting
  <2>2. \A S : Fifo!Cardinality(S) = Cardinality(S)
    BY Zenon DEF Fifo!Cardinality, Cardinality
  <2> QED
    BY <2>1, <2>2, ZenonT(40) DEF FifoInv, OpenCounts, Fifo!CountsExact
<1> QED
  BY <1>1, <1>2, <1>3, <1>4, PTL DEF Fifo!Spec
=============================================================================
