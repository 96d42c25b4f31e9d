--------------------------- MODULE BlockingProofs ---------------------------
(***************************************************************************)
(* Three places where a task waits in the kernel, for any number of tasks: *)
(* the sleeping lock of ext2, terminal input and the block driver.  One    *)
(* owner at a time, no sleeper that nobody is going to wake, no buffer     *)
(* freed while the device may use it.                                      *)
(***************************************************************************)
EXTENDS Ext2Lock, Sequences, FiniteSets, TLAPS

CONSTANTS Readers, NoReader, TTY_INPUT_BUF_SIZE, Termios, LazyModes, MaxCount, MaxKeys, Signalled,
          MaxRequests, IndexSize, FirstIndex

VARIABLES
  input_buf, eof_pending, read_wait, termios, waking, signals, want, read, timed, due, keys, sent,
  virtio_blk_owner, virtio_blk_failed, blk_pending, last_used_idx, desc, avail, used, status,
  freed, device, interrupt, needs_reset, handler, req, late, result, issued

Tty == INSTANCE Tty
Block == INSTANCE VirtioBlock

-----------------------------------------------------------------------------
(* The lock of ext2, for any nesting and any number of failed allocations. *)

(* What a task is doing when its state says RUNNING and nothing else. *)
Running == {"out", "prepare", "awake", "again", "in", "collect", "wake"}

(* The list a releasing task collects is empty until it has collected it   *)
(* and again when it has left, so that collecting overwrites nothing.      *)
ListsInv ==
  /\ \A t \in Tasks : pc[t] # "wake" => wake[t] = {}
  /\ \A t \in Tasks : pc[t] \in Running => state[t] = "RUNNING"

(* A task that registered and is still marked asleep is on the queue or on *)
(* a list; if it has given up the CPU and is on no list, somebody is bound *)
(* to collect the queue.                                                   *)
Registered(t) == t \in waiters \/ \E u \in Tasks : t \in wake[u]
Answerable(t) ==
  \/ ext2_op_owner # NoTask
  \/ \E u \in Tasks : pc[u] = "collect"
  \/ \E u \in Tasks : t \in wake[u]

WaitInv ==
  \A t \in Tasks : state[t] = "INTERRUPTIBLE" /\ failures = 0 =>
    /\ pc[t] \in {"recheck", "asleep"} => Registered(t)
    /\ pc[t] = "asleep" => Answerable(t)

LockInv == TypeOK /\ OpExclusion /\ ListsInv /\ WaitInv

-----------------------------------------------------------------------------
(* A lock that nobody has ever taken satisfies the invariant. *)
LEMMA LockInvInit == Init => LockInv
BY Ext2LockAssumption
DEF Init, LockInv, TypeOK, Labels, OpExclusion, Inside, ListsInv, Running, WaitInv

(* No step of ext2_op_acquire, ext2_op_release or the wait queue leaves    *)
(* the types.                                                              *)
LEMMA TypeNext == LockInv /\ [Next]_vars => TypeOK'
<1> SUFFICES ASSUME LockInv, [Next]_vars PROVE TypeOK'
  OBVIOUS
<1> USE Ext2LockAssumption DEF LockInv, TypeOK, Labels, Goto
<1>1. ASSUME NEW t \in Tasks, Try(t) PROVE TypeOK'
  BY <1>1 DEF Try, Taken, NotTaken, OpExclusion, Inside
<1>2. ASSUME NEW t \in Tasks, Nested(t) PROVE TypeOK'
  BY <1>2 DEF Nested, Taken
<1>3. ASSUME NEW t \in Tasks, Recheck(t) PROVE TypeOK'
  BY <1>3 DEF Recheck, Taken, NotTaken, OpExclusion, Inside
<1>4. ASSUME NEW t \in Tasks, ext2_op_release(t) PROVE TypeOK'
  BY <1>4 DEF ext2_op_release
<1>5. ASSUME NEW t \in Tasks, Collect(t) PROVE TypeOK'
  BY <1>5 DEF Collect
<1>6. ASSUME NEW t \in Tasks, Wake(t) PROVE TypeOK'
  BY <1>6 DEF Wake, MadeReady
<1>7. ASSUME NEW t \in Tasks, Timeout(t) PROVE TypeOK'
  BY <1>7 DEF Timeout, MadeReady
<1>8. ASSUME NEW t \in Tasks,
             \/ Prepare(t) \/ Register(t) \/ LeaveQueue(t) \/ Restore(t) \/ Resume(t) \/ Awake(t)
      PROVE  TypeOK'
  BY <1>8 DEF Prepare, Register, LeaveQueue, Restore, Resume, Awake
<1>9. CASE UNCHANGED vars
  BY <1>9 DEF vars
<1> QED
  BY <1>1, <1>2, <1>3, <1>4, <1>5, <1>6, <1>7, <1>8, <1>9 DEF Next, Proceed

(* One owner at a time: only a task that found the lock free or its own    *)
(* enters, and only the owner leaves.                                      *)
LEMMA ExclusionNext == LockInv /\ [Next]_vars => OpExclusion'
<1> SUFFICES ASSUME LockInv, [Next]_vars PROVE OpExclusion'
  OBVIOUS
<1> USE Ext2LockAssumption DEF LockInv, TypeOK, OpExclusion, Inside, Goto
<1>1. ASSUME NEW t \in Tasks, Try(t) PROVE OpExclusion'
  BY <1>1 DEF Try, Taken, NotTaken, ListsInv, Running
<1>2. ASSUME NEW t \in Tasks, Nested(t) PROVE OpExclusion'
  BY <1>2 DEF Nested, Taken
<1>3. ASSUME NEW t \in Tasks, Recheck(t) PROVE OpExclusion'
  BY <1>3 DEF Recheck, Taken, NotTaken
<1>4. ASSUME NEW t \in Tasks, ext2_op_release(t) PROVE OpExclusion'
  BY <1>4 DEF ext2_op_release
<1>5. ASSUME NEW t \in Tasks, Collect(t) PROVE OpExclusion'
  BY <1>5 DEF Collect
<1>6. ASSUME NEW t \in Tasks, Wake(t) PROVE OpExclusion'
  BY <1>6 DEF Wake, MadeReady
<1>7. ASSUME NEW t \in Tasks, Timeout(t) PROVE OpExclusion'
  BY <1>7 DEF Timeout, MadeReady
<1>8. ASSUME NEW t \in Tasks,
             \/ Prepare(t) \/ Register(t) \/ LeaveQueue(t) \/ Restore(t) \/ Resume(t) \/ Awake(t)
      PROVE  OpExclusion'
  BY <1>8 DEF Prepare, Register, LeaveQueue, Restore, Resume, Awake
<1>9. CASE UNCHANGED vars
  BY Zenon, <1>9 DEF vars
<1> QED
  BY <1>1, <1>2, <1>3, <1>4, <1>5, <1>6, <1>7, <1>8, <1>9 DEF Next, Proceed

(* Only Collect fills a list and only a task that goes to sleep is marked. *)
LEMMA ListsNext == LockInv /\ [Next]_vars => ListsInv'
<1> SUFFICES ASSUME LockInv, [Next]_vars PROVE ListsInv'
  OBVIOUS
<1> USE DEF LockInv, TypeOK, ListsInv, Running, Goto
<1>1. ASSUME NEW t \in Tasks, Try(t) \/ Nested(t) \/ Recheck(t) PROVE ListsInv'
  BY <1>1 DEF Try, Nested, Recheck
<1>2. ASSUME NEW t \in Tasks, ext2_op_release(t) PROVE ListsInv'
  BY <1>2 DEF ext2_op_release
<1>3. ASSUME NEW t \in Tasks, Collect(t) PROVE ListsInv'
  BY <1>3 DEF Collect
<1>4. ASSUME NEW t \in Tasks, Wake(t) PROVE ListsInv'
  BY <1>4 DEF Wake, MadeReady
<1>5. ASSUME NEW t \in Tasks, Timeout(t) PROVE ListsInv'
  BY <1>5 DEF Timeout, MadeReady
<1>6. ASSUME NEW t \in Tasks,
             \/ Prepare(t) \/ Register(t) \/ LeaveQueue(t) \/ Restore(t) \/ Resume(t) \/ Awake(t)
      PROVE  ListsInv'
  BY <1>6 DEF Prepare, Register, LeaveQueue, Restore, Resume, Awake
<1>7. CASE UNCHANGED vars
  BY Zenon, <1>7 DEF vars
<1> QED
  BY <1>1, <1>2, <1>3, <1>4, <1>5, <1>6, <1>7 DEF Next, Proceed

(* Who is marked asleep stays known to somebody: the registration comes    *)
(* before the last test of the lock, and a list takes over the queue.      *)
LEMMA WaitNext == LockInv /\ [Next]_vars => WaitInv'
<1> SUFFICES ASSUME LockInv, [Next]_vars PROVE WaitInv'
  OBVIOUS
<1> USE Ext2LockAssumption DEF LockInv, TypeOK, WaitInv, Registered, Answerable, Goto
<1>1. ASSUME NEW t \in Tasks, Try(t) PROVE WaitInv'
  BY <1>1 DEF Try, Taken, NotTaken
<1>2. ASSUME NEW t \in Tasks, Nested(t) PROVE WaitInv'
  BY <1>2 DEF Nested, Taken
<1>3. ASSUME NEW t \in Tasks, Recheck(t) PROVE WaitInv'
  BY <1>3 DEF Recheck, Taken, NotTaken
<1>4. ASSUME NEW t \in Tasks, ext2_op_release(t) PROVE WaitInv'
  BY <1>4 DEF ext2_op_release
<1>5. ASSUME NEW t \in Tasks, Collect(t) PROVE WaitInv'
  BY <1>5 DEF Collect, ListsInv
<1>6. ASSUME NEW t \in Tasks, Wake(t) PROVE WaitInv'
  BY <1>6 DEF Wake, MadeReady
<1>7. ASSUME NEW t \in Tasks, Timeout(t) PROVE WaitInv'
  BY <1>7 DEF Timeout, MadeReady
<1>8. ASSUME NEW t \in Tasks,
             \/ Prepare(t) \/ Register(t) \/ LeaveQueue(t) \/ Restore(t) \/ Resume(t) \/ Awake(t)
      PROVE  WaitInv'
  BY <1>8 DEF Prepare, Register, LeaveQueue, Restore, Resume, Awake
<1>9. CASE UNCHANGED vars
  BY <1>9 DEF vars
<1> QED
  BY <1>1, <1>2, <1>3, <1>4, <1>5, <1>6, <1>7, <1>8, <1>9 DEF Next, Proceed

(* The invariant holds in every reachable state. *)
LEMMA LockInvInductive == Spec => []LockInv
<1>1. LockInv /\ [Next]_vars => LockInv'
  BY TypeNext, ExclusionNext, ListsNext, WaitNext DEF LockInv
<1> QED BY <1>1, LockInvInit, PTL DEF Spec

-----------------------------------------------------------------------------
(* One task at a time is inside ext2, the lock's owner and depth agree     *)
(* with who it is, and it is not still marked asleep.                      *)
THEOREM OpExclusionCorrect == Spec => []OpExclusion
<1>1. LockInv => OpExclusion
  BY DEF LockInv
<1> QED BY <1>1, LockInvInductive, PTL

(* While the memory for the list can be allocated, no task sleeps for the  *)
(* lock unless somebody is bound to wake it: the timeout is only a net.    *)
THEOREM SleeperKnownCorrect == Spec => []SleeperKnown
<1>1. LockInv => SleeperKnown
  BY DEF LockInv, TypeOK, WaitInv, Registered, Answerable, SleeperKnown
<1> QED BY <1>1, LockInvInductive, PTL

-----------------------------------------------------------------------------
(* Terminal readers, for any buffer size and any settings: a reader that   *)
(* sleeps is the one that the next character wakes, and there is no input  *)
(* it should have had.  Programs change the settings with a flush or while *)
(* the buffer is empty.                                                    *)

(* The part of TypeOK the argument needs. *)
TtyTypes ==
  /\ input_buf \in Seq({"x", "nl"})
  /\ eof_pending \in BOOLEAN
  /\ read_wait \in Readers \cup {NoReader}
  /\ state \in [Readers -> {"RUNNING", "INTERRUPTIBLE", "READY"}]
  /\ pc \in [Readers -> {"out", "loop", "mark", "recheck", "asleep", "awake"}]

(* Only a reader on its way to sleep is marked. *)
MarkedInv == \A t \in Readers : state[t] = "INTERRUPTIBLE" => pc[t] \in {"recheck", "asleep"}

TtyInv == TtyTypes /\ MarkedInv /\ Tty!SleeperRegistered

-----------------------------------------------------------------------------
(* The empty buffer is a sequence of characters. *)
LEMMA EmptySeq == <<>> \in Seq({"x", "nl"})
OBVIOUS

(* A terminal nobody reads satisfies the invariant. *)
LEMMA TtyInvInit == ASSUME Tty!TtyAssumption PROVE Tty!Init => TtyInv
<1> SUFFICES ASSUME Tty!Init PROVE TtyInv
  OBVIOUS
<1>1. TtyTypes
  BY EmptySeq, ZenonT(30) DEF Tty!Init, TtyTypes
<1>2. MarkedInv /\ Tty!SleeperRegistered
  BY Zenon DEF Tty!Init, MarkedInv, Tty!SleeperRegistered, Tty!Asleep
<1> QED
  BY <1>1, <1>2 DEF TtyInv

(* No step leaves the types. *)
LEMMA TypesNext ==
    ASSUME Tty!TtyAssumption, ~LazyModes, TtyInv, [Tty!Next]_(Tty!vars)
    PROVE  TtyTypes'
<1> USE DEF Tty!TtyAssumption, TtyInv, TtyTypes, Tty!Goto, Tty!tty, Tty!call
<1>1. CASE \E c \in {"x", "nl"} : Tty!Type(c)
  <2> PICK c \in {"x", "nl"} : Tty!Type(c)
    BY <1>1
  <2>1. input_buf' = input_buf \/ input_buf' = Append(input_buf, c)
    BY Zenon DEF Tty!Type, Tty!tty_enqueue_input_char
  <2>2. read_wait' = read_wait \/ read_wait' = NoReader
    BY DEF Tty!Type, Tty!tty_enqueue_input_char, Tty!TakeReader
  <2>3. UNCHANGED <<eof_pending, state, pc>>
    BY DEF Tty!Type
  <2> QED
    BY <2>1, <2>2, <2>3, SMTT(30)
<1>2. CASE Tty!TypeEof
  BY <1>2 DEF Tty!TypeEof, Tty!TakeReader
<1>3. CASE Tty!TypeErase
  BY <1>3 DEF Tty!TypeErase
<1>4. CASE \E tio \in Termios, flush \in BOOLEAN : Tty!tty_set_termios(tio, flush)
  BY <1>4, EmptySeq, ZenonT(30) DEF Tty!tty_set_termios, Tty!TakeReader
<1>5. CASE Tty!tty_flush
  BY <1>5, EmptySeq, ZenonT(30) DEF Tty!tty_flush
<1>6. ASSUME NEW t \in Readers, Tty!tty_wake_reader(t) PROVE TtyTypes'
  BY <1>6 DEF Tty!tty_wake_reader
<1>7. ASSUME NEW t \in Readers, Tty!SendSignal(t) PROVE TtyTypes'
  BY <1>7 DEF Tty!SendSignal
<1>8. ASSUME NEW t \in Readers, \E n \in 1 .. MaxCount : Tty!Call(t, n) PROVE TtyTypes'
  BY <1>8 DEF Tty!Call
<1>9. ASSUME NEW t \in Readers, Tty!TakeChar(t) PROVE TtyTypes'
  BY <1>9 DEF Tty!TakeChar, Tty!Return
<1>10. ASSUME NEW t \in Readers, Tty!TakeNothing(t) PROVE TtyTypes'
  BY <1>10, ZenonT(30) DEF Tty!TakeNothing, Tty!Return
<1>11. ASSUME NEW t \in Readers, Tty!Publish(t) PROVE TtyTypes'
  BY <1>11 DEF Tty!Publish
<1>12. ASSUME NEW t \in Readers, Tty!Mark(t) PROVE TtyTypes'
  BY <1>12 DEF Tty!Mark
<1>13. ASSUME NEW t \in Readers, Tty!Recheck(t) PROVE TtyTypes'
  BY <1>13 DEF Tty!Recheck
<1>14. ASSUME NEW t \in Readers, Tty!Resume(t) PROVE TtyTypes'
  BY <1>14 DEF Tty!Resume
<1>15. ASSUME NEW t \in Readers, Tty!Awake(t) PROVE TtyTypes'
  BY <1>15 DEF Tty!Awake, Tty!Return
<1>16. ASSUME NEW t \in Readers, Tty!Expire(t) \/ Tty!DeadlineWake(t) PROVE TtyTypes'
  BY <1>16 DEF Tty!Expire, Tty!DeadlineWake
<1>17. CASE UNCHANGED Tty!vars
  BY Zenon, <1>17 DEF Tty!vars
<1> QED
  BY Zenon, <1>1, <1>2, <1>3, <1>4, <1>5, <1>6, <1>7, <1>8, <1>9, <1>10, <1>11, <1>12, <1>13, <1>14, <1>15, <1>16, <1>17 DEF Tty!Next, Tty!Step

(* Whoever stops being on the way to sleep is no longer marked. *)
LEMMA MarkedNext ==
    ASSUME Tty!TtyAssumption, ~LazyModes, TtyInv, [Tty!Next]_(Tty!vars)
    PROVE  MarkedInv'
<1> USE DEF Tty!TtyAssumption, TtyInv, TtyTypes, MarkedInv, Tty!Goto, Tty!tty, Tty!call
<1>1. CASE \E c \in {"x", "nl"} : Tty!Type(c)
  BY <1>1 DEF Tty!Type, Tty!tty_enqueue_input_char, Tty!TakeReader
<1>2. CASE Tty!TypeEof
  BY <1>2 DEF Tty!TypeEof, Tty!TakeReader
<1>3. CASE Tty!TypeErase
  BY <1>3 DEF Tty!TypeErase
<1>4. CASE \E tio \in Termios, flush \in BOOLEAN : Tty!tty_set_termios(tio, flush)
  BY <1>4 DEF Tty!tty_set_termios, Tty!TakeReader
<1>5. CASE Tty!tty_flush
  BY <1>5 DEF Tty!tty_flush
<1>6. ASSUME NEW t \in Readers, Tty!tty_wake_reader(t) PROVE MarkedInv'
  BY <1>6 DEF Tty!tty_wake_reader
<1>7. ASSUME NEW t \in Readers, Tty!SendSignal(t) PROVE MarkedInv'
  BY <1>7 DEF Tty!SendSignal
<1>8. ASSUME NEW t \in Readers, \E n \in 1 .. MaxCount : Tty!Call(t, n) PROVE MarkedInv'
  BY <1>8 DEF Tty!Call
<1>9. ASSUME NEW t \in Readers, Tty!TakeChar(t) PROVE MarkedInv'
  BY <1>9 DEF Tty!TakeChar, Tty!Return
<1>10. ASSUME NEW t \in Readers, Tty!TakeNothing(t) PROVE MarkedInv'
  BY <1>10 DEF Tty!TakeNothing, Tty!Return
<1>11. ASSUME NEW t \in Readers, Tty!Publish(t) PROVE MarkedInv'
  BY <1>11 DEF Tty!Publish
<1>12. ASSUME NEW t \in Readers, Tty!Mark(t) PROVE MarkedInv'
  BY <1>12 DEF Tty!Mark
<1>13. ASSUME NEW t \in Readers, Tty!Recheck(t) PROVE MarkedInv'
  BY <1>13 DEF Tty!Recheck
<1>14. ASSUME NEW t \in Readers, Tty!Resume(t) PROVE MarkedInv'
  BY <1>14 DEF Tty!Resume
<1>15. ASSUME NEW t \in Readers, Tty!Awake(t) PROVE MarkedInv'
  BY <1>15 DEF Tty!Awake, Tty!Return
<1>16. ASSUME NEW t \in Readers, Tty!Expire(t) \/ Tty!DeadlineWake(t) PROVE MarkedInv'
  BY <1>16 DEF Tty!Expire, Tty!DeadlineWake
<1>17. CASE UNCHANGED Tty!vars
  BY <1>17, SMTT(30) DEF Tty!vars
<1> QED
  BY Zenon, <1>1, <1>2, <1>3, <1>4, <1>5, <1>6, <1>7, <1>8, <1>9, <1>10, <1>11, <1>12, <1>13, <1>14, <1>15, <1>16, <1>17 DEF Tty!Next, Tty!Step

(* The sleeper stays the one in read_wait until a wake-up is on its way to  *)
(* it, and no step gives it input without sending one.                     *)
LEMMA RegisteredNext ==
    ASSUME Tty!TtyAssumption, ~LazyModes, TtyInv, [Tty!Next]_(Tty!vars)
    PROVE  Tty!SleeperRegistered'
<1> USE DEF Tty!TtyAssumption, TtyInv, TtyTypes, MarkedInv, Tty!SleeperRegistered, Tty!Asleep, Tty!InputReady, Tty!canonical_echo, Tty!Goto, Tty!tty, Tty!call
<1>1. CASE \E c \in {"x", "nl"} : Tty!Type(c)
  <2> PICK c \in {"x", "nl"} : Tty!Type(c)
    BY <1>1
  <2> SUFFICES ASSUME NEW t \in Readers, Tty!Asleep(t)' PROVE read_wait' = t /\ ~Tty!InputReady'
    BY DEF Tty!SleeperRegistered
  <2>1. UNCHANGED <<eof_pending, termios, state, pc>>
    BY DEF Tty!Type
  <2>2. Tty!Asleep(t) /\ read_wait = t /\ state[t] = "INTERRUPTIBLE" /\ ~Tty!InputReady
    <3>1. waking \subseteq waking'
      BY DEF Tty!Type, Tty!tty_enqueue_input_char, Tty!TakeReader
    <3> QED
      BY <2>1, <3>1
  <2>3. CASE UNCHANGED <<input_buf, read_wait, waking>>
    BY <2>1, <2>2, <2>3
  <2>4. CASE Tty!canonical_echo /\ c # "nl" /\ input_buf' = Append(input_buf, c) /\ UNCHANGED read_wait
    BY <2>1, <2>2, <2>4
  <2>5. CASE waking' = waking \cup {<<read_wait, "input">>}
    BY <2>2, <2>5
  <2> QED
    BY <2>2, <2>3, <2>4, <2>5 DEF Tty!Type, Tty!tty_enqueue_input_char, Tty!TakeReader
<1>2. CASE Tty!TypeEof
  BY <1>2 DEF Tty!TypeEof, Tty!TakeReader
<1>3. CASE Tty!TypeErase
  BY <1>3 DEF Tty!TypeErase
<1>4. CASE \E tio \in Termios, flush \in BOOLEAN : Tty!tty_set_termios(tio, flush)
  BY <1>4 DEF Tty!tty_set_termios, Tty!TakeReader
<1>5. CASE Tty!tty_flush
  BY <1>5 DEF Tty!tty_flush
<1>6. ASSUME NEW t \in Readers, Tty!tty_wake_reader(t) PROVE Tty!SleeperRegistered'
  BY <1>6 DEF Tty!tty_wake_reader
<1>7. ASSUME NEW t \in Readers, Tty!SendSignal(t) PROVE Tty!SleeperRegistered'
  BY <1>7 DEF Tty!SendSignal
<1>8. ASSUME NEW t \in Readers, \E n \in 1 .. MaxCount : Tty!Call(t, n) PROVE Tty!SleeperRegistered'
  BY <1>8 DEF Tty!Call
<1>9. ASSUME NEW t \in Readers, Tty!TakeChar(t) PROVE Tty!SleeperRegistered'
  BY <1>9 DEF Tty!TakeChar, Tty!Return
<1>10. ASSUME NEW t \in Readers, Tty!TakeNothing(t) PROVE Tty!SleeperRegistered'
  BY <1>10 DEF Tty!TakeNothing, Tty!Return
<1>11. ASSUME NEW t \in Readers, Tty!Publish(t) PROVE Tty!SleeperRegistered'
  BY <1>11 DEF Tty!Publish
<1>12. ASSUME NEW t \in Readers, Tty!Mark(t) PROVE Tty!SleeperRegistered'
  BY <1>12 DEF Tty!Mark
<1>13. ASSUME NEW t \in Readers, Tty!Recheck(t) PROVE Tty!SleeperRegistered'
  BY <1>13 DEF Tty!Recheck
<1>14. ASSUME NEW t \in Readers, Tty!Resume(t) PROVE Tty!SleeperRegistered'
  BY <1>14 DEF Tty!Resume
<1>15. ASSUME NEW t \in Readers, Tty!Awake(t) PROVE Tty!SleeperRegistered'
  BY <1>15 DEF Tty!Awake, Tty!Return
<1>16. ASSUME NEW t \in Readers, Tty!Expire(t) \/ Tty!DeadlineWake(t) PROVE Tty!SleeperRegistered'
  BY <1>16 DEF Tty!Expire, Tty!DeadlineWake
<1>17. CASE UNCHANGED Tty!vars
  BY <1>17 DEF Tty!vars
<1> QED
  BY <1>1, <1>2, <1>3, <1>4, <1>5, <1>6, <1>7, <1>8, <1>9, <1>10, <1>11, <1>12, <1>13, <1>14, <1>15, <1>16, <1>17, ZenonT(30) DEF Tty!Next, Tty!Step

(* The invariant holds in every reachable state. *)
LEMMA TtyInvInductive == ASSUME Tty!TtyAssumption, ~LazyModes PROVE Tty!Spec => []TtyInv
<1>1. TtyInv /\ [Tty!Next]_(Tty!vars) => TtyInv'
  BY TypesNext, MarkedNext, RegisteredNext DEF TtyInv
<1> QED BY <1>1, TtyInvInit, PTL DEF Tty!Spec

-----------------------------------------------------------------------------
(* Every reader asleep in tty_read_to() is registered in read_wait, and    *)
(* none sleeps next to input that should have woken it.                    *)
THEOREM SleeperRegisteredCorrect ==
    ASSUME Tty!TtyAssumption, ~LazyModes PROVE Tty!Spec => []Tty!SleeperRegistered
<1>1. TtyInv => Tty!SleeperRegistered
  BY DEF TtyInv
<1> QED BY <1>1, TtyInvInductive, PTL

-----------------------------------------------------------------------------
(* The block driver, for any number of requests: no buffer is freed while  *)
(* the device may use it, and what a call returns is the device's answer   *)
(* to its own request.  The argument needs neither the interrupt handler   *)
(* nor the sleep: whatever makes a caller look, only the used index lets   *)
(* it free its buffers.                                                    *)

Published == {"poll", "look", "sleep", "asleep", "finish", "giveup", "check", "fail"}
Owning == {"submit", "prepare", "publish"} \cup Published

(* The part of TypeOK the argument needs. *)
BlockTypes ==
  /\ virtio_blk_owner \in Tasks \cup {NoTask}
  /\ virtio_blk_failed \in BOOLEAN
  /\ last_used_idx \in 0 .. IndexSize - 1 /\ avail \in 0 .. IndexSize - 1 /\ used \in 0 .. IndexSize - 1
  /\ desc \in Block!Requests \cup {Block!NoRequest}
  /\ status \in [Block!Requests -> {"none", "0xFF", "ok", "error"}]
  /\ result \in [Block!Requests -> {"none", "ok", "error", "failed", "timeout", "unexpected"}]
  /\ pc \in [Tasks -> {"out", "acquire"} \cup Owning]
  /\ req \in [Tasks -> Nat]
  /\ issued \in Nat /\ issued <= MaxRequests

(* The task that owns the driver is the one inside it. *)
OwnerInv == \A t \in Tasks : pc[t] \in Owning <=> virtio_blk_owner = t

(* A request belongs to one call, and its buffers are not freed and its    *)
(* result is not known before the call is over.                            *)
NamesInv ==
  /\ \A r \in freed : r \in Block!Requests /\ r <= issued
  /\ \A r \in Block!Requests : issued < r => result[r] = "none"
  /\ \A t \in Tasks : pc[t] # "out" =>
       /\ req[t] \in Block!Requests /\ req[t] <= issued
       /\ req[t] \notin freed /\ result[req[t]] = "none"
  /\ \A t, u \in Tasks : t # u /\ pc[t] # "out" /\ pc[u] # "out" => req[t] # req[u]

(* At most one request is with the device, the one in the descriptors, and *)
(* while the driver has not failed it is that of the task that waits.      *)
RingInv ==
  /\ device # {} => used # avail /\ device = {desc}
  /\ used # avail =>
       /\ used = last_used_idx /\ avail = Block!Idx(last_used_idx + 1)
       /\ desc \in Block!Requests /\ desc \notin freed /\ result[desc] \notin {"ok", "error"}
  /\ \A t \in Tasks : pc[t] \in Published =>
       /\ avail = Block!Idx(last_used_idx + 1) /\ used \in {last_used_idx, avail}
       /\ desc = req[t]
       /\ used = avail => status[req[t]] \in {"ok", "error"}
  /\ \A t \in Tasks : pc[t] \in {"prepare", "publish"} =>
       used = avail /\ avail = last_used_idx /\ desc = req[t]
  /\ virtio_blk_failed \/ (\E t \in Tasks : pc[t] \in Published)
       \/ (used = avail /\ avail = last_used_idx)

BlockInv == BlockTypes /\ OwnerInv /\ NamesInv /\ RingInv /\ Block!AnswersTrue

-----------------------------------------------------------------------------
(* The next ring index is an index, and another one than this. *)
IndexMoves == \A n \in 0 .. IndexSize - 1 : Block!Idx(n + 1) \in 0 .. IndexSize - 1 /\ Block!Idx(n + 1) # n

(* Indices move, whatever their width, because it is more than 0 bits. *)
LEMMA IdxStep == ASSUME Block!VirtioAssumption PROVE IndexMoves
<1> SUFFICES ASSUME NEW n \in 0 .. IndexSize - 1
             PROVE  Block!Idx(n + 1) \in 0 .. IndexSize - 1 /\ Block!Idx(n + 1) # n
  BY DEF IndexMoves
<1>1. CASE n + 1 < IndexSize
  BY <1>1, SMTT(30) DEF Block!VirtioAssumption, Block!Idx
<1>2. CASE n + 1 = IndexSize
  BY <1>2, SMTT(30) DEF Block!VirtioAssumption, Block!Idx
<1> QED
  BY <1>1, <1>2 DEF Block!VirtioAssumption

(* An idle driver satisfies the invariant. *)
LEMMA BlockInvInit == ASSUME Block!VirtioAssumption PROVE Block!Init => BlockInv
<1> SUFFICES ASSUME Block!Init PROVE BlockInv
  OBVIOUS
<1> USE DEF Block!VirtioAssumption, Block!Init, Block!Requests, Block!NoRequest, Owning, Published
<1>1. BlockTypes
  <2>1. /\ status \in [Block!Requests -> {"none", "0xFF", "ok", "error"}]
        /\ result \in [Block!Requests -> {"none", "ok", "error", "failed", "timeout", "unexpected"}]
    OBVIOUS
  <2>2. pc \in [Tasks -> {"out", "acquire"} \cup Owning] /\ req \in [Tasks -> Nat]
    OBVIOUS
  <2>3. issued \in Nat /\ issued <= MaxRequests
    OBVIOUS
  <2> QED
    BY <2>1, <2>2, <2>3, ZenonT(30) DEF BlockTypes
<1>2. OwnerInv /\ NamesInv /\ Block!AnswersTrue
  BY DEF OwnerInv, NamesInv, Block!AnswersTrue
<1>3. RingInv
  BY DEF RingInv
<1> QED
  BY <1>1, <1>2, <1>3 DEF BlockInv

(* Steps the invariant does not see: nothing of it changes but the place   *)
(* of a task that waits, or that is about to publish.                      *)
Quiet ==
  /\ UNCHANGED <<virtio_blk_owner, virtio_blk_failed, last_used_idx, desc, avail, used, status,
                 device, freed, req, result, issued>>
  /\ pc' \in [Tasks -> {"out", "acquire"} \cup Owning]
  /\ \A t \in Tasks :
       \/ pc'[t] = pc[t]
       \/ pc[t] \in Published /\ pc'[t] \in Published
       \/ pc[t] = "prepare" /\ pc'[t] = "publish"

(* Such steps keep the invariant. *)
LEMMA QuietStep == ASSUME BlockInv, Quiet PROVE BlockInv'
<1>1. /\ UNCHANGED <<virtio_blk_owner, virtio_blk_failed, last_used_idx, desc, avail, used, status,
                     device, freed, req, result, issued>>
      /\ pc' \in [Tasks -> {"out", "acquire"} \cup Owning]
  BY Zenon DEF Quiet
<1>2. \A t \in Tasks : /\ pc[t] \in Owning <=> pc'[t] \in Owning
                       /\ pc[t] \in Published <=> pc'[t] \in Published
                       /\ pc'[t] \in {"prepare", "publish"} => pc[t] \in {"prepare", "publish"}
                       /\ pc[t] = "out" <=> pc'[t] = "out"
  BY DEF Quiet, Owning, Published
<1>3. BlockTypes'
  BY <1>1 DEF BlockInv, BlockTypes
<1>4. OwnerInv'
  BY <1>1, <1>2, Zenon DEF BlockInv, OwnerInv
<1>5. NamesInv'
  BY <1>1, <1>2, ZenonT(30) DEF BlockInv, NamesInv
<1>6. RingInv'
  BY <1>1, <1>2, ZenonT(30) DEF BlockInv, RingInv
<1>7. Block!AnswersTrue'
  BY Zenon, <1>1 DEF BlockInv, Block!AnswersTrue
<1> QED
  BY <1>3, <1>4, <1>5, <1>6, <1>7 DEF BlockInv

(* The steps of waiting and of being woken are such steps. *)
LEMMA QuietActions ==
    ASSUME BlockInv, NEW t \in Tasks,
           \/ Block!Prepare(t) \/ Block!Poll(t) \/ Block!LastLook(t) \/ Block!Sleep(t) \/ Block!Resume(t) \/ Block!FinishWait(t)
           \/ Block!SleepDeadline(t) \/ Block!Expire(t)
    PROVE  BlockInv'
<1> USE DEF BlockInv, BlockTypes, Block!Goto, Block!driver, Block!rings, Owning, Published
<1>1. CASE Block!Prepare(t) \/ Block!Sleep(t) \/ Block!Resume(t) \/ Block!SleepDeadline(t) \/ Block!Expire(t)
  <2>1. Quiet
    BY Zenon, <1>1 DEF Block!Prepare, Block!Sleep, Block!Resume, Block!SleepDeadline, Block!Expire, Quiet
  <2> QED BY Zenon, <2>1, QuietStep
<1>2. CASE Block!Poll(t) \/ Block!LastLook(t) \/ Block!FinishWait(t)
  <2>1. Quiet
    BY <1>2 DEF Block!Poll, Block!LastLook, Block!FinishWait, Quiet
  <2> QED BY Zenon, <2>1, QuietStep
<1> QED BY Zenon, <1>1, <1>2

(* So are the steps of the interrupt handler, and the device's breaking. *)
LEMMA QuietDevice == ASSUME BlockInv, Block!Interrupt \/ Block!Break \/ UNCHANGED Block!vars PROVE BlockInv'
<1>1. UNCHANGED <<virtio_blk_owner, virtio_blk_failed, last_used_idx, desc, avail, used, status,
                  device, freed, pc, req, result, issued>>
  BY Zenon DEF Block!Interrupt, Block!HandlerStarts, Block!HandlerLooks, Block!HandlerPublishes, Block!HandlerWakes, Block!Break, Block!vars,
               Block!driver, Block!rings, Block!tasks
<1>2. Quiet
  BY <1>1 DEF Quiet, BlockInv, BlockTypes
<1> QED BY <1>2, QuietStep

(* A new call takes a number nobody has had. *)
LEMMA CallStep == ASSUME Block!VirtioAssumption, BlockInv, NEW t \in Tasks, Block!Call(t) PROVE BlockInv'
<1>1. /\ pc[t] = "out" /\ issued < MaxRequests /\ issued' = issued + 1
      /\ pc' = [pc EXCEPT ![t] = "acquire"] /\ req' = [req EXCEPT ![t] = issued + 1]
      /\ UNCHANGED <<virtio_blk_owner, virtio_blk_failed, last_used_idx, desc, avail, used, status,
                     device, freed, result>>
  BY DEF Block!Call, Block!Goto, Block!driver, Block!rings
<1>2. issued + 1 \in Block!Requests /\ Block!Requests \subseteq Nat
  BY <1>1 DEF Block!VirtioAssumption, BlockInv, BlockTypes, Block!Requests
<1>3. BlockTypes'
  BY <1>1, <1>2 DEF Block!VirtioAssumption, BlockInv, BlockTypes
<1>4. OwnerInv'
  BY Zenon, <1>1 DEF BlockInv, BlockTypes, OwnerInv, Owning, Published
<1>5. NamesInv'
  <2>1. \A u \in Tasks : u # t => pc'[u] = pc[u] /\ req'[u] = req[u]
    BY <1>1 DEF BlockInv, BlockTypes
  <2>2. pc'[t] # "out" /\ req'[t] = issued'
    BY <1>1 DEF BlockInv, BlockTypes
  <2>3. \A r \in Block!Requests : r <= issued => r <= issued' /\ r # issued'
    BY <1>1, <1>2 DEF BlockInv, BlockTypes
  <2>4. \A r \in Block!Requests : issued' < r => issued < r
    BY <1>1, <1>2 DEF BlockInv, BlockTypes
  <2>5. issued' \in Block!Requests /\ issued' <= issued' /\ issued < issued'
    BY <1>1, <1>2 DEF BlockInv, BlockTypes
  <2>6. /\ \A r \in freed' : r \in Block!Requests /\ r <= issued'
        /\ \A r \in Block!Requests : issued' < r => result'[r] = "none"
    BY <1>1, <2>3, <2>4, Zenon DEF BlockInv, NamesInv
  <2>7. issued' \notin freed' /\ result'[issued'] = "none"
    BY <1>1, <2>3, <2>5, Zenon DEF BlockInv, NamesInv
  <2>8. \A u \in Tasks : pc'[u] # "out" =>
          /\ req'[u] \in Block!Requests /\ req'[u] <= issued'
          /\ req'[u] \notin freed' /\ result'[req'[u]] = "none"
    <3> SUFFICES ASSUME NEW u \in Tasks, pc'[u] # "out"
                 PROVE  /\ req'[u] \in Block!Requests /\ req'[u] <= issued'
                        /\ req'[u] \notin freed' /\ result'[req'[u]] = "none"
      OBVIOUS
    <3>1. CASE u = t
      BY <2>2, <2>5, <2>7, <3>1
    <3>2. CASE u # t
      <4>1. pc[u] # "out" /\ req'[u] = req[u] /\ UNCHANGED <<freed, result>>
        BY <1>1, <2>1, <3>2
      <4>2. /\ req[u] \in Block!Requests /\ req[u] <= issued
            /\ req[u] \notin freed /\ result[req[u]] = "none"
        BY <4>1 DEF BlockInv, NamesInv
      <4> QED BY <2>3, <4>1, <4>2
    <3> QED BY <3>1, <3>2
  <2>9. \A u, v \in Tasks : u # v /\ pc'[u] # "out" /\ pc'[v] # "out" => req'[u] # req'[v]
    <3>1. \A u \in Tasks : u # t /\ pc'[u] # "out" => req'[u] # issued'
      BY <2>1, <2>3, Zenon DEF BlockInv, NamesInv
    <3>2. \A u, v \in Tasks : u # t /\ v # t /\ u # v /\ pc'[u] # "out" /\ pc'[v] # "out" =>
            req'[u] # req'[v]
      BY <2>1, Zenon DEF BlockInv, NamesInv
    <3> QED BY <2>2, <3>1, <3>2, Zenon
  <2> QED BY <2>6, <2>8, <2>9 DEF NamesInv
<1>6. RingInv'
  <2>1. \A u \in Tasks : pc'[u] \in Published \cup {"prepare", "publish"} => pc'[u] = pc[u] /\ req'[u] = req[u]
    BY Zenon, <1>1 DEF BlockInv, BlockTypes, Published
  <2>2. \A u \in Tasks : pc[u] \in Published => pc'[u] \in Published
    BY Zenon, <1>1 DEF BlockInv, BlockTypes, Published
  <2> QED BY <1>1, <2>1, <2>2, ZenonT(30) DEF BlockInv, RingInv
<1>7. Block!AnswersTrue'
  BY <1>1 DEF BlockInv, Block!AnswersTrue
<1> QED BY <1>3, <1>4, <1>5, <1>6, <1>7 DEF BlockInv

(* The lock passes to one of those who wait for it. *)
LEMMA AcquireStep == ASSUME Block!VirtioAssumption, BlockInv, NEW t \in Tasks, Block!Acquire(t) PROVE BlockInv'
<1>1. /\ pc[t] = "acquire" /\ virtio_blk_owner = NoTask /\ virtio_blk_owner' = t
      /\ pc' = [pc EXCEPT ![t] = "submit"]
      /\ UNCHANGED <<virtio_blk_failed, last_used_idx, desc, avail, used, status,
                     device, freed, req, result, issued>>
  BY DEF Block!Acquire, Block!Goto, Block!rings
<1>2. BlockTypes'
  BY <1>1 DEF BlockInv, BlockTypes, Owning
<1>3. OwnerInv'
  BY <1>1 DEF Block!VirtioAssumption, BlockInv, BlockTypes, OwnerInv, Owning, Published
<1>4. NamesInv'
  <2>1. \A u \in Tasks : pc'[u] # "out" <=> pc[u] # "out"
    BY <1>1 DEF BlockInv, BlockTypes
  <2> QED BY <1>1, <2>1, ZenonT(30) DEF BlockInv, NamesInv
<1>5. RingInv'
  <2>1. \A u \in Tasks : pc'[u] \in Published \cup {"prepare", "publish"} => pc'[u] = pc[u]
    BY Zenon, <1>1 DEF BlockInv, BlockTypes, Published
  <2>2. \A u \in Tasks : pc[u] \in Published => pc'[u] \in Published
    BY Zenon, <1>1 DEF BlockInv, BlockTypes, Published
  <2> QED BY <1>1, <2>1, <2>2, ZenonT(30) DEF BlockInv, RingInv
<1>6. Block!AnswersTrue'
  BY Zenon, <1>1 DEF BlockInv, Block!AnswersTrue
<1> QED BY <1>2, <1>3, <1>4, <1>5, <1>6 DEF BlockInv

(* The end of a call, whatever it returns: the lock is free, the request   *)
(* is over, and its buffers are freed or not.                              *)
LEMMA ReleaseStep ==
    ASSUME Block!VirtioAssumption, BlockInv, NEW t \in Tasks, NEW r, Block!Release(t, r), pc[t] \in Owning,
           UNCHANGED <<req, issued>>, freed' \subseteq freed \cup {req[t]},
           r \in {"ok", "error", "failed", "timeout", "unexpected"}
    PROVE  /\ OwnerInv' /\ NamesInv'
           /\ pc' \in [Tasks -> {"out", "acquire"} \cup Owning]
           /\ result' \in [Block!Requests -> {"none", "ok", "error", "failed", "timeout", "unexpected"}]
           /\ req[t] \in Block!Requests /\ req[t] \notin freed
           /\ \A q \in Block!Requests : result'[q] = IF q = req[t] THEN r ELSE result[q]
           /\ \A u \in Tasks : pc'[u] \notin Published \cup {"prepare", "publish"}
           /\ \A u \in Tasks : pc[u] \in Published => u = t
<1>1. virtio_blk_owner' = NoTask /\ result' = [result EXCEPT ![req[t]] = r] /\ pc' = [pc EXCEPT ![t] = "out"]
  BY Zenon DEF Block!Release, Block!Goto
<1>2. pc[t] # "out" /\ virtio_blk_owner = t
  BY Zenon DEF BlockInv, OwnerInv, Owning, Published
<1>3. req[t] \in Block!Requests /\ req[t] <= issued /\ req[t] \notin freed
  BY <1>2 DEF BlockInv, NamesInv
<1>4. pc' \in [Tasks -> {"out", "acquire"} \cup Owning] /\ \A u \in Tasks : u # t => pc'[u] = pc[u]
  BY <1>1 DEF BlockInv, BlockTypes
<1>5. pc'[t] = "out" /\ \A u \in Tasks : u # t => pc[u] \notin Owning
  BY <1>1, <1>2 DEF BlockInv, BlockTypes, OwnerInv
<1>6. OwnerInv'
  BY <1>1, <1>4, <1>5 DEF Block!VirtioAssumption, OwnerInv, Owning, Published
<1>7. \A q \in Block!Requests : result'[q] = IF q = req[t] THEN r ELSE result[q]
  BY <1>1, <1>3 DEF BlockInv, BlockTypes
<1>8. result' \in [Block!Requests -> {"none", "ok", "error", "failed", "timeout", "unexpected"}]
  BY Zenon, <1>1, <1>3 DEF BlockInv, BlockTypes
<1>9. NamesInv'
  <2>1. \A q \in freed' : q \in Block!Requests /\ q <= issued'
    BY <1>3, Zenon DEF BlockInv, NamesInv
  <2>2. \A q \in Block!Requests : issued' < q => result'[q] = "none"
    <3>1. \A q \in Block!Requests : issued < q => q # req[t]
      BY <1>3 DEF Block!VirtioAssumption, Block!Requests, BlockInv, BlockTypes
    <3> QED BY <1>7, <3>1 DEF BlockInv, NamesInv
  <2>3. \A u \in Tasks : pc'[u] # "out" => u # t /\ pc[u] # "out"
    BY <1>4, <1>5
  <2>4. \A u \in Tasks : pc'[u] # "out" => req[u] # req[t]
    BY <1>2, <2>3, Zenon DEF BlockInv, NamesInv
  <2>5. \A u \in Tasks : pc'[u] # "out" =>
          /\ req'[u] \in Block!Requests /\ req'[u] <= issued'
          /\ req'[u] \notin freed' /\ result'[req'[u]] = "none"
    BY <1>7, <2>3, <2>4 DEF BlockInv, NamesInv
  <2>6. \A u, v \in Tasks : u # v /\ pc'[u] # "out" /\ pc'[v] # "out" => req'[u] # req'[v]
    BY <2>3, Zenon DEF BlockInv, NamesInv
  <2> QED BY <2>1, <2>2, <2>5, <2>6 DEF NamesInv
<1>10. \A u \in Tasks : pc'[u] \notin Published \cup {"prepare", "publish"}
  BY Zenon, <1>4, <1>5 DEF Owning, Published
<1>11. \A u \in Tasks : pc[u] \in Published => u = t
  BY <1>5 DEF Owning
<1> QED BY <1>3, <1>4, <1>6, <1>7, <1>8, <1>9, <1>10, <1>11

(* Descriptors are filled only while no request is with the device. *)
LEMMA SubmitStep == ASSUME Block!VirtioAssumption, BlockInv, NEW t \in Tasks, Block!Submit(t) PROVE BlockInv'
<1>1. /\ pc[t] = "submit" /\ virtio_blk_failed' = (virtio_blk_failed \/ needs_reset)
      /\ UNCHANGED <<last_used_idx, avail, used, device, freed, req, issued>>
  BY DEF Block!Submit
<1>2. pc[t] \in Owning /\ pc[t] # "out" /\ virtio_blk_failed' \in BOOLEAN
  BY Zenon, <1>1 DEF Owning
<1>3. CASE virtio_blk_failed'
  <2>1. Block!Release(t, "failed") /\ UNCHANGED <<desc, status>>
    BY Zenon, <1>3 DEF Block!Submit
  <2>2. /\ OwnerInv' /\ NamesInv'
        /\ pc' \in [Tasks -> {"out", "acquire"} \cup Owning]
        /\ result' \in [Block!Requests -> {"none", "ok", "error", "failed", "timeout", "unexpected"}]
        /\ req[t] \in Block!Requests /\ req[t] \notin freed
        /\ \A q \in Block!Requests : result'[q] = IF q = req[t] THEN "failed" ELSE result[q]
        /\ \A u \in Tasks : pc'[u] \notin Published \cup {"prepare", "publish"}
    BY ZenonT(60), <1>1, <1>2, <2>1, ReleaseStep
  <2>3. BlockTypes'
    BY Zenon, <1>1, <1>2, <2>1, <2>2 DEF Block!VirtioAssumption, BlockInv, BlockTypes, Block!Release
  <2>4. RingInv'
    BY Zenon, <1>1, <1>3, <2>1, <2>2 DEF BlockInv, RingInv
  <2>5. Block!AnswersTrue'
    BY Zenon, <2>1, <2>2 DEF BlockInv, Block!AnswersTrue
  <2> QED BY Zenon, <2>2, <2>3, <2>4, <2>5 DEF BlockInv
<1>4. CASE ~virtio_blk_failed'
  <2>1. /\ desc' = req[t] /\ status' = [status EXCEPT ![req[t]] = "0xFF"]
        /\ pc' = [pc EXCEPT ![t] = "prepare"] /\ UNCHANGED <<virtio_blk_owner, result>>
    BY Zenon, <1>4 DEF Block!Submit, Block!Goto
  <2>2. req[t] \in Block!Requests /\ result[req[t]] = "none"
    BY Zenon, <1>2 DEF BlockInv, NamesInv
  <2>3. BlockTypes'
    BY Zenon, <1>1, <1>2, <2>1, <2>2 DEF BlockInv, BlockTypes, Owning
  <2>4. OwnerInv'
    BY <1>1, <2>1 DEF BlockInv, BlockTypes, OwnerInv, Owning, Published
  <2>5. NamesInv'
    <3>1. \A u \in Tasks : pc'[u] # "out" <=> pc[u] # "out"
      BY <1>1, <2>1 DEF BlockInv, BlockTypes
    <3> QED BY <1>1, <2>1, <3>1, ZenonT(30) DEF BlockInv, NamesInv
  <2>6. \A u \in Tasks : u # t => pc[u] \notin Owning
    BY <1>2 DEF BlockInv, OwnerInv
  <2>7. \A u \in Tasks : pc[u] \notin Published
    BY <1>1, <2>6 DEF Owning, Published
  <2>8. used = avail /\ avail = last_used_idx
    BY <1>1, <1>4, <2>7, ZenonT(30) DEF BlockInv, RingInv
  <2>9. \A u \in Tasks : pc'[u] \notin Published /\ (pc'[u] \in {"prepare", "publish"} => u = t)
    BY Zenon, <2>1, <2>6 DEF BlockInv, BlockTypes, Owning, Published
  <2>10. RingInv'
    BY Zenon, <1>1, <2>1, <2>8, <2>9 DEF BlockInv, RingInv
  <2>11. Block!AnswersTrue'
    BY Zenon, <2>1, <2>2 DEF BlockInv, BlockTypes, Block!AnswersTrue
  <2> QED BY <2>3, <2>4, <2>5, <2>10, <2>11 DEF BlockInv
<1> QED BY Zenon, <1>2, <1>3, <1>4

(* The device learns of one request at a time. *)
LEMMA PublishStep == ASSUME Block!VirtioAssumption, BlockInv, NEW t \in Tasks, Block!Publish(t) PROVE BlockInv'
<1>1. /\ pc[t] = "publish" /\ avail' = Block!Idx(avail + 1) /\ pc' = [pc EXCEPT ![t] = "poll"]
      /\ UNCHANGED <<virtio_blk_owner, virtio_blk_failed, last_used_idx, desc, used, status,
                     device, freed, req, result, issued>>
  BY Zenon DEF Block!Publish, Block!Goto, Block!driver
<1>2. used = avail /\ avail = last_used_idx /\ desc = req[t]
  BY Zenon, <1>1 DEF BlockInv, RingInv
<1>3. /\ avail' = Block!Idx(last_used_idx + 1) /\ avail' \in 0 .. IndexSize - 1
      /\ avail' # used /\ avail' # last_used_idx
  BY Zenon, <1>1, <1>2, IdxStep DEF IndexMoves, BlockInv, BlockTypes
<1>4. desc \in Block!Requests /\ desc \notin freed /\ result[desc] = "none"
  BY Zenon, <1>1, <1>2 DEF BlockInv, NamesInv
<1>5. BlockTypes'
  BY Zenon, <1>1, <1>3 DEF BlockInv, BlockTypes, Owning, Published
<1>6. OwnerInv'
  BY <1>1 DEF BlockInv, BlockTypes, OwnerInv, Owning, Published
<1>7. NamesInv'
  <2>1. \A u \in Tasks : pc'[u] # "out" <=> pc[u] # "out"
    BY Zenon, <1>1 DEF BlockInv, BlockTypes
  <2> QED BY <1>1, <2>1, ZenonT(30) DEF BlockInv, NamesInv
<1>8. \A u \in Tasks : u # t => pc'[u] \notin Owning
  BY Zenon, <1>1 DEF BlockInv, BlockTypes, OwnerInv, Owning
<1>9. RingInv'
  <2>1. device' = {}
    BY Zenon, <1>1, <1>2 DEF BlockInv, RingInv
  <2>2. \A u \in Tasks : pc'[u] \in Published \cup {"prepare", "publish"} => u = t
    BY Zenon, <1>8 DEF Owning
  <2>3. pc'[t] = "poll" /\ pc'[t] \in Published
    BY Zenon, <1>1 DEF BlockInv, BlockTypes, Published
  <2> QED BY Zenon, <1>1, <1>2, <1>3, <1>4, <2>1, <2>2, <2>3 DEF RingInv
<1>10. Block!AnswersTrue'
  <2>1. UNCHANGED <<status, result>> /\ Block!AnswersTrue
    BY Zenon, <1>1 DEF BlockInv
  <2> QED BY <2>1 DEF Block!AnswersTrue
<1> QED BY <1>5, <1>6, <1>7, <1>9, <1>10 DEF BlockInv

(* A timeout fails the driver, and leaves the request to the device. *)
LEMMA MarkFailedStep == ASSUME Block!VirtioAssumption, BlockInv, NEW t \in Tasks, Block!MarkFailed(t) PROVE BlockInv'
<1>1. /\ pc[t] = "fail" /\ virtio_blk_failed' = TRUE /\ Block!Release(t, "timeout")
      /\ UNCHANGED <<last_used_idx, desc, avail, used, status, device, freed, req, issued>>
  BY DEF Block!MarkFailed, Block!rings
<1>2. pc[t] \in Owning
  BY Zenon, <1>1 DEF Owning, Published
<1>3. /\ OwnerInv' /\ NamesInv'
      /\ pc' \in [Tasks -> {"out", "acquire"} \cup Owning]
      /\ result' \in [Block!Requests -> {"none", "ok", "error", "failed", "timeout", "unexpected"}]
      /\ req[t] \in Block!Requests /\ req[t] \notin freed
      /\ \A q \in Block!Requests : result'[q] = IF q = req[t] THEN "timeout" ELSE result[q]
      /\ \A u \in Tasks : pc'[u] \notin Published \cup {"prepare", "publish"}
  BY ZenonT(60), <1>1, <1>2, ReleaseStep
<1>4. BlockTypes'
  BY <1>1, <1>3 DEF Block!VirtioAssumption, BlockInv, BlockTypes, Block!Release
<1>5. RingInv'
  BY Zenon, <1>1, <1>3 DEF BlockInv, RingInv
<1>6. Block!AnswersTrue'
  BY Zenon, <1>1, <1>3 DEF BlockInv, Block!AnswersTrue
<1> QED BY <1>3, <1>4, <1>5, <1>6 DEF BlockInv

(* Only a request the device has answered is freed. *)
LEMMA CheckStep == ASSUME Block!VirtioAssumption, BlockInv, NEW t \in Tasks, Block!Check(t) PROVE BlockInv'
<1> DEFINE one == used = Block!Idx(last_used_idx + 1)
           r == IF ~one THEN "unexpected" ELSE IF status[req[t]] = "ok" THEN "ok" ELSE "error"
<1>1. /\ pc[t] = "check" /\ virtio_blk_failed' = (virtio_blk_failed \/ ~one)
      /\ last_used_idx' = (IF one THEN used ELSE last_used_idx)
      /\ freed' = (IF one THEN freed \cup {req[t]} ELSE freed)
      /\ Block!Release(t, r)
      /\ UNCHANGED <<desc, avail, used, status, device, req, issued>>
  BY Zenon DEF Block!Check
<1>2. pc[t] \in Owning /\ pc[t] \in Published /\ virtio_blk_failed' \in BOOLEAN
  BY Zenon, <1>1 DEF Owning, Published
<1>3. r \in {"ok", "error", "failed", "timeout", "unexpected"} /\ freed' \subseteq freed \cup {req[t]}
  BY Zenon, <1>1
<1> HIDE DEF r
<1>4. /\ OwnerInv' /\ NamesInv'
      /\ pc' \in [Tasks -> {"out", "acquire"} \cup Owning]
      /\ result' \in [Block!Requests -> {"none", "ok", "error", "failed", "timeout", "unexpected"}]
      /\ req[t] \in Block!Requests /\ req[t] \notin freed
      /\ \A q \in Block!Requests : result'[q] = IF q = req[t] THEN r ELSE result[q]
      /\ \A u \in Tasks : pc'[u] \notin Published \cup {"prepare", "publish"}
  BY Zenon, <1>1, <1>2, <1>3, ReleaseStep
<1>5. BlockTypes'
  BY Zenon, <1>1, <1>2, <1>4 DEF Block!VirtioAssumption, BlockInv, BlockTypes, Block!Release
<1>6. /\ avail = Block!Idx(last_used_idx + 1) /\ used \in {last_used_idx, avail} /\ desc = req[t]
      /\ used = avail => status[req[t]] \in {"ok", "error"}
      /\ device # {} => used # avail
  <2>1. RingInv
    BY Zenon DEF BlockInv
  <2> QED BY Zenon, <1>2, <2>1 DEF RingInv
<1>7. CASE one
  <2>1. used = avail /\ last_used_idx' = avail /\ device = {} /\ r = status[req[t]]
    <3>1. used = avail
      BY Zenon, <1>6, <1>7
    <3>2. last_used_idx' = used
      BY Zenon, <1>1, <1>7
    <3> QED BY Zenon, <1>6, <1>7, <3>1, <3>2 DEF r
  <2>2. RingInv'
    <3>1. device' = {} /\ used' = avail' /\ avail' = last_used_idx'
      BY Zenon, <1>1, <2>1
    <3> QED BY Zenon, <1>4, <3>1 DEF RingInv
  <2>3. Block!AnswersTrue'
    BY Zenon, <1>1, <1>4, <2>1 DEF BlockInv, Block!AnswersTrue
  <2> QED BY Zenon, <1>4, <1>5, <2>2, <2>3 DEF BlockInv
<1>8. CASE ~one
  <2>1. virtio_blk_failed' /\ UNCHANGED <<freed, last_used_idx>> /\ r = "unexpected"
    BY <1>1, <1>8, ZenonT(30) DEF r
  <2>2. RingInv'
    BY Zenon, <1>1, <1>4, <2>1 DEF BlockInv, RingInv
  <2>3. Block!AnswersTrue'
    BY Zenon, <1>1, <1>4, <2>1 DEF BlockInv, Block!AnswersTrue
  <2> QED BY <1>4, <1>5, <2>2, <2>3 DEF BlockInv
<1> QED BY Zenon, <1>7, <1>8

(* The device fetches what is in the descriptors. *)
LEMMA FetchStep == ASSUME BlockInv, Block!Fetch PROVE BlockInv'
<1>1. /\ used # avail /\ device' = {desc}
      /\ UNCHANGED <<virtio_blk_owner, virtio_blk_failed, last_used_idx, desc, avail, used, status,
                     freed, pc, req, result, issued>>
  BY Zenon DEF Block!Fetch, Block!driver, Block!tasks
<1>2. BlockTypes' /\ OwnerInv' /\ Block!AnswersTrue'
  BY <1>1 DEF BlockInv, BlockTypes, OwnerInv, Block!AnswersTrue
<1>3. NamesInv'
  BY <1>1, Zenon DEF BlockInv, NamesInv
<1>4. RingInv'
  BY <1>1, ZenonT(30) DEF BlockInv, RingInv
<1> QED BY <1>2, <1>3, <1>4 DEF BlockInv

(* The device answers the request in the descriptors, which no call has    *)
(* been told the result of.                                                *)
LEMMA AnswerStep == ASSUME Block!VirtioAssumption, BlockInv, Block!Answer PROVE BlockInv'
<1>1. /\ device' = {} /\ used' = Block!Idx(used + 1)
      /\ UNCHANGED <<virtio_blk_owner, virtio_blk_failed, last_used_idx, desc, avail,
                     freed, pc, req, result, issued>>
  BY DEF Block!Answer, Block!driver, Block!tasks
<1>2. PICK s \in {"ok", "error"} : device # {} /\ \E q \in device : status' = [status EXCEPT ![q] = s]
  BY ZenonT(30) DEF Block!Answer
<1>3. /\ used # avail /\ device = {desc} /\ used = last_used_idx /\ avail = Block!Idx(last_used_idx + 1)
      /\ desc \in Block!Requests /\ result[desc] \notin {"ok", "error"}
  BY Zenon, <1>2 DEF BlockInv, RingInv
<1>4. used' = avail /\ status' = [status EXCEPT ![desc] = s]
  BY Zenon, <1>1, <1>2, <1>3
<1>5. BlockTypes'
  BY <1>1, <1>3, <1>4 DEF BlockInv, BlockTypes
<1>6. OwnerInv' /\ NamesInv'
  BY <1>1, Zenon DEF BlockInv, OwnerInv, NamesInv
<1>7. status'[desc] \in {"ok", "error"} /\ \A q \in Block!Requests : q # desc => status'[q] = status[q]
  BY Zenon, <1>3, <1>4 DEF BlockInv, BlockTypes
<1>8. RingInv'
  BY Zenon, <1>1, <1>3, <1>4, <1>7 DEF BlockInv, RingInv
<1>9. Block!AnswersTrue'
  BY Zenon, <1>1, <1>3, <1>7 DEF BlockInv, Block!AnswersTrue
<1> QED BY Zenon, <1>5, <1>6, <1>8, <1>9 DEF BlockInv

(* The invariant holds in every reachable state. *)
LEMMA BlockInvInductive == ASSUME Block!VirtioAssumption PROVE Block!Spec => []BlockInv
<1>1. BlockInv /\ [Block!Next]_(Block!vars) => BlockInv'
  BY Zenon, QuietActions, QuietDevice, CallStep, AcquireStep, SubmitStep, PublishStep, MarkFailedStep,
     CheckStep, FetchStep, AnswerStep DEF Block!Next, Block!Step
<1> QED BY <1>1, BlockInvInit, PTL DEF Block!Spec

-----------------------------------------------------------------------------
(* No buffer is freed that the device has or will find in the descriptors, *)
(* however many requests time out, fail or are answered late.              *)
THEOREM DmaSafeCorrect == ASSUME Block!VirtioAssumption PROVE Block!Spec => []Block!DmaSafe
<1>1. BlockInv => Block!DmaSafe
  BY Zenon DEF BlockInv, RingInv, Block!DmaSafe
<1> QED BY <1>1, BlockInvInductive, PTL

(* A call that returns success or an I/O error returns what the device     *)
(* answered to that request.                                               *)
THEOREM AnswersTrueCorrect == ASSUME Block!VirtioAssumption PROVE Block!Spec => []Block!AnswersTrue
<1>1. BlockInv => Block!AnswersTrue
  BY DEF BlockInv
<1> QED BY <1>1, BlockInvInductive, PTL
=============================================================================
