-------------------------------- MODULE Tty --------------------------------
(***************************************************************************)
(* Terminal input, kernel/drivers/tty.c: the line discipline that receives *)
(* characters (tty_input_char_to), readers that wait for them              *)
(* (tty_read_to), and the ioctls that change the mode or flush.            *)
(*                                                                         *)
(* One word, read_wait, names the reader to wake.  A reader publishes      *)
(* itself there, marks itself INTERRUPTIBLE in a second critical section   *)
(* (task_lock) and looks at the input again in a third; other readers      *)
(* yield while it sleeps.  The input path clears the word when it takes    *)
(* the reader to wake it, and when the reader is not INTERRUPTIBLE.        *)
(*                                                                         *)
(* A character is a plain one or a newline; the ring is the sequence of    *)
(* its characters.  Echo, output, statistics, and the word and kill        *)
(* editing keys, which repeat the erase key's step, are left out.          *)
(***************************************************************************)
EXTENDS Naturals, Sequences

CONSTANTS Readers, NoReader,
          TTY_INPUT_BUF_SIZE,   \* 512 in the code; one slot stays free
          Termios,              \* settings in use: [canon, echo, vmin, vtime]
          LazyModes,            \* settings change with input in the buffer
          MaxCount,             \* largest count of a read
          MaxKeys,              \* bound on characters typed
          Signalled             \* readers that get one signal

VARIABLES
  input_buf, eof_pending, read_wait, termios,   \* struct tty_struct
  waking,          \* wake-ups on their way: <<reader, "input" or "signal">>
  state, signals,  \* of each reader: task->state; those with a pending signal
  pc, want, read,  \* of each reader: program counter, count, characters so far
  timed, due,      \* readers with a deadline; readers whose deadline is over
  keys, sent       \* characters typed; signals sent

tty == <<input_buf, eof_pending, read_wait, termios, waking>>
call == <<pc, want, read, timed, due>>
vars == <<tty, state, signals, call, keys, sent>>

TtyAssumption ==
  /\ NoReader \notin Readers
  /\ TTY_INPUT_BUF_SIZE \in Nat \ {0, 1}
  /\ Termios \subseteq [canon : BOOLEAN, echo : BOOLEAN, vmin : Nat, vtime : BOOLEAN]
  /\ Signalled \subseteq Readers

Init ==
  /\ input_buf = <<>>
  /\ eof_pending = FALSE
  /\ read_wait = NoReader
  /\ termios \in Termios
  /\ waking = {}
  /\ state = [t \in Readers |-> "RUNNING"]
  /\ signals = {}
  /\ pc = [t \in Readers |-> "out"]
  /\ want = [t \in Readers |-> 0]
  /\ read = [t \in Readers |-> 0]
  /\ timed = {}
  /\ due = {}
  /\ keys = 0
  /\ sent = {}

Goto(t, l) == pc' = [pc EXCEPT ![t] = l]

\* The kernel edits lines and wakes a reader for whole lines only.
canonical_echo == termios.canon /\ termios.echo

\* tty_take_interruptible_reader_locked
TakeReader ==
  IF read_wait # NoReader /\ state[read_wait] = "INTERRUPTIBLE"
  THEN read_wait' = NoReader /\ waking' = waking \cup {<<read_wait, "input">>}
  ELSE UNCHANGED <<read_wait, waking>>

-----------------------------------------------------------------------------
(* tty_input_char_to, in an interrupt handler or in a reader that polls    *)
(* the device; then tty_wake_reader.                                       *)

\* Mutant: the reader is woken only if the character was the first.
tty_enqueue_input_char_First(c) ==
  IF Len(input_buf) + 1 = TTY_INPUT_BUF_SIZE THEN UNCHANGED <<input_buf, read_wait, waking>>
  ELSE /\ input_buf' = Append(input_buf, c)
       /\ IF input_buf = <<>> THEN TakeReader ELSE UNCHANGED <<read_wait, waking>>

(* A character for a full buffer is dropped.  A waiter that does not sleep *)
(* is forgotten: it will look again.                                       *)
tty_enqueue_input_char(c) ==
  IF Len(input_buf) + 1 = TTY_INPUT_BUF_SIZE
  THEN UNCHANGED <<input_buf, read_wait, waking>>
  ELSE /\ input_buf' = Append(input_buf, c)
       /\ IF canonical_echo /\ c # "nl" THEN UNCHANGED <<read_wait, waking>>
          ELSE IF read_wait # NoReader /\ state[read_wait] = "INTERRUPTIBLE" THEN TakeReader
          ELSE read_wait' = NoReader /\ UNCHANGED waking

Type(c) ==
  /\ keys < MaxKeys
  /\ keys' = keys + 1
  /\ tty_enqueue_input_char(c)
  /\ UNCHANGED <<eof_pending, termios, state, signals, call, sent>>

TypeEof ==
  /\ keys < MaxKeys
  /\ canonical_echo
  /\ keys' = keys + 1
  /\ eof_pending' = TRUE
  /\ TakeReader
  /\ UNCHANGED <<input_buf, termios, state, signals, call, sent>>

TypeErase ==
  /\ keys < MaxKeys
  /\ canonical_echo
  /\ keys' = keys + 1
  /\ LET n == Len(input_buf) IN
       /\ n > 0 /\ input_buf[n] # "nl"
       /\ input_buf' = SubSeq(input_buf, 1, n - 1)
  /\ UNCHANGED <<eof_pending, read_wait, termios, waking, state, signals, call, sent>>

\* tty_wake_reader, or wake_up_process_for_signal.
tty_wake_reader(t) ==
  /\ \E why \in {"input", "signal"} :
       <<t, why>> \in waking /\ waking' = waking \ {<<t, why>>}
  /\ state' = [state EXCEPT ![t] = IF @ = "INTERRUPTIBLE" THEN "READY" ELSE @]
  /\ UNCHANGED <<input_buf, eof_pending, read_wait, termios, signals, call, keys, sent>>

\* send_signal, for VINTR or kill(2): posted first, woken later.
SendSignal(t) ==
  /\ t \in Signalled \ sent
  /\ sent' = sent \cup {t}
  /\ signals' = signals \cup {t}
  /\ waking' = waking \cup {<<t, "signal">>}
  /\ UNCHANGED <<input_buf, eof_pending, read_wait, termios, state, call, keys>>

\* tty_set_termios_for_id; without a flush nobody is woken.
tty_set_termios(tio, flush) ==
  /\ termios # tio
  /\ termios' = tio
  /\ \/ /\ flush
        /\ input_buf' = <<>>
        /\ eof_pending' = FALSE
        /\ TakeReader
     \/ /\ ~flush
        /\ LazyModes \/ input_buf = <<>>
        /\ UNCHANGED <<input_buf, eof_pending, read_wait, waking>>
  /\ UNCHANGED <<state, signals, call, keys, sent>>

\* tty_flush_for_id: the waiter is forgotten whatever its state.
tty_flush ==
  /\ input_buf # <<>> \/ eof_pending
  /\ input_buf' = <<>>
  /\ eof_pending' = FALSE
  /\ read_wait' = NoReader
  /\ waking' = waking \cup {<<t, "input">> : t \in {u \in {read_wait} \cap Readers : state[u] = "INTERRUPTIBLE"}}
  /\ UNCHANGED <<termios, state, signals, call, keys, sent>>

-----------------------------------------------------------------------------
Call(t, n) ==
  /\ pc[t] = "out"
  /\ want' = [want EXCEPT ![t] = n]
  /\ Goto(t, "loop")
  /\ UNCHANGED <<tty, state, signals, read, timed, due, keys, sent>>

\* The call is over; a pending signal is taken on the way to user mode.
Return(t) ==
  /\ Goto(t, "out")
  /\ want' = [want EXCEPT ![t] = 0]
  /\ read' = [read EXCEPT ![t] = 0]
  /\ timed' = timed \ {t}
  /\ due' = due \ {t}
  /\ signals' = signals \ {t}

\* The n-th character of the call, c, ends it.
LastChar(t, n, c) ==
  \/ n = want[t]
  \/ termios.canon /\ c = "nl"
  \/ ~termios.canon /\ termios.vmin > 0 /\ n >= termios.vmin

\* The next character.  Each one restarts the inter-byte timer.
TakeChar(t) ==
  LET n == read[t] + 1
      last == LastChar(t, n, Head(input_buf))
  IN
  /\ pc[t] = "loop"
  /\ input_buf # <<>>
  /\ input_buf' = Tail(input_buf)
  /\ \/ last /\ Return(t)
     \/ /\ ~last
        /\ read' = [read EXCEPT ![t] = n]
        /\ due' = due \ {t}
        /\ UNCHANGED <<pc, want, timed, signals>>
  /\ UNCHANGED <<eof_pending, read_wait, termios, waking, state, keys, sent>>

\* Ways out of a read that finds the buffer empty without sleeping.
Enough(t) ==
  \/ read[t] > 0 /\ (termios.canon \/ termios.vmin = 0 \/ read[t] >= termios.vmin
                     \/ (termios.vtime /\ t \in due))
  \/ ~termios.canon /\ termios.vmin = 0 /\ ~termios.vtime

TakeNothing(t) ==
  /\ pc[t] = "loop"
  /\ input_buf = <<>>
  /\ eof_pending \/ Enough(t)
  /\ eof_pending' = FALSE
  /\ Return(t)
  /\ UNCHANGED <<input_buf, read_wait, termios, waking, state, keys, sent>>

(* Publish the waiter, unless another one sleeps: then yield.  A deadline  *)
(* is set for the first character if none is required, else between two.  *)
Publish(t) ==
  /\ pc[t] = "loop"
  /\ input_buf = <<>> /\ ~eof_pending /\ ~Enough(t)
  /\ read_wait \in Readers \ {t} => state[read_wait] # "INTERRUPTIBLE"
  /\ read_wait' = t
  /\ LET first == termios.vmin = 0 /\ read[t] = 0 IN
       /\ timed' = IF ~termios.canon /\ termios.vtime /\ (first \/ read[t] > 0)
                   THEN timed \cup {t} ELSE timed \ {t}
       /\ due' = IF first THEN due \ {t} ELSE due
  /\ Goto(t, "mark")
  /\ UNCHANGED <<input_buf, eof_pending, termios, waking, state, signals, want, read, keys, sent>>

Mark(t) ==
  /\ pc[t] = "mark"
  /\ state' = [state EXCEPT ![t] = "INTERRUPTIBLE"]
  /\ Goto(t, "recheck")
  /\ UNCHANGED <<tty, signals, want, read, timed, due, keys, sent>>

\* Mutant: only the input is looked at again, not the slot.
Recheck_Input(t) ==
  /\ pc[t] = "recheck"
  /\ IF input_buf # <<>> \/ eof_pending
     THEN /\ read_wait' = IF read_wait = t THEN NoReader ELSE read_wait
          /\ state' = [state EXCEPT ![t] = "RUNNING"]
          /\ Goto(t, "loop")
     ELSE /\ Goto(t, "asleep")
          /\ UNCHANGED <<read_wait, state>>
  /\ UNCHANGED <<input_buf, eof_pending, termios, waking, signals, want, read, timed, due, keys, sent>>

Recheck(t) ==
  /\ pc[t] = "recheck"
  /\ IF input_buf # <<>> \/ eof_pending \/ read_wait # t
     THEN /\ read_wait' = IF read_wait = t THEN NoReader ELSE read_wait
          /\ state' = [state EXCEPT ![t] = "RUNNING"]
          /\ Goto(t, "loop")
     ELSE /\ Goto(t, "asleep")
          /\ UNCHANGED <<read_wait, state>>
  /\ UNCHANGED <<input_buf, eof_pending, termios, waking, signals, want, read, timed, due, keys, sent>>

\* The deadline passes; the tick wakes its sleepers.
Expire(t) ==
  /\ pc[t] \in {"mark", "recheck", "asleep"}
  /\ t \in timed \ due
  /\ due' = due \cup {t}
  /\ UNCHANGED <<tty, state, signals, pc, want, read, timed, keys, sent>>

DeadlineWake(t) ==
  /\ t \in timed \cap due
  /\ state[t] = "INTERRUPTIBLE"
  /\ state' = [state EXCEPT ![t] = "READY"]
  /\ UNCHANGED <<tty, signals, call, keys, sent>>

Resume(t) ==
  /\ pc[t] = "asleep"
  /\ state[t] = "READY"
  /\ state' = [state EXCEPT ![t] = "RUNNING"]
  /\ Goto(t, "awake")
  /\ UNCHANGED <<tty, signals, want, read, timed, due, keys, sent>>

\* EINTR or what was read, the deadline, or once more.
Awake(t) ==
  /\ pc[t] = "awake"
  /\ read_wait' = IF read_wait = t THEN NoReader ELSE read_wait
  /\ \/ /\ t \in signals \/ t \in timed \cap due
        /\ Return(t)
     \/ /\ t \notin signals /\ t \notin timed \cap due
        /\ Goto(t, "loop")
        /\ UNCHANGED <<want, read, timed, due, signals>>
  /\ UNCHANGED <<input_buf, eof_pending, termios, waking, state, keys, sent>>

Step(t) == TakeChar(t) \/ TakeNothing(t) \/ Publish(t) \/ Mark(t) \/ Recheck(t) \/ Resume(t) \/ Awake(t)

Next ==
  \/ \E c \in {"x", "nl"} : Type(c)
  \/ TypeEof
  \/ TypeErase
  \/ \E tio \in Termios, flush \in BOOLEAN : tty_set_termios(tio, flush)
  \/ tty_flush
  \/ \E t \in Readers :
       \/ tty_wake_reader(t)
       \/ SendSignal(t)
       \/ \E n \in 1 .. MaxCount : Call(t, n)
       \/ Step(t)
       \/ Expire(t)
       \/ DeadlineWake(t)

Spec == Init /\ [][Next]_vars

(* Readers run, and wake-ups and deadlines come; nobody need type.  A      *)
(* reader that yields to a sleeping one has no step to take.               *)
Fairness ==
  \A t \in Readers :
    /\ WF_vars(Step(t))
    /\ WF_vars(tty_wake_reader(t))
    /\ WF_vars(Expire(t))
    /\ WF_vars(DeadlineWake(t))

FairSpec == Spec /\ Fairness

-----------------------------------------------------------------------------
TypeOK ==
  /\ input_buf \in Seq({"x", "nl"}) /\ Len(input_buf) < TTY_INPUT_BUF_SIZE
  /\ eof_pending \in BOOLEAN
  /\ read_wait \in Readers \cup {NoReader}
  /\ termios \in Termios
  /\ waking \subseteq Readers \X {"input", "signal"}
  /\ state \in [Readers -> {"RUNNING", "INTERRUPTIBLE", "READY"}]
  /\ {} = (signals \cup timed \cup due) \ Readers
  /\ pc \in [Readers -> {"out", "loop", "mark", "recheck", "asleep", "awake"}]
  /\ read \in [Readers -> 0 .. MaxCount]

Asleep(t) ==
  /\ pc[t] = "asleep" /\ state[t] = "INTERRUPTIBLE"
  /\ <<t, "input">> \notin waking /\ <<t, "signal">> \notin waking

\* Something the input path wakes a reader for.
InputReady ==
  \/ eof_pending
  \/ IF canonical_echo THEN \E i \in 1 .. Len(input_buf) : input_buf[i] = "nl"
     ELSE input_buf # <<>>

(* "otherwise the reader can go to sleep with data already buffered and no *)
(* registered waiter" (tty_read_to): every sleeping reader is the one in   *)
(* read_wait, so that the next character can wake it, and none sleeps next *)
(* to input it should have; among two readers, flushes and mode changes.   *)
SleeperRegistered == \A t \in Readers : Asleep(t) => read_wait = t /\ ~InputReady

(* A signalled reader does not go on sleeping.  tty_read_to does not look  *)
(* for signals between publishing the waiter and sleeping.                 *)
SignalNotLost == \A t \in Readers : Asleep(t) => t \notin signals

(* Input that is ready is taken, as long as somebody reads, although the   *)
(* reader that was woken for it may lose it to another one or die.         *)
Unread == InputReady /\ \E t \in Readers : pc[t] # "out"
InputTaken == Unread ~> ~Unread
=============================================================================
