------------------------------ MODULE FifoOpen ------------------------------
(***************************************************************************)
(* Opening and closing a named FIFO: pipe_open_named() and pipe_close() of *)
(* kernel/syscalls/process_syscalls.c, on top of PollWait.                 *)
(*                                                                         *)
(* An open for reading waits for a writer and an open for writing waits    *)
(* for a reader.  The opener announces itself in the counts of the shared  *)
(* buffer, and two epochs tell it of a counterpart that came and went      *)
(* again while it slept.  A signal makes it withdraw, unless a counterpart *)
(* came.                                                                   *)
(*                                                                         *)
(* The ring of the buffer, and its reset when nobody has it open, is left  *)
(* out: Pipe models it.  The buffer of a FIFO lives as long as its inode.  *)
(***************************************************************************)
EXTENDS PollWait

CONSTANTS Reading, Writing,   \* who opens for reading, for writing, or for both
          NonBlocking,        \* who opens with O_NONBLOCK
          Signalled,          \* bound: processes somebody sends signals to
          MaxOpens,           \* bound: opens in all
          buffer              \* the key of this FIFO

FifoAssumption ==
  /\ Procs = Reading \cup Writing /\ IsFiniteSet(Procs)
  /\ NonBlocking \subseteq Procs
  /\ Signalled \subseteq Procs
  /\ MaxOpens \in Nat
  /\ buffer \in Keys

VARIABLES
  readers, writers,             \* struct pipe_buffer: open or announced
  reader_epoch, writer_epoch,
  pc,
  counterpart_epoch,            \* per process, the local variable
  opens,                        \* opens so far
  met                           \* ghost: openers during whose wait a counterpart came

counts == <<readers, writers, reader_epoch, writer_epoch>>
vars == <<counts, pc, counterpart_epoch, opens, met, pollvars>>

Init ==
  /\ PollInit
  /\ readers = 0 /\ writers = 0
  /\ reader_epoch = 0 /\ writer_epoch = 0
  /\ pc = [p \in Procs |-> "out"]
  /\ counterpart_epoch = [p \in Procs |-> 0]
  /\ opens = 0
  /\ met = {}

Goto(p, l) == pc' = [pc EXCEPT ![p] = l]

\* The call is over: the open file, or an error.
Return(p, l) ==
  /\ Goto(p, l)
  /\ counterpart_epoch' = [counterpart_epoch EXCEPT ![p] = 0]
  /\ met' = met \ {p}

One(p, S) == IF p \in S THEN 1 ELSE 0

\* Announced, and not known to be connected yet.
Waiting == {p \in Procs : pc[p] \in {"notify", "wait", "asleep", "regen", "recheck", "withdraw"}}
Counterparts(p) == (IF p \in Reading THEN Writing ELSE {}) \cup (IF p \in Writing THEN Reading ELSE {})

-----------------------------------------------------------------------------
Start(p) ==
  /\ pc[p] = "out"
  /\ opens < MaxOpens
  /\ opens' = opens + 1
  /\ Goto(p, "gen")
  /\ UNCHANGED <<counts, counterpart_epoch, met, pollvars>>

Generation(p) ==
  /\ pc[p] = "gen"
  /\ task_poll_generation(p)
  /\ Goto(p, "announce")
  /\ UNCHANGED <<counts, counterpart_epoch, opens, met>>

\* ENXIO: nobody reads, and the writer does not want to wait.
OpenFails(p) ==
  /\ pc[p] = "announce"
  /\ p \in NonBlocking \ Reading
  /\ readers = 0
  /\ Return(p, "out")
  /\ UNCHANGED <<counts, opens, pollvars>>

(* The counts and epochs go up under the buffer's lock. *)
Announce(p) ==
  /\ pc[p] = "announce"
  /\ ~(p \in NonBlocking \ Reading /\ readers = 0)
  /\ counterpart_epoch' =
       [counterpart_epoch EXCEPT ![p] = IF p \in Reading THEN writer_epoch ELSE reader_epoch]
  /\ readers' = readers + One(p, Reading)
  /\ reader_epoch' = reader_epoch + One(p, Reading)
  /\ writers' = writers + One(p, Writing)
  /\ writer_epoch' = writer_epoch + One(p, Writing)
  /\ Goto(p, IF p \in NonBlocking \/ (IF p \in Reading THEN writers' > 0 ELSE readers' > 0)
               THEN "connected" ELSE "notify")
  /\ met' = met \cup (Waiting \cap Counterparts(p))
  /\ UNCHANGED <<opens, pollvars>>

(* task_poll_notify_key(buffer) makes the generation p read stale as well. *)
AnnounceNotify(p) ==
  /\ pc[p] \in {"connected", "notify"}
  /\ task_poll_notify_key(buffer)
  /\ \/ pc[p] = "connected" /\ Return(p, "open")
     \/ pc[p] = "notify" /\ Goto(p, "wait") /\ UNCHANGED <<counterpart_epoch, met>>
  /\ UNCHANGED <<counts, opens>>

-----------------------------------------------------------------------------
\* pipe_wait_interruptible()
Wait(p) ==
  /\ pc[p] = "wait"
  /\ \/ PollStale(p, FALSE) /\ Goto(p, "regen") /\ UNCHANGED pollvars
     \/ PollInterrupted(p, FALSE) /\ Goto(p, "withdraw") /\ UNCHANGED pollvars
     \/ PollSleep(p, {buffer}, FALSE) /\ Goto(p, "asleep")
  /\ UNCHANGED <<counts, counterpart_epoch, opens, met>>

Resume(p) ==
  /\ pc[p] = "asleep"
  /\ PollResume(p)
  /\ Goto(p, IF p \in pending THEN "withdraw" ELSE "regen")
  /\ UNCHANGED <<counts, counterpart_epoch, opens, met>>

Regenerate(p) ==
  /\ pc[p] = "regen"
  /\ task_poll_generation(p)
  /\ Goto(p, "recheck")
  /\ UNCHANGED <<counts, counterpart_epoch, opens, met>>

\* Mutant: a counterpart that came and went again is not noticed.
Connected_CountsOnly(p) == IF p \in Reading THEN writers > 0 ELSE readers > 0

Connected(p) ==
  IF p \in Reading
    THEN writers > 0 \/ writer_epoch # counterpart_epoch[p]
    ELSE readers > 0 \/ reader_epoch # counterpart_epoch[p]

Recheck(p) ==
  /\ pc[p] = "recheck"
  /\ \/ Connected(p) /\ Return(p, "open")
     \/ ~Connected(p) /\ Goto(p, "wait") /\ UNCHANGED <<counterpart_epoch, met>>
  /\ UNCHANGED <<counts, opens, pollvars>>

\* p's counts go down under the buffer's lock.
Uncount(p) ==
  /\ readers' = readers - One(p, Reading)
  /\ writers' = writers - One(p, Writing)
  /\ UNCHANGED <<reader_epoch, writer_epoch>>

(* Interrupted: the announcement is taken back if nobody has met it. *)
Withdraw(p) ==
  /\ pc[p] = "withdraw"
  /\ \/ Connected(p) /\ Return(p, "open") /\ UNCHANGED counts
     \/ ~Connected(p) /\ Uncount(p) /\ Goto(p, "leave") /\ UNCHANGED <<counterpart_epoch, met>>
  /\ UNCHANGED <<opens, pollvars>>

Close(p) ==
  /\ pc[p] = "open"
  /\ Uncount(p)
  /\ Goto(p, "leave")
  /\ UNCHANGED <<counterpart_epoch, opens, met, pollvars>>

LeaveNotify(p) ==
  /\ pc[p] = "leave"
  /\ task_poll_notify_key(buffer)
  /\ Return(p, "out")
  /\ UNCHANGED <<counts, opens>>

-----------------------------------------------------------------------------
Signal(p) ==
  /\ p \in Signalled
  /\ send_signal(p)
  /\ UNCHANGED <<counts, pc, counterpart_epoch, opens, met>>

SignalWake(p) ==
  /\ wake_up_process_for_signal(p)
  /\ UNCHANGED <<counts, pc, counterpart_epoch, opens, met>>

Deliver(p) ==
  /\ pc[p] \in {"out", "open"}
  /\ check_pending_signals(p)
  /\ UNCHANGED <<counts, pc, counterpart_epoch, opens, met>>

KernelStep(p) ==
  \/ Generation(p) \/ OpenFails(p) \/ Announce(p) \/ AnnounceNotify(p)
  \/ Wait(p) \/ Resume(p) \/ Regenerate(p) \/ Recheck(p) \/ Withdraw(p) \/ LeaveNotify(p)

Next == \E p \in Procs :
  KernelStep(p) \/ Start(p) \/ Close(p) \/ Signal(p) \/ SignalWake(p) \/ Deliver(p)

Spec == Init /\ [][Next]_vars

-----------------------------------------------------------------------------
TypeOK ==
  /\ PollTypeOK
  /\ {readers, writers} \subseteq 0 .. Cardinality(Procs)
  /\ {reader_epoch, writer_epoch} \subseteq 0 .. MaxOpens
  /\ pc \in [Procs -> {"out", "gen", "announce", "connected", "notify", "wait", "asleep",
                       "regen", "recheck", "withdraw", "leave", "open"}]
  /\ counterpart_epoch \in [Procs -> 0 .. MaxOpens]
  /\ opens \in 0 .. MaxOpens
  /\ met \subseteq Procs

Notifying == \E q \in Procs : pc[q] \in {"connected", "notify", "leave"}

(* Both ends of a FIFO open or neither does: an open during which a        *)
(* counterpart came returns the file, although the counterpart may have    *)
(* closed it again and a signal may be pending.  Nor does it sleep on,     *)
(* unless pipe_open_named() of somebody is about to notify.                *)
OpensMeet ==
  /\ \A p \in met : pc[p] # "leave"
  /\ sleeping \cap met # {} => Notifying
  /\ SignalNotLost

(* The counts are those of the processes that announced themselves or      *)
(* hold the file.                                                          *)
CountsExact ==
  LET there == {p \in Procs : pc[p] \in {"connected", "open"}} \cup Waiting IN
  /\ readers = Cardinality(there \cap Reading)
  /\ writers = Cardinality(there \cap Writing)
=============================================================================
