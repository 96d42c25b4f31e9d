----------------------------- MODULE MCBlocking -----------------------------
(***************************************************************************)
(* Four places where a process waits in the kernel, for TLC: the ext2      *)
(* lock, a request to the block device, terminal input, and waitpid().  A  *)
(* behaviour uses one of them, chosen at the start; the others keep their  *)
(* initial states.                                                         *)
(***************************************************************************)
EXTENDS Ext2Lock

CONSTANTS t1, t2, t3, NoReader, None, Any

VARIABLES
  object,
  (* VirtioBlock *)
  virtio_blk_owner, virtio_blk_failed, blk_pending, last_used_idx, desc, avail, used, status,
  freed, device, interrupt, needs_reset, handler, b_state, b_pc, req, late, result, issued,
  (* Tty *)
  input_buf, eof_pending, read_wait, termios, t_waking, t_state, t_signals, t_pc, want, read,
  timed, due, keys, sent,
  (* Lifecycle *)
  st, parent, children, stamp, left, chld, pending, waking, stop_reported, cont, active,
  l_pc, sel, opts, victim, scan, reports

blockvars == <<virtio_blk_owner, virtio_blk_failed, blk_pending, last_used_idx, desc, avail,
  used, status, freed, device, interrupt, needs_reset, handler, b_state, b_pc, req, late,
  result, issued>>
ttyvars == <<input_buf, eof_pending, read_wait, termios, t_waking, t_state, t_signals, t_pc,
  want, read, timed, due, keys, sent>>
lifevars == <<st, parent, children, stamp, left, chld, pending, waking, stop_reported, cont,
  active, l_pc, sel, opts, victim, scan, reports>>

MCvars == <<object, vars, blockvars, ttyvars, lifevars>>

Two == {t2, t3}
Three == {t1, t2, t3}

(* Two callers; the ring indices wrap with the first request. *)
Block == INSTANCE VirtioBlock WITH
  Tasks <- Two, MaxRequests <- 2, IndexSize <- 65536, FirstIndex <- 65535, state <- b_state, pc <- b_pc

(* Two readers, one of them signalled, of a line-edited terminal. *)
Line == [canon |-> TRUE, echo |-> TRUE, vmin |-> 1, vtime |-> FALSE]

Tty == INSTANCE Tty WITH
  Readers <- Two, TTY_INPUT_BUF_SIZE <- 3, Termios <- {Line}, LazyModes <- FALSE,
  MaxCount <- 2, MaxKeys <- 2, Signalled <- {t2},
  waking <- t_waking, state <- t_state, signals <- t_signals, pc <- t_pc

ASSUME Block!VirtioAssumption /\ Tty!TtyAssumption

(* init (t1), a child and a grandchild, and one CPU that scans. *)
Life == INSTANCE Lifecycle WITH
  Procs <- Three, init <- t1, Booted <- {t2}, Scanners <- {0}, Batch <- 1,
  Dispositions <- {"dfl"}, OptionSets <- {{}, {"NOHANG"}}, Stoppable <- {}, Signalled <- {},
  pc <- l_pc

MCInit ==
  /\ object \in {"ext2", "block", "tty", "waitpid"}
  /\ Init
  /\ Block!Init
  /\ Tty!Init
  /\ Life!Init

OnlyExt2 == object = "ext2" /\ UNCHANGED <<object, blockvars, ttyvars, lifevars>>
OnlyBlock == object = "block" /\ UNCHANGED <<object, vars, ttyvars, lifevars>>
OnlyTty == object = "tty" /\ UNCHANGED <<object, vars, blockvars, lifevars>>
OnlyLife == object = "waitpid" /\ UNCHANGED <<object, vars, blockvars, ttyvars>>

MCNext ==
  \/ OnlyExt2 /\ Next
  \/ OnlyBlock /\ Block!Next
  \/ OnlyTty /\ Tty!Next
  \/ OnlyLife /\ Life!Next

(* The fairness of the four specifications, for what is in use. *)
Runs(t) ==
  \/ OnlyExt2 /\ pc[t] # "out" /\ Proceed(t)
  \/ OnlyBlock /\ t \in Two /\ Block!Step(t)
  \/ OnlyTty /\ t \in Two /\ Tty!Step(t)
  \/ OnlyLife /\ (Life!WaitStep(t) \/ Life!ExitStep(t))

Woken(t) ==
  \/ OnlyExt2 /\ failures > 0 /\ Timeout(t)
  \/ OnlyBlock /\ t \in Two /\ Block!SleepDeadline(t)
  \/ OnlyTty /\ t \in Two /\ Tty!tty_wake_reader(t)
  \/ OnlyLife /\ Life!SignalWake(t)

TimePasses(t) ==
  \/ OnlyBlock /\ t \in Two /\ Block!Expire(t)
  \/ OnlyLife /\ Life!LeaveStack(t)

Others ==
  \/ OnlyBlock /\ Block!Interrupt
  \/ OnlyLife /\ Life!ScanStep(0)

Ends(t) ==
  \/ OnlyExt2 /\ ext2_op_depth = 1 /\ ext2_op_release(t)
  \/ OnlyLife /\ Life!ExitOrphan(t)

InitWaits == OnlyLife /\ \E o \in {{}, {"NOHANG"}} : Life!WaitCall(t1, Any, o)

MCSpec ==
  /\ MCInit /\ [][MCNext]_MCvars
  /\ \A t \in Three :
       /\ WF_MCvars(Runs(t))
       /\ WF_MCvars(Woken(t))
       /\ WF_MCvars(TimePasses(t))
       /\ SF_MCvars(Ends(t))
  /\ WF_MCvars(Others)
  /\ SF_MCvars(InitWaits)

-----------------------------------------------------------------------------
(* The device never writes to a buffer that virtio_block.c has freed,      *)
(* however late it answers; and a block request returns what the device    *)
(* answered to it, and does not fail unless the device failed, asked for a *)
(* reset or let one time out.                                              *)
RequestsSafe == Block!DmaSafe /\ Block!TrueResults

(* Who waits, in each of the four: a task asleep for the ext2 lock; the    *)
(* caller of a block request; somebody in tty_read_to, with input that is  *)
(* ready; a zombie that is not freed yet.                                  *)
Waits(t) ==
  \/ Sleeps(t)
  \/ Block!InCall(t)
  \/ Tty!Unread
  \/ Life!Uncollected(t)

(* Nobody waits for ever: a task asleep for the ext2 lock is woken when it *)
(* is freed, without help of the timeout; a block request returns, with an *)
(* answer or a timeout, although the device may never answer and the       *)
(* interrupt may come between the last look and the sleep; input that is   *)
(* ready is read if there is a reader, although the one woken for it may   *)
(* lose it to another; every zombie is freed if init keeps waiting.        *)
WaitersServed == \A t \in Two : Waits(t) ~> ~Waits(t)
=============================================================================
