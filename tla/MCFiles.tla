------------------------------ MODULE MCFiles ------------------------------
(***************************************************************************)
(* Five kinds of open file for TLC: the pipe of MCPipe, a FIFO, local      *)
(* sockets, files of the ext2 file system, and the terminal.  A behaviour  *)
(* uses one of them, chosen at the start; the others keep their initial    *)
(* states.                                                                 *)
(***************************************************************************)
EXTENDS MCPipe, TLC

CONSTANTS f1, f2, NoFile, u1, u2, NoReader, listener, a1, a2

VARIABLES
  object,
  calls, ops_flush, disk, after, dirty, fs_pending, ext2_dirty, alloc_hint, file, fs_pc,
  written, kept, trusted, writes, faults, crashes,
  input_buf, eof_pending, read_wait, termios, t_waking, state, signals, t_pc, t_want, read,
  timed, due, t_keys, sent,
  f_readers, f_writers, reader_epoch, writer_epoch, f_pc, counterpart_epoch, opens, met,
  f_fresh, f_sleeping, f_keys, f_pending, f_waking,
  s_state, holders, accept, side, s_refs, s_freed, proc, held, installed, sends,
  s_fresh, s_sleeping, s_keys, s_pending, s_waking

ext2vars == <<calls, ops_flush, disk, after, dirty, fs_pending, ext2_dirty, alloc_hint, file,
              fs_pc, written, kept, trusted, writes, faults, crashes>>

(* Two writes and a fault, or three writes; one power failure; and either  *)
(* no other call, chmod, or truncate beside the two; over a device with a  *)
(* write cache, and the first also over one without.                       *)
Ext2Programs ==
  {[calls |-> c, flush |-> TRUE, writes |-> 2, faults |-> 1, crashes |-> 1] :
     c \in {{}, {"chmod"}, {"truncate"}}}
    \cup {[calls |-> {}, flush |-> FALSE, writes |-> 2, faults |-> 1, crashes |-> 1],
          [calls |-> {}, flush |-> TRUE, writes |-> 3, faults |-> 0, crashes |-> 1]}

(* Two files of at most two blocks on three, a cache of three, batches of  *)
(* two and one place for a kept-back inode: each of them overflows.        *)
Ext2 == INSTANCE Ext2 WITH
  Files <- {f1, f2}, DataBlocks <- {2, 3, 4}, FileBlocks <- 2, CacheWays <- 3,
  BatchBlocks <- 2, PendingMax <- 1, Programs <- Ext2Programs,
  pending <- fs_pending, pc <- fs_pc

ttyvars == <<input_buf, eof_pending, read_wait, termios, t_waking, state, signals, t_pc,
             t_want, read, timed, due, t_keys, sent>>

(* Two readers, one of them signalled, of a terminal that edits lines or   *)
(* returns two characters or those that came before a timeout; the buffer  *)
(* holds two.                                                              *)
Line == [canon |-> TRUE, echo |-> TRUE, vmin |-> 1, vtime |-> FALSE]
Timed == [canon |-> FALSE, echo |-> FALSE, vmin |-> 2, vtime |-> TRUE]

Tty == INSTANCE Tty WITH
  Readers <- {u1, u2}, TTY_INPUT_BUF_SIZE <- 3, Termios <- {Line, Timed}, LazyModes <- FALSE,
  MaxCount <- 2, MaxKeys <- 2, Signalled <- {u1},
  waking <- t_waking, pc <- t_pc, want <- t_want, keys <- t_keys

ASSUME Tty!TtyAssumption

fifovars == <<f_readers, f_writers, reader_epoch, writer_epoch, f_pc, counterpart_epoch, opens,
              met, f_fresh, f_sleeping, f_keys, f_pending, f_waking>>

(* A reader and two writers, one of them O_NONBLOCK, open and close a FIFO *)
(* three times between them; the two that may block get signals.            *)
Fifo == INSTANCE FifoOpen WITH
  Procs <- {u1, w1, w2}, Keys <- {buffer}, Reading <- {u1}, Writing <- {w1, w2},
  NonBlocking <- {w2}, Signalled <- {u1, w1}, MaxOpens <- 3,
  readers <- f_readers, writers <- f_writers, pc <- f_pc, fresh <- f_fresh,
  sleeping <- f_sleeping, keys <- f_keys, pending <- f_pending, waking <- f_waking

socketvars == <<s_state, holders, accept, side, s_refs, s_freed, proc, held, installed, sends,
                s_fresh, s_sleeping, s_keys, s_pending, s_waking>>

(* A connection with two messages of one byte, with or without files, over *)
(* a buffer of one.                                                        *)
Socket == INSTANCE LocalSocket WITH
  Procs <- {u1, w1}, Keys <- {listener} \cup ({w1} \X {0, 1}), Acceptors <- {u1}, Clients <- {w1},
  Backlog <- 1, ARMOS_SOCKET_BUFFER_SIZE <- 1, ARMOS_SOCKET_CONTROL_MAX <- 1, MaxCount <- 1,
  MaxSends <- 2, Senders <- {w1}, Receivers <- {u1}, Signalled <- {},
  state <- s_state, refs <- s_refs, freed <- s_freed, fresh <- s_fresh, sleeping <- s_sleeping, keys <- s_keys,
  pending <- s_pending, waking <- s_waking

(* The same with one message that does not fit into the buffer. *)
Stream == INSTANCE LocalSocket WITH
  Procs <- {u1, w1}, Keys <- {listener} \cup ({w1} \X {0, 1}), Acceptors <- {u1}, Clients <- {w1},
  Backlog <- 1, ARMOS_SOCKET_BUFFER_SIZE <- 1, ARMOS_SOCKET_CONTROL_MAX <- 1, MaxCount <- 2,
  MaxSends <- 1, Senders <- {w1}, Receivers <- {u1}, Signalled <- {},
  state <- s_state, refs <- s_refs, freed <- s_freed, fresh <- s_fresh, sleeping <- s_sleeping, keys <- s_keys,
  pending <- s_pending, waking <- s_waking

(* Two processes that accept from one listener, and a client with signals. *)
Servers == INSTANCE LocalSocket WITH
  Procs <- {a1, a2, w1}, Keys <- {listener} \cup ({w1} \X {0, 1}), Acceptors <- {a1, a2},
  Clients <- {w1}, Backlog <- 1, ARMOS_SOCKET_BUFFER_SIZE <- 1, ARMOS_SOCKET_CONTROL_MAX <- 1,
  MaxCount <- 1, MaxSends <- 0, Senders <- {}, Receivers <- {w1}, Signalled <- {w1},
  state <- s_state, refs <- s_refs, freed <- s_freed, fresh <- s_fresh, sleeping <- s_sleeping, keys <- s_keys,
  pending <- s_pending, waking <- s_waking

ASSUME Fifo!FifoAssumption /\ Socket!SocketAssumption /\ Stream!SocketAssumption
       /\ Servers!SocketAssumption

(* Nothing tells the two servers apart. *)
Symmetry == Permutations({a1, a2})

MCInit ==
  /\ object \in {"pipe", "fifo", "socket", "stream", "servers", "ext2", "tty"}
  /\ Init
  /\ Fifo!Init
  /\ IF object = "servers" THEN Servers!Init ELSE Socket!Init
  /\ Ext2!Init
  /\ Tty!Init
  /\ object # "ext2" => calls = {} /\ faults = 0 /\ ops_flush
  /\ object # "tty" => termios = Line

MCNext ==
  /\ UNCHANGED object
  /\ \/ object = "pipe" /\ Next /\ UNCHANGED <<fifovars, socketvars, ext2vars, ttyvars>>
     \/ object = "fifo" /\ Fifo!Next /\ UNCHANGED <<vars, socketvars, ext2vars, ttyvars>>
     \/ object = "socket" /\ Socket!Next /\ UNCHANGED <<vars, fifovars, ext2vars, ttyvars>>
     \/ object = "stream" /\ Stream!Next /\ UNCHANGED <<vars, fifovars, ext2vars, ttyvars>>
     \/ object = "servers" /\ Servers!Next /\ UNCHANGED <<vars, fifovars, ext2vars, ttyvars>>
     \/ object = "ext2" /\ Ext2!Next /\ UNCHANGED <<vars, fifovars, socketvars, ttyvars>>
     \/ object = "tty" /\ Tty!Next /\ UNCHANGED <<vars, fifovars, socketvars, ext2vars>>

MCSpec == MCInit /\ [][MCNext]_<<object, vars, fifovars, socketvars, ext2vars, ttyvars>>

-----------------------------------------------------------------------------
(* Types of the state of the one in use. *)
FilesTypeOK ==
  /\ object = "pipe" => TypeOK
  /\ object = "fifo" => Fifo!TypeOK
  /\ object = "socket" => Socket!TypeOK
  /\ object = "stream" => Stream!TypeOK
  /\ object = "servers" => Servers!TypeOK
  /\ object = "ext2" => Ext2!TypeOK
  /\ object = "tty" => Tty!TypeOK

(* Both ends of a FIFO open or neither does, although a counterpart may    *)
(* close again, and a signal may come, before the sleeper runs; and the    *)
(* counts are those of the openers.                                        *)
OpensMeet == object = "fifo" => Fifo!OpensMeet /\ Fifo!CountsExact

(* Nobody sleeps in accept(), read() or write() of a local socket with     *)
(* something to do, unless a notification of that socket is on its way.    *)
SocketSleepers ==
  /\ object = "socket" => Socket!SocketSleepers
  /\ object = "stream" => Stream!SocketSleepers
  /\ object = "servers" => Servers!SocketSleepers

(* Every file passed over a socket is delivered with its byte or closed,   *)
(* once, and a channel is freed when nobody can reach it.                  *)
RightsKept ==
  /\ object = "socket" => Socket!RightsKept /\ Socket!ChannelLive
  /\ object = "stream" => Stream!RightsKept /\ Stream!ChannelLive
  /\ object = "servers" => Servers!ChannelLive

(* A read returns what the last write to the file wrote, through cache,    *)
(* pending inode and device.                                               *)
ReadsBack == object = "ext2" => Ext2!ReadsBack

(* What was written before a successful sync is there after a power        *)
(* failure.                                                                *)
SyncedSurvives == object = "ext2" => Ext2!SyncedSurvives

(* Without chmod and truncate, at every moment the inode on the device     *)
(* refers only to blocks whose data and bitmap bit are there too.          *)
WritesOrdered == object = "ext2" => Ext2!WritesOrdered

(* A reader sleeping in tty_read_to is the one the input path will wake,   *)
(* and has no input to read.                                               *)
SleeperRegistered == object = "tty" => Tty!SleeperRegistered
=============================================================================
