---------------------------- MODULE LocalSocket ----------------------------
(***************************************************************************)
(* Local stream sockets of kernel/net/armos_socket.c, on top of PollWait:  *)
(* one listening socket shared by the processes of Acceptors, clients that *)
(* connect to it once each, and the byte streams between them, with the    *)
(* file references that sendmsg() passes along.                            *)
(*                                                                         *)
(* A connection has the name of its client c.  Its channel has two sides,  *)
(* <<c, 0>> for the client and <<c, 1>> for the server's socket, and a     *)
(* connected socket is named like its side.  An action is one critical     *)
(* section of armos_socket_lock, or one of task_lock inside PollWait.      *)
(*                                                                         *)
(* A byte is the answer to "were files sent with it?".  Every message with *)
(* files carries one.  The rings are sequences: Pipe looks at their        *)
(* wrapping positions.  Calls that fail without changing anything are left *)
(* out, and so is read() as opposed to recvmsg(): it closes the files that *)
(* it gets.                                                                *)
(***************************************************************************)
EXTENDS PollWait, Sequences

LOCAL INSTANCE Functions

CONSTANTS Acceptors, Clients,
          Backlog,                    \* listen()'s argument
          ARMOS_SOCKET_BUFFER_SIZE,
          ARMOS_SOCKET_CONTROL_MAX,
          MaxCount,                   \* bound: largest count of one call
          MaxSends,                   \* bound: calls of write() and sendmsg()
          Senders, Receivers,         \* bound: processes that send and that receive
          Signalled,                  \* bound: processes somebody sends signals to
          listener                    \* the key of the listening socket

Sockets == Clients \X {0, 1}

SocketAssumption ==
  /\ Procs = Acceptors \cup Clients
  /\ Acceptors \cap Clients = {}
  /\ {Backlog, ARMOS_SOCKET_BUFFER_SIZE, ARMOS_SOCKET_CONTROL_MAX, MaxCount} \subseteq Nat \ {0}
  /\ MaxSends \in Nat
  /\ Senders \cup Receivers \cup Signalled \subseteq Procs
  /\ Keys = {listener} \cup Sockets
  /\ listener \notin Sockets

VARIABLES
  state,       \* of the listening socket
  holders,     \* acceptors that hold its file
  accept,      \* its queue: accept_head, accept_next, pending
  side,        \* per side of a channel: what waits for it, and its flags
  refs,        \* per channel: refs; 0 before connect() and at the end
  freed,       \* channels that were kfree()d
  proc,        \* per process: where it is, and the locals of its call
  held,        \* references to the passed file that sendmsg() took and nobody gave back
  installed,   \* those of them that are descriptors of a receiver
  sends

listening == <<state, holders, accept>>
channels == <<side, refs, freed>>
files == <<held, installed>>
vars == <<listening, channels, proc, files, sends, pollvars>>

NoSocket == <<>>
Other(s) == <<s[1], 1 - s[2]>>

EmptySide ==
  [data |-> <<>>, read_sequence |-> 0, write_sequence |-> 0, control |-> <<>>,
   read_closed |-> FALSE, write_closed |-> FALSE, endpoint |-> FALSE]

Idle ==
  [pc |-> "user", op |-> "none", socket |-> NoSocket, victim |-> NoSocket, doomed |-> <<>>,
   want |-> 0, done |-> 0, control |-> FALSE, hand |-> 0, notify |-> <<>>, then |-> "user"]

Init ==
  /\ PollInit
  /\ state = "CREATED"
  /\ holders = Acceptors
  /\ accept = <<>>
  /\ side = [s \in Sockets |-> EmptySide]
  /\ refs = [c \in Clients |-> 0]
  /\ freed = {}
  /\ proc = [p \in Procs |-> Idle]
  /\ held = 0 /\ installed = 0
  /\ sends = 0

At(p, l) == proc[p].pc = l
Goto(p, l) == proc' = [proc EXCEPT ![p].pc = l]
Return(p) == proc' = [proc EXCEPT ![p] = [Idle EXCEPT !.socket = proc[p].socket]]

(* task_poll_notify_key for each of ks in turn, then on to label l.  The   *)
(* keys of armos_socket_channel_notify are looked up only when their turn  *)
(* comes, without the lock.                                                *)
Fixed(k) == [key |-> k, looked_up |-> FALSE]
armos_socket_channel_notify(s) ==
  <<[key |-> <<s[1], 0>>, looked_up |-> TRUE], [key |-> <<s[1], 1>>, looked_up |-> TRUE]>>

Notify(p) ==
  LET k == Head(proc[p].notify) IN
  /\ At(p, "notify")
  /\ IF k.looked_up /\ ~side[k.key].endpoint THEN UNCHANGED pollvars
                                            ELSE task_poll_notify_key(k.key)
  /\ proc' = [proc EXCEPT ![p].notify = Tail(@),
                          ![p].pc = IF Len(proc[p].notify) = 1 THEN proc[p].then ELSE @,
                          ![p].then = IF Len(proc[p].notify) = 1 THEN "user" ELSE @]
  /\ UNCHANGED <<listening, channels, files, sends>>

-----------------------------------------------------------------------------
armos_socket_bind(p) ==
  /\ At(p, "user") /\ p \in holders
  /\ state = "CREATED"
  /\ state' = "BOUND"
  /\ UNCHANGED <<holders, accept, channels, proc, files, sends, pollvars>>

armos_socket_listen(p) ==
  /\ At(p, "user") /\ p \in holders
  /\ state = "BOUND"
  /\ state' = "LISTENING"
  /\ UNCHANGED <<holders, accept, channels, proc, files, sends, pollvars>>

(* Both sides of the channel are made, and the server's waits to be        *)
(* accepted.                                                               *)
armos_socket_connect(c) ==
  /\ At(c, "user")
  /\ c \in Clients /\ side[<<c, 0>>] = EmptySide
  /\ state = "LISTENING"
  /\ Len(accept) < Backlog
  /\ side' = [side EXCEPT ![<<c, 0>>].endpoint = TRUE, ![<<c, 1>>].endpoint = TRUE]
  /\ refs' = [refs EXCEPT ![c] = 2]
  /\ accept' = Append(accept, c)
  /\ proc' = [proc EXCEPT ![c].socket = <<c, 0>>, ![c].pc = "notify",
                ![c].notify = <<Fixed(listener)>> \o armos_socket_channel_notify(<<c, 0>>)]
  /\ UNCHANGED <<state, holders, freed, files, sends, pollvars>>

-----------------------------------------------------------------------------
(* The loop of accept(), read() and write(): read the generation, scan     *)
(* under the lock, wait.                                                   *)
Call(p, o) ==
  /\ At(p, "user")
  /\ \/ o = "accept" /\ p \in holders /\ proc[p].socket = NoSocket
     \/ o = "read" /\ p \in Receivers /\ proc[p].socket # NoSocket
  /\ \E n \in 1 .. (IF o = "read" THEN MaxCount ELSE 1) :
       proc' = [proc EXCEPT ![p].pc = "gen", ![p].op = o, ![p].want = n]
  /\ UNCHANGED <<listening, channels, files, sends, pollvars>>

\* sendmsg(): the control message takes a reference to the file.
CallWrite(p) ==
  /\ At(p, "user") /\ proc[p].socket # NoSocket
  /\ p \in Senders /\ sends < MaxSends
  /\ sends' = sends + 1
  /\ \E n \in 1 .. MaxCount, with \in BOOLEAN :
       /\ proc' = [proc EXCEPT ![p].pc = "gen", ![p].op = "write", ![p].want = n,
                               ![p].control = with]
       /\ held' = IF with THEN held + 1 ELSE held
  /\ UNCHANGED <<listening, channels, installed, pollvars>>

Generation(p) ==
  /\ At(p, "gen")
  /\ task_poll_generation(p)
  /\ Goto(p, "scan")
  /\ UNCHANGED <<listening, channels, files, sends>>

\* What a call does when it can do no more: sendmsg() frees its control message.
Finish(p) == IF proc[p].op = "write" THEN Goto(p, "drop") ELSE Return(p)

Wait(p) ==
  LET key == IF proc[p].op = "accept" THEN listener ELSE proc[p].socket IN
  /\ At(p, "wait")
  /\ \/ PollStale(p, FALSE) /\ Goto(p, "gen") /\ UNCHANGED pollvars
     \/ PollInterrupted(p, FALSE) /\ Finish(p) /\ UNCHANGED pollvars
     \/ PollSleep(p, {key}, FALSE) /\ Goto(p, "asleep")
  /\ UNCHANGED <<listening, channels, files, sends>>

Resume(p) ==
  /\ At(p, "asleep")
  /\ PollResume(p)
  /\ IF p \in pending THEN Finish(p) ELSE Goto(p, "gen")
  /\ UNCHANGED <<listening, channels, files, sends>>

armos_socket_accept(p) ==
  /\ At(p, "scan") /\ proc[p].op = "accept"
  /\ \/ state # "LISTENING" /\ Return(p) /\ UNCHANGED accept
     \/ /\ state = "LISTENING" /\ accept # <<>>
        /\ accept' = Tail(accept)
        /\ proc' = [proc EXCEPT ![p].socket = <<Head(accept), 1>>, ![p].pc = "notify",
                                ![p].notify = <<Fixed(listener)>>, ![p].then = "install"]
     \/ state = "LISTENING" /\ accept = <<>> /\ Goto(p, "wait") /\ UNCHANGED accept
  /\ UNCHANGED <<state, holders, channels, files, sends, pollvars>>

\* A descriptor for it, or none is left.
Install(p) ==
  /\ At(p, "install")
  /\ \/ Return(p)
     \/ proc' = [proc EXCEPT ![p] = [Idle EXCEPT !.victim = proc[p].socket, !.pc = "destroy"]]
  /\ UNCHANGED <<listening, channels, files, sends, pollvars>>

-----------------------------------------------------------------------------
Least(a, b) == IF a < b THEN a ELSE b

\* The control messages that were sent with bytes before offset upto.
armos_socket_detach_control_locked(s, upto) ==
  SelectSeq(side[s].control, LAMBDA o : o < upto)

(* The bytes there are, and the control messages sent with them. *)
armos_socket_channel_read(p) ==
  LET s == proc[p].socket
      k == Least(proc[p].want, Len(side[s].data))
      upto == side[s].read_sequence + k
      detached == armos_socket_detach_control_locked(s, upto)
  IN
  /\ At(p, "scan") /\ proc[p].op = "read"
  /\ \/ /\ \/ side[s].read_closed
           \/ k = 0 /\ side[Other(s)].write_closed
        /\ Return(p)
        /\ UNCHANGED side
     \/ /\ ~side[s].read_closed /\ k > 0
        /\ side' = [side EXCEPT ![s].data = SubSeq(@, k + 1, Len(@)),
                                ![s].read_sequence = upto,
                                ![s].control = SubSeq(@, Len(detached) + 1, Len(@))]
        /\ proc' = [proc EXCEPT ![p].hand = Len(detached), ![p].pc = "notify",
                      ![p].notify = armos_socket_channel_notify(s), ![p].then = "take"]
     \/ /\ ~side[s].read_closed /\ k = 0 /\ ~side[Other(s)].write_closed
        /\ Goto(p, "wait")
        /\ UNCHANGED side
  /\ UNCHANGED <<listening, refs, freed, files, sends, pollvars>>

(* armos_socket_receive_message: descriptors for the files, as far as      *)
(* there is room for them and the copies to user space succeed; the rest   *)
(* is closed.                                                              *)
Take(p) ==
  /\ At(p, "take")
  /\ \E n \in 0 .. proc[p].hand :
       /\ installed' = installed + n
       /\ held' = held - (proc[p].hand - n)
  /\ Return(p)
  /\ UNCHANGED <<listening, channels, sends, pollvars>>

(* Mutant: the control message is queued although no byte of its message   *)
(* fits yet.                                                               *)
Attaches_Early(p, room) == proc[p].control

Attaches(p, room) == proc[p].control /\ room > 0

(* As many bytes as fit.  It notifies when it has moved a byte in this     *)
(* pass or an earlier one, and then its own generation is stale.           *)
armos_socket_channel_write(p) ==
  LET s == proc[p].socket
      t == Other(s)
      room == ARMOS_SOCKET_BUFFER_SIZE - Len(side[t].data)
      k == Least(proc[p].want - proc[p].done, room)
      done == proc[p].done + k
      broken == side[s].write_closed \/ side[t].read_closed
      full == proc[p].control /\ Len(side[t].control) >= ARMOS_SOCKET_CONTROL_MAX
      attach == Attaches(p, room)
      bytes == [i \in 1 .. k |-> attach /\ i = 1]
  IN
  /\ At(p, "scan") /\ proc[p].op = "write"
  /\ \/ broken /\ Goto(p, "drop") /\ UNCHANGED side
     \/ ~broken /\ full /\ Goto(p, "wait") /\ UNCHANGED side
     \/ /\ ~broken /\ ~full
        /\ side' = [side EXCEPT ![t].data = @ \o bytes,
                      ![t].write_sequence = @ + k,
                      ![t].control = IF attach THEN Append(@, side[t].write_sequence) ELSE @]
        /\ proc' = [proc EXCEPT ![p].done = done, ![p].control = @ /\ ~attach,
                      ![p].notify = IF done > 0 THEN armos_socket_channel_notify(s) ELSE <<>>,
                      ![p].then = IF done = proc[p].want THEN "drop" ELSE "wait",
                      ![p].pc = IF done > 0 THEN "notify" ELSE "wait"]
  /\ UNCHANGED <<listening, refs, freed, files, sends, pollvars>>

\* A control message that was not queued gives its reference back.
Drop(p) ==
  /\ At(p, "drop")
  /\ held' = IF proc[p].control THEN held - 1 ELSE held
  /\ Return(p)
  /\ UNCHANGED <<listening, channels, installed, sends, pollvars>>

-----------------------------------------------------------------------------
\* A side that will not be read any more has no control messages.
Discarded(d, read) ==
  [d EXCEPT !.read_closed = @ \/ read, !.control = IF read THEN <<>> ELSE @]

armos_socket_shutdown(p, read, write) ==
  LET s == proc[p].socket IN
  /\ At(p, "user") /\ s # NoSocket
  /\ side' = [side EXCEPT ![s] = [Discarded(side[s], read) EXCEPT !.write_closed = @ \/ write]]
  /\ proc' = [proc EXCEPT ![p].hand = IF read THEN Len(side[s].control) ELSE 0,
                ![p].pc = "notify", ![p].notify = armos_socket_channel_notify(s),
                ![p].then = "discard"]
  /\ UNCHANGED <<listening, refs, freed, files, sends, pollvars>>

Discard(p) ==
  /\ At(p, "discard")
  /\ held' = held - proc[p].hand
  /\ Return(p)
  /\ UNCHANGED <<listening, channels, installed, sends, pollvars>>

\* close() of a connected socket.
Close(p) ==
  /\ At(p, "user") /\ proc[p].socket # NoSocket
  /\ proc' = [proc EXCEPT ![p] = [Idle EXCEPT !.victim = proc[p].socket, !.pc = "destroy"]]
  /\ UNCHANGED <<listening, channels, files, sends, pollvars>>

(* close() of the listening socket; the last one closes its connections    *)
(* that nobody accepted.                                                   *)
CloseListener(p) ==
  /\ At(p, "user") /\ p \in holders
  /\ holders' = holders \ {p}
  /\ IF holders = {p}
       THEN /\ state' = "CLOSED"
            /\ accept' = <<>>
            /\ proc' = [proc EXCEPT ![p].doomed = accept, ![p].pc = "notify",
                                    ![p].notify = <<Fixed(listener)>>, ![p].then = "doomed"]
       ELSE UNCHANGED <<state, accept, proc>>
  /\ UNCHANGED <<channels, files, sends, pollvars>>

NextDoomed(p) ==
  /\ At(p, "doomed")
  /\ IF proc[p].doomed = <<>>
       THEN Return(p)
       ELSE proc' = [proc EXCEPT ![p].victim = <<Head(proc[p].doomed), 1>>,
                                 ![p].doomed = Tail(@), ![p].pc = "destroy"]
  /\ UNCHANGED <<listening, channels, files, sends, pollvars>>

(* Mutant: the peer is not told. *)
DestroyKeys_Own(s) == <<Fixed(s)>>

DestroyKeys(s) ==
  <<Fixed(s)>> \o IF side[Other(s)].endpoint THEN <<Fixed(Other(s))>> ELSE <<>>

(* The locked part: the side is closed both ways, and the peer's key noted *)
(* for the wake-up.                                                        *)
armos_socket_destroy(p) ==
  LET s == proc[p].victim IN
  /\ At(p, "destroy")
  /\ side' = [side EXCEPT ![s] = [Discarded(@, TRUE) EXCEPT !.write_closed = TRUE,
                                                            !.endpoint = FALSE]]
  /\ refs' = [refs EXCEPT ![s[1]] = @ - 1]
  /\ proc' = [proc EXCEPT ![p].hand = Len(side[s].control), ![p].pc = "notify",
                ![p].notify = DestroyKeys(s),
                ![p].then = IF refs[s[1]] = 1 THEN "free" ELSE "destroyed"]
  /\ UNCHANGED <<listening, freed, files, sends, pollvars>>

(* The rest: control messages are freed, and with the second side the      *)
(* channel and what is left in it.                                         *)
Destroyed(p) ==
  LET s == proc[p].victim
      last == At(p, "free")
  IN
  /\ At(p, "free") \/ At(p, "destroyed")
  /\ held' = held - proc[p].hand - (IF last THEN Len(side[Other(s)].control) ELSE 0)
  /\ freed' = IF last THEN freed \cup {s[1]} ELSE freed
  /\ side' = IF last THEN [side EXCEPT ![Other(s)].control = <<>>] ELSE side
  /\ proc' = [proc EXCEPT ![p].hand = 0, ![p].victim = NoSocket, ![p].pc = "doomed"]
  /\ UNCHANGED <<listening, refs, installed, sends, pollvars>>

-----------------------------------------------------------------------------
Signal(p) ==
  /\ p \in Signalled
  /\ send_signal(p)
  /\ UNCHANGED <<listening, channels, proc, files, sends>>

SignalWake(p) ==
  /\ wake_up_process_for_signal(p)
  /\ UNCHANGED <<listening, channels, proc, files, sends>>

Deliver(p) ==
  /\ At(p, "user")
  /\ check_pending_signals(p)
  /\ UNCHANGED <<listening, channels, proc, files, sends>>

Next == \E p \in Procs :
  \/ Notify(p) \/ Generation(p) \/ Wait(p) \/ Resume(p)
  \/ armos_socket_bind(p) \/ armos_socket_listen(p) \/ armos_socket_connect(p)
  \/ Call(p, "accept") \/ Call(p, "read") \/ CallWrite(p)
  \/ armos_socket_accept(p) \/ Install(p)
  \/ armos_socket_channel_read(p) \/ Take(p)
  \/ armos_socket_channel_write(p) \/ Drop(p)
  \/ \E how \in {<<TRUE, FALSE>>, <<FALSE, TRUE>>, <<TRUE, TRUE>>} :
       armos_socket_shutdown(p, how[1], how[2])
  \/ Discard(p)
  \/ Close(p) \/ CloseListener(p) \/ NextDoomed(p) \/ armos_socket_destroy(p) \/ Destroyed(p)
  \/ Signal(p) \/ SignalWake(p) \/ Deliver(p)

Spec == Init /\ [][Next]_vars

-----------------------------------------------------------------------------
TypeOK ==
  /\ PollTypeOK
  /\ state \in {"CREATED", "BOUND", "LISTENING", "CLOSED"}
  /\ holders \subseteq Acceptors
  /\ Len(accept) <= Backlog
  /\ \A s \in Sockets :
       /\ Len(side[s].data) <= ARMOS_SOCKET_BUFFER_SIZE
       /\ Len(side[s].control) <= ARMOS_SOCKET_CONTROL_MAX
       /\ side[s].write_sequence = side[s].read_sequence + Len(side[s].data)
  /\ refs \in [Clients -> 0 .. 2]
  /\ freed \subseteq Clients
  /\ {held, installed, sends} \subseteq 0 .. MaxSends

(* What keeps p from going on. *)
Blocked(p) ==
  LET s == proc[p].socket
      t == Other(s)
  IN
  \/ proc[p].op = "accept" /\ state = "LISTENING" /\ accept = <<>>
  \/ /\ proc[p].op = "read"
     /\ side[s].data = <<>> /\ ~side[s].read_closed /\ ~side[t].write_closed
  \/ /\ proc[p].op = "write"
     /\ ~side[s].write_closed /\ ~side[t].read_closed
     /\ \/ Len(side[t].data) = ARMOS_SOCKET_BUFFER_SIZE
        \/ proc[p].control /\ Len(side[t].control) >= ARMOS_SOCKET_CONTROL_MAX

Notifying(k) == \E q \in Procs : \E i \in DOMAIN proc[q].notify : proc[q].notify[i].key = k

(* Who sleeps in accept(), read() or write() of a local socket has nothing *)
(* to accept, to read or room to write, and nobody has closed the other    *)
(* end; or the one who changed that is about to notify this very socket.   *)
(* The keys come from endpoint[], which closing sockets clear.             *)
SocketSleepers ==
  /\ \A p \in sleeping : Blocked(p) \/ \E k \in keys[p] : Notifying(k)
  /\ SignalNotLost

(* No file passed over a socket is leaked or closed twice: every reference *)
(* that sendmsg() took is with one sender, one receiver or in one queue,   *)
(* whatever is shut down, closed, refused or interrupted on the way.  And  *)
(* the files wait for the byte they were sent with: armos_socket.c relates *)
(* the two by stream offsets only.                                         *)
RightsKept ==
  /\ held = installed
            + Cardinality({p \in Procs : proc[p].control})
            + SumFunction([p \in Procs |-> proc[p].hand])
            + SumFunction([s \in Sockets |-> Len(side[s].control)])
  /\ \A s \in Sockets : ~side[s].read_closed =>
       {side[s].control[i] : i \in DOMAIN side[s].control} =
       {side[s].read_sequence + i - 1 : i \in {j \in DOMAIN side[s].data : side[s].data[j]}}

(* A channel that was freed is out of everybody's reach: no socket has it, *)
(* nobody has to close, free or look up anything in it any more.           *)
ChannelLive == \A c \in freed :
  /\ refs[c] = 0
  /\ \A p \in Procs :
       /\ proc[p].socket \notin {<<c, 0>>, <<c, 1>>}
       /\ At(p, "destroy") \/ "free" \in {proc[p].pc, proc[p].then} => proc[p].victim \notin {<<c, 0>>, <<c, 1>>}
       /\ \A i \in DOMAIN proc[p].notify :
            proc[p].notify[i].looked_up => proc[p].notify[i].key[1] # c
=============================================================================
