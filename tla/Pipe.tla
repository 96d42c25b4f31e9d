-------------------------------- MODULE Pipe --------------------------------
(***************************************************************************)
(* Anonymous pipes: pipe_read(), pipe_write() and pipe_close() of          *)
(* kernel/syscalls/process_syscalls.c, on top of PollWait.                 *)
(*                                                                         *)
(* sys_pipe() makes one buffer and two open files, which fork() shares:    *)
(* every process of Readers holds a reference to the read file, every      *)
(* process of Writers one to the write file.  The buffer's own lock makes  *)
(* the scan of a read or a write one step; the notification that follows   *)
(* it is another critical section, hence another step.  A write() larger   *)
(* than the bounce buffer is a sequence of pipe_write() calls.             *)
(***************************************************************************)
EXTENDS PollWait, Sequences

CONSTANTS Readers, Writers,   \* processes sharing the read and the write file
          NonBlocking,        \* processes whose file is O_NONBLOCK
          PIPE_BUF_SIZE,      \* 4096 in the code
          Byte,               \* byte values
          MaxCount,           \* bound: largest count of one call
          Signalled,          \* bound: processes somebody sends signals to
          buffer              \* the key of this pipe

ASSUME PipeAssumption ==
  /\ PIPE_BUF_SIZE \in Nat \ {0}
  /\ MaxCount \in Nat \ {0}
  /\ Byte # {}
  /\ Procs = Readers \cup Writers
  /\ Readers \cap Writers = {}
  /\ NonBlocking \subseteq Procs
  /\ Signalled \subseteq Procs
  /\ buffer \in Keys

VARIABLES
  data, read_pos, write_pos, count,  \* struct pipe_buffer: the ring
  readers, writers,                  \* struct pipe_buffer: open files per end
  freed,                             \* the buffer was kfree()d
  refs,                              \* processes holding their file reference
  pc, want, done,                    \* per process: where, count, bytes so far
  got,                               \* the bytes the latest read returned
  eof                                \* some read returned 0

ring == <<data, read_pos, write_pos, count>>
ends == <<readers, writers, freed, refs>>
local == <<pc, want, done>>
seen == <<got, eof>>
vars == <<ring, ends, local, seen, pollvars>>

Pcs == {"user",    \* outside the pipe code
        "gen",     \* top of the read/write loop
        "scan",    \* generation read, about to take buffer->lock
        "notify",  \* bytes moved, about to notify
        "wait",    \* about to call pipe_wait_interruptible()
        "asleep",  \* in task_poll_wait() after the sleep was published
        "close",   \* last reference dropped, about to run pipe_close()
        "bye", "byefree", \* pipe_close() released the lock; byefree: last end
        "free",    \* notified, about to free the buffer
        "gone"}    \* descriptor closed

InCall == {"gen", "scan", "notify", "wait", "asleep"}

TypeOK ==
  /\ PollTypeOK
  /\ data \in [0..(PIPE_BUF_SIZE - 1) -> Byte]
  /\ read_pos \in 0..(PIPE_BUF_SIZE - 1)
  /\ write_pos \in 0..(PIPE_BUF_SIZE - 1)
  /\ count \in 0..PIPE_BUF_SIZE
  /\ readers \in 0..1 /\ writers \in 0..1
  /\ freed \in BOOLEAN
  /\ refs \subseteq Procs
  /\ pc \in [Procs -> Pcs]
  /\ want \in [Procs -> 0..MaxCount]
  /\ done \in [Procs -> 0..MaxCount]
  /\ got \in Seq(Byte)
  /\ eof \in BOOLEAN

(* After sys_pipe() and the forks that share its descriptors. *)
Init ==
  /\ PollInit
  /\ data \in [0..(PIPE_BUF_SIZE - 1) -> {CHOOSE b \in Byte : TRUE}]
  /\ read_pos = 0 /\ write_pos = 0 /\ count = 0
  /\ readers = 1 /\ writers = 1
  /\ freed = FALSE
  /\ refs = Procs
  /\ pc = [p \in Procs |-> "user"]
  /\ want = [p \in Procs |-> 0]
  /\ done = [p \in Procs |-> 0]
  /\ got = <<>>
  /\ eof = FALSE

Goto(p, l) == pc' = [pc EXCEPT ![p] = l]

(* p's call is over: back to user mode.  The local variables of the call   *)
(* are dead and reset.                                                     *)
Return(p) ==
  /\ Goto(p, "user")
  /\ want' = [want EXCEPT ![p] = 0]
  /\ done' = [done EXCEPT ![p] = 0]

-----------------------------------------------------------------------------
(* read(fd, buf, n) or write(fd, buf, n); a count of 0 never gets here. *)
Start(p, n) ==
  /\ pc[p] = "user"
  /\ Goto(p, "gen")
  /\ want' = [want EXCEPT ![p] = n]
  /\ UNCHANGED <<done, ring, ends, seen, pollvars>>

Generation(p) ==
  /\ pc[p] = "gen"
  /\ task_poll_generation(p)
  /\ Goto(p, "scan")
  /\ UNCHANGED <<want, done, ring, ends, seen>>

(* Nothing moved: EAGAIN for a non-blocking file, else wait. *)
NothingMoved(p) ==
  \/ p \in NonBlocking /\ Return(p)
  \/ p \notin NonBlocking /\ Goto(p, "wait") /\ UNCHANGED <<want, done>>

(* The first k queued bytes, oldest first. *)
Oldest(k) == [i \in 1..k |-> data[(read_pos + i - 1) % PIPE_BUF_SIZE]]

Least(a, b) == IF a < b THEN a ELSE b

AtEof == count = 0 /\ writers = 0

(* Mutant: read_pos is advanced without the wrap at the end of the ring. *)
ReadScanNoWrap(p) ==
  /\ pc[p] = "scan"
  /\ ~AtEof /\ count > 0
  /\ LET k == Least(want[p], count) IN
     /\ got' = Oldest(k)
     /\ read_pos' = Least(read_pos + k, PIPE_BUF_SIZE - 1)
     /\ count' = count - k
     /\ done' = [done EXCEPT ![p] = k]
  /\ Goto(p, "notify")
  /\ UNCHANGED <<data, write_pos, want, ends, eof, pollvars>>

(* The read takes what there is, up to its count. *)
ReadScan(p) ==
  /\ pc[p] = "scan"
  /\ ~AtEof /\ count > 0
  /\ LET k == Least(want[p], count) IN
     /\ got' = Oldest(k)
     /\ read_pos' = (read_pos + k) % PIPE_BUF_SIZE
     /\ count' = count - k
     /\ done' = [done EXCEPT ![p] = k]
  /\ Goto(p, "notify")
  /\ UNCHANGED <<data, write_pos, want, ends, eof, pollvars>>

ReadEof(p) ==
  /\ pc[p] = "scan"
  /\ AtEof
  /\ eof' = TRUE
  /\ Return(p)
  /\ UNCHANGED <<ring, ends, got, pollvars>>

ReadEmpty(p) ==
  /\ pc[p] = "scan"
  /\ ~AtEof /\ count = 0
  /\ NothingMoved(p)
  /\ UNCHANGED <<ring, ends, seen, pollvars>>

(* No reader is left: the bytes written so far, or SIGPIPE and EPIPE. *)
WriteBroken(p) ==
  /\ pc[p] = "scan"
  /\ readers = 0
  /\ Return(p)
  /\ \/ done[p] = 0 /\ send_signal(p)
     \/ UNCHANGED pollvars   \* a partial count, or SIGPIPE is ignored
  /\ UNCHANGED <<ring, ends, seen>>

(* Mutant: one byte too many fits. *)
RoomOffByOne == PIPE_BUF_SIZE - count + 1

Room == PIPE_BUF_SIZE - count

(* The write fills the room there is, with any bytes.  It notifies when it *)
(* has moved a byte in this pass OR AN EARLIER ONE of the same call:       *)
(* bytes_written is cumulative.                                            *)
WriteScan(p) ==
  /\ pc[p] = "scan"
  /\ readers > 0
  /\ LET k == Least(want[p] - done[p], Room) IN
     \E s \in [1..k -> Byte] :
       /\ data' = [i \in DOMAIN data |->
                     LET j == ((i + PIPE_BUF_SIZE - write_pos) % PIPE_BUF_SIZE) + 1
                     IN  IF j <= k THEN s[j] ELSE data[i]]
       /\ write_pos' = (write_pos + k) % PIPE_BUF_SIZE
       /\ count' = count + k
       /\ IF done[p] + k > 0
            THEN /\ done' = [done EXCEPT ![p] = @ + k]
                 /\ Goto(p, "notify")
                 /\ UNCHANGED want
            ELSE NothingMoved(p)
  /\ UNCHANGED <<read_pos, ends, seen, pollvars>>

(* task_poll_notify_key(buffer), and what the call does after it. *)
Notify(p) ==
  /\ pc[p] = "notify"
  /\ task_poll_notify_key(buffer)
  /\ IF p \in Readers \/ done[p] >= want[p] \/ p \in NonBlocking
       THEN Return(p)
       ELSE Goto(p, "wait") /\ UNCHANGED <<want, done>>
  /\ UNCHANGED <<ring, ends, seen>>

(* pipe_wait_interruptible() up to the point where it returns or sleeps. *)
Wait(p) ==
  /\ pc[p] = "wait"
  /\ \/ /\ PollStale(p, FALSE)
        /\ Goto(p, "gen")
        /\ UNCHANGED <<want, done, pollvars>>
     \/ /\ PollInterrupted(p, FALSE)
        /\ Return(p)
        /\ UNCHANGED pollvars
     \/ /\ PollSleep(p, {buffer}, FALSE)
        /\ Goto(p, "asleep")
        /\ UNCHANGED <<want, done>>
  /\ UNCHANGED <<ring, ends, seen>>

(* The sleeper runs again: -EINTR (or the partial count), or another pass. *)
Resume(p) ==
  /\ pc[p] = "asleep"
  /\ PollResume(p)
  /\ IF p \in pending THEN Return(p)
                     ELSE Goto(p, "gen") /\ UNCHANGED <<want, done>>
  /\ UNCHANGED <<ring, ends, seen>>

-----------------------------------------------------------------------------
(* The processes sharing p's file. *)
Sharers(p) == IF p \in Readers THEN Readers ELSE Writers

(* close(fd), or exit: the reference count of the file goes down under     *)
(* file_ref_lock, and the last reference runs pipe_close().                *)
Close(p) ==
  /\ pc[p] = "user"
  /\ refs' = refs \ {p}
  /\ Goto(p, IF refs \cap Sharers(p) = {p} THEN "close" ELSE "gone")
  /\ UNCHANGED <<want, done, ring, readers, writers, freed, seen, pollvars>>

(* Mutant: the end that closes first frees the buffer. *)
FreesBufferEarly == readers' = 0 \/ writers' = 0

(* The buffer of an anonymous pipe goes with its last end. *)
FreesBuffer == readers' = 0 /\ writers' = 0

(* The locked part of pipe_close(). *)
CloseEnd(p) ==
  /\ pc[p] = "close"
  /\ readers' = IF p \in Readers THEN readers - 1 ELSE readers
  /\ writers' = IF p \in Writers THEN writers - 1 ELSE writers
  /\ Goto(p, IF FreesBuffer THEN "byefree" ELSE "bye")
  /\ UNCHANGED <<want, done, ring, freed, refs, seen, pollvars>>

CloseNotify(p) ==
  /\ pc[p] \in {"bye", "byefree"}
  /\ task_poll_notify_key(buffer)
  /\ Goto(p, IF pc[p] = "byefree" THEN "free" ELSE "gone")
  /\ UNCHANGED <<want, done, ring, ends, seen>>

CloseFree(p) ==
  /\ pc[p] = "free"
  /\ freed' = TRUE
  /\ Goto(p, "gone")
  /\ UNCHANGED <<want, done, ring, readers, writers, refs, seen, pollvars>>

-----------------------------------------------------------------------------
(* The rest of the system: signals for these processes, and notifications  *)
(* of other resources, which make every generation stale.                  *)
Signal(p) ==
  /\ p \in Signalled
  /\ pc[p] # "gone"
  /\ send_signal(p)
  /\ UNCHANGED <<ring, ends, local, seen>>

SignalWake(p) ==
  /\ wake_up_process_for_signal(p)
  /\ UNCHANGED <<ring, ends, local, seen>>

Deliver(p) ==
  /\ pc[p] \in {"user", "gone"}
  /\ check_pending_signals(p)
  /\ UNCHANGED <<ring, ends, local, seen>>

ForeignNotify ==
  /\ \E k \in Keys \ {buffer} : task_poll_notify_key(k)
  /\ UNCHANGED <<ring, ends, local, seen>>

Read(p) == ReadScan(p) \/ ReadEof(p) \/ ReadEmpty(p)
Write(p) == WriteBroken(p) \/ WriteScan(p)

(* The steps a process takes inside the kernel: its scheduling guarantees  *)
(* that they do not stop halfway.                                          *)
KernelStep(p) ==
  \/ Generation(p)
  \/ p \in Readers /\ Read(p)
  \/ p \in Writers /\ Write(p)
  \/ Notify(p) \/ Wait(p) \/ Resume(p)
  \/ CloseEnd(p) \/ CloseNotify(p) \/ CloseFree(p)

(* What user code decides: another call, or closing its descriptor. *)
UserStep(p) == Close(p) \/ \E n \in 1..MaxCount : Start(p, n)

Next ==
  \/ \E p \in Procs : KernelStep(p) \/ UserStep(p)
  \/ \E p \in Procs : Signal(p) \/ SignalWake(p) \/ Deliver(p)
  \/ ForeignNotify

Spec == Init /\ [][Next]_vars

(* A blocking writer that stored part of its data and found no room for the *)
(* rest notifies its own key in every pass, so its wait returns at once: it *)
(* goes round in the kernel until a reader makes room or closes, neither   *)
(* sleeping nor looking for signals, and kernel code is not preempted.     *)
Spinning(p) ==
  /\ p \in Writers \ NonBlocking
  /\ pc[p] \in InCall \ {"asleep"}
  /\ 0 < done[p] /\ done[p] < want[p]
  /\ count = PIPE_BUF_SIZE /\ readers > 0

(* A task that is READY is dispatched and runs (Scheduler's ReadyRuns), so *)
(* a process inside the kernel and a sender inside send_signal() go on, as *)
(* long as no spinning writer has the CPU they need.                       *)
KernelFair ==
  \A p \in Procs :
    /\ WF_vars(KernelStep(p) /\ \A w \in Procs \ {p} : ~Spinning(w))
    /\ WF_vars(SignalWake(p) /\ \A w \in Procs : ~Spinning(w))
FairSpec == Spec /\ KernelFair

(* There is a CPU for every process, so that a spinning writer stops none. *)
CpuForAll == \A p \in Procs : WF_vars(KernelStep(p)) /\ WF_vars(SignalWake(p))

(* Neither side of the pipe abandons it silently: a process in user mode   *)
(* makes another call or closes its descriptor.                            *)
Busy == \A p \in Procs : WF_vars(UserStep(p))

(* The other files do not change the generation again and again: a process *)
(* whose every pass meets a notification never gets as far as the sleep.   *)
Undisturbed == <>[][~ForeignNotify]_vars

-----------------------------------------------------------------------------
(* The condition on which p's call waits. *)
Blocked(p) ==
  IF p \in Readers THEN count = 0 /\ writers > 0
                   ELSE count = PIPE_BUF_SIZE /\ readers > 0

Notifying == {q \in Procs : pc[q] \in {"notify", "bye", "byefree"}}

(* No lost wake-up: while a process sleeps in the pipe, either what it     *)
(* waits for has not happened (still empty with a writer, still full with  *)
(* a reader), or whoever made it happen is about to notify.  pipe_read()   *)
(* and pipe_write() scan under buffer->lock and sleep under task_lock,     *)
(* with only the generation to tie the two.                                *)
NoLostWakeup == \A p \in sleeping : Blocked(p) \/ Notifying # {}

(* A process asleep in a pipe waits for something that has not happened,   *)
(* or will be notified; and it has no signal that would end its call.      *)
PipeSleepers == NoLostWakeup /\ SignalNotLost

(* The buffer outlives every use: after pipe_close() frees it no process   *)
(* is inside a call, or has a close to run, that would touch it; and it is *)
(* freed by one closer only.                                               *)
BufferLive ==
  /\ freed => \A p \in Procs : pc[p] \in {"bye", "gone"}
  /\ \A p, q \in Procs : pc[p] \in {"byefree", "free"} /\ pc[q] \in {"byefree", "free"} => p = q

(* The pipe is a queue: what readers get is what writers put, in order,    *)
(* and end of file is final.                                               *)
Queue == INSTANCE ByteQueue WITH
           Bound <- PIPE_BUF_SIZE,
           q     <- Oldest(count),
           open  <- writers > 0
QueueSpec == Queue!Spec

(* With a partner that keeps calling or closes, every read() and write()   *)
(* returns once the other files leave it alone, or one writer spins for    *)
(* ever and keeps the reader from the only CPU.                            *)
CallsReturn ==
  Busy /\ Undisturbed =>
    \/ \A p \in Procs : pc[p] = "gen" ~> pc[p] = "user"
    \/ ~CpuForAll /\ \E w \in Writers : <>[]Spinning(w)

(* A signal ends a blocked call whether or not the other end ever does     *)
(* anything, unless a writer spins for ever: that writer itself does not   *)
(* see its signal, and on one CPU nobody else sees theirs.                 *)
CallsKillable ==
  Undisturbed =>
    \/ \A p \in Procs : pc[p] \in InCall /\ p \in pending ~> pc[p] = "user"
    \/ \E w \in Writers : <>[]Spinning(w)

(* A signal ends a blocked write(), whether or not a reader ever reads:    *)
(* docs/FREEBSD_SH_PORTING.md asks that no child remains unkillable after  *)
(* an interrupted pipeline.                                                *)
(* Does not hold (README, Deviations).                                     *)
WriteKillable ==
  Undisturbed => \A p \in Writers : pc[p] \in InCall /\ p \in pending ~> pc[p] = "user"
=============================================================================
