---------------------------- MODULE VirtioBlock ----------------------------
(***************************************************************************)
(* The block driver, kernel/drivers/virtio_block.c: one request at a time, *)
(* in three fixed descriptors, waited for by polling the used index, by    *)
(* the completion interrupt, and by a timeout.  The interrupt may be taken *)
(* on any CPU, and the device may answer late or never; after a timeout it *)
(* still owns the request's buffers, so the driver refuses all requests    *)
(* from then on and never frees them.                                      *)
(*                                                                         *)
(* Reads, writes and flushes differ only in what the buffers hold.  A      *)
(* request is known by its number; its buffers are allocated for it alone. *)
(***************************************************************************)
EXTENDS Naturals, FiniteSets

CONSTANTS Tasks, NoTask,
          MaxRequests,   \* bound on the requests of a behaviour
          IndexSize,     \* 2^16: ring indices are 16 bits wide
          FirstIndex     \* avail and used index at the start

VirtioAssumption ==
  /\ NoTask \notin Tasks
  /\ MaxRequests \in Nat
  /\ IndexSize \in Nat \ {0, 1}
  /\ FirstIndex \in 0 .. IndexSize - 1

Requests == 1 .. MaxRequests
NoRequest == 0
Idx(n) == n % IndexSize

VARIABLES
  virtio_blk_owner,   \* NoTask: virtio_blk_busy is false
  virtio_blk_failed,
  blk_pending,        \* virtio_blk_pending
  last_used_idx,
  desc,               \* the request the descriptors describe
  avail, used,        \* indices of the rings
  status,             \* status byte of each request's buffer
  freed,              \* requests whose buffers went back to the allocator
  device,             \* requests the device has fetched and not finished
  interrupt,          \* the line is raised
  needs_reset,        \* DEVICE_NEEDS_RESET in the device's status register
  handler,            \* the interrupt handler: where it is, what it has read
  state, pc, req,     \* of each task: task->state, program counter, request
  late,               \* the time of the request is over
  result,             \* what the request's call returned
  issued

driver == <<virtio_blk_owner, virtio_blk_failed, blk_pending, last_used_idx>>
rings == <<desc, avail, used, status, device, interrupt, needs_reset>>
tasks == <<state, pc, req, late, result, issued>>
vars == <<driver, rings, freed, handler, tasks>>

NotWaiting == [active |-> FALSE, completed |-> FALSE, prev_used_idx |-> 0, waiter |-> NoTask]
NoHandler == [at |-> "none", prev |-> 0, wakes |-> NoTask]

Init ==
  /\ virtio_blk_owner = NoTask
  /\ virtio_blk_failed = FALSE
  /\ blk_pending = NotWaiting
  /\ last_used_idx = FirstIndex
  /\ desc = NoRequest
  /\ avail = FirstIndex
  /\ used = FirstIndex
  /\ status = [r \in Requests |-> "none"]
  /\ freed = {}
  /\ device = {}
  /\ interrupt = FALSE
  /\ needs_reset = FALSE
  /\ handler = NoHandler
  /\ state = [t \in Tasks |-> "RUNNING"]
  /\ pc = [t \in Tasks |-> "out"]
  /\ req = [t \in Tasks |-> NoRequest]
  /\ late = {}
  /\ result = [r \in Requests |-> "none"]
  /\ issued = 0

Goto(t, l) == pc' = [pc EXCEPT ![t] = l]

-----------------------------------------------------------------------------
\* A caller of virtio_blk_read_sectors, write_sectors or flush.
Call(t) ==
  /\ pc[t] = "out"
  /\ issued < MaxRequests
  /\ issued' = issued + 1
  /\ req' = [req EXCEPT ![t] = issued']
  /\ Goto(t, "acquire")
  /\ UNCHANGED <<driver, rings, freed, handler, state, late, result>>

\* virtio_blk_acquire: yield() until nobody else is busy.
Acquire(t) ==
  /\ pc[t] = "acquire"
  /\ virtio_blk_owner = NoTask
  /\ virtio_blk_owner' = t
  /\ Goto(t, "submit")
  /\ UNCHANGED <<virtio_blk_failed, blk_pending, last_used_idx, rings, freed, handler,
                 state, req, late, result, issued>>

\* Return value r of the call, after the buffers were freed or not.
Release(t, r) ==
  /\ virtio_blk_owner' = NoTask
  /\ result' = [result EXCEPT ![req[t]] = r]
  /\ Goto(t, "out")

(* Not on a failed device, nor on one that needs a reset, which fails it;  *)
(* otherwise allocate the buffers and fill the descriptors.                *)
Submit(t) ==
  /\ pc[t] = "submit"
  /\ virtio_blk_failed' = (virtio_blk_failed \/ needs_reset)
  /\ \/ /\ virtio_blk_failed'
        /\ Release(t, "failed")
        /\ UNCHANGED <<desc, status>>
     \/ /\ ~virtio_blk_failed'
        /\ desc' = req[t]
        /\ status' = [status EXCEPT ![req[t]] = "0xFF"]
        /\ Goto(t, "prepare")
        /\ UNCHANGED <<virtio_blk_owner, result>>
  /\ UNCHANGED <<blk_pending, last_used_idx, avail, used, device, interrupt, needs_reset,
                 freed, handler, state, req, late, issued>>

\* virtio_blk_prepare_wait, before the device learns of the request.
Prepare(t) ==
  /\ pc[t] = "prepare"
  /\ blk_pending' = [active |-> TRUE, completed |-> FALSE,
                     prev_used_idx |-> last_used_idx, waiter |-> t]
  /\ Goto(t, "publish")
  /\ UNCHANGED <<virtio_blk_owner, virtio_blk_failed, last_used_idx, rings, freed, handler,
                 state, req, late, result, issued>>

Publish(t) ==
  /\ pc[t] = "publish"
  /\ avail' = Idx(avail + 1)
  /\ Goto(t, "poll")
  /\ UNCHANGED <<driver, desc, used, status, device, interrupt, needs_reset, freed, handler,
                 state, req, late, result, issued>>

-----------------------------------------------------------------------------
\* Two looks at the completion: the flag, under the lock, then the ring.
Completed == blk_pending.completed \/ used # last_used_idx

\* wait_for_used: done, out of time, or on to the sleep after some spinning.
Poll(t) ==
  /\ pc[t] = "poll"
  /\ \/ Completed /\ Goto(t, "finish")
     \/ ~Completed /\ t \in late /\ Goto(t, "giveup")
     \/ ~Completed /\ t \notin late /\ Goto(t, "look")
  /\ UNCHANGED <<driver, rings, freed, handler, state, req, late, result, issued>>

\* With this CPU's interrupts off.
LastLook(t) ==
  /\ pc[t] = "look"
  /\ IF Completed THEN Goto(t, "finish") ELSE Goto(t, "sleep")
  /\ UNCHANGED <<driver, rings, freed, handler, state, req, late, result, issued>>

Sleep(t) ==
  /\ pc[t] = "sleep"
  /\ state' = [state EXCEPT ![t] = "UNINTERRUPTIBLE"]
  /\ Goto(t, "asleep")
  /\ UNCHANGED <<driver, rings, freed, handler, req, late, result, issued>>

Resume(t) ==
  /\ pc[t] = "asleep"
  /\ state[t] = "READY"
  /\ state' = [state EXCEPT ![t] = "RUNNING"]
  /\ Goto(t, "poll")
  /\ UNCHANGED <<driver, rings, freed, handler, req, late, result, issued>>

\* Mutant: the sleep has no deadline.
SleepDeadline_Missing(t) ==
  /\ state[t] = "UNINTERRUPTIBLE"
  /\ FALSE
  /\ UNCHANGED vars

\* wake_deadline, two ticks away, is over.
SleepDeadline(t) ==
  /\ state[t] = "UNINTERRUPTIBLE"
  /\ state' = [state EXCEPT ![t] = "READY"]
  /\ UNCHANGED <<driver, rings, freed, handler, pc, req, late, result, issued>>

\* timeout_ms have passed since the request was published.
Expire(t) ==
  /\ pc[t] \in {"poll", "look", "sleep", "asleep"}
  /\ t \notin late
  /\ late' = late \cup {t}
  /\ UNCHANGED <<driver, rings, freed, handler, state, pc, req, result, issued>>

\* virtio_blk_finish_wait, on both ways out of wait_for_used.
FinishWait(t) ==
  /\ pc[t] \in {"finish", "giveup"}
  /\ blk_pending' = NotWaiting
  /\ late' = late \ {t}
  /\ Goto(t, IF pc[t] = "finish" THEN "check" ELSE "fail")
  /\ UNCHANGED <<virtio_blk_owner, virtio_blk_failed, last_used_idx, rings, freed, handler,
                 state, req, result, issued>>

\* Mutant: a timeout fails the request, not the device.
MarkFailed_Request(t) ==
  /\ pc[t] = "fail"
  /\ freed' = freed \cup {req[t]}
  /\ Release(t, "timeout")
  /\ UNCHANGED <<virtio_blk_failed, blk_pending, last_used_idx, rings, handler,
                 state, req, late, issued>>

\* The device may still write to the buffers: they are not freed.
MarkFailed(t) ==
  /\ pc[t] = "fail"
  /\ virtio_blk_failed' = TRUE
  /\ Release(t, "timeout")
  /\ UNCHANGED <<blk_pending, last_used_idx, rings, freed, handler, state, req, late, issued>>

(* Exactly one more used element must be there; then the status counts,   *)
(* and the buffers are freed whatever it is.                               *)
Check(t) ==
  LET one == used = Idx(last_used_idx + 1) IN
  /\ pc[t] = "check"
  /\ virtio_blk_failed' = (virtio_blk_failed \/ ~one)
  /\ last_used_idx' = IF one THEN used ELSE last_used_idx
  /\ interrupt' = (interrupt /\ ~one)
  /\ freed' = IF one THEN freed \cup {req[t]} ELSE freed
  /\ Release(t, IF ~one THEN "unexpected" ELSE IF status[req[t]] = "ok" THEN "ok" ELSE "error")
  /\ UNCHANGED <<blk_pending, desc, avail, used, status, device, needs_reset, handler,
                 state, req, late, issued>>

-----------------------------------------------------------------------------
(* The device takes the next available chain and reads the descriptors as  *)
(* they are then; later it writes the answer and raises the interrupt.     *)
Fetch ==
  /\ used # avail
  /\ device = {}
  /\ device' = {desc}
  /\ UNCHANGED <<driver, desc, avail, used, status, interrupt, needs_reset, freed, handler,
                 tasks>>

Answer ==
  /\ \E r \in device, s \in {"ok", "error"} : status' = [status EXCEPT ![r] = s]
  /\ device' = {}
  /\ used' = Idx(used + 1)
  /\ interrupt' = TRUE
  /\ UNCHANGED <<driver, desc, avail, needs_reset, freed, handler, tasks>>

Break ==
  /\ ~needs_reset
  /\ needs_reset' = TRUE
  /\ UNCHANGED <<driver, desc, avail, used, status, device, interrupt, freed, handler, tasks>>

(* virtio_block_irq_handler: acknowledge, see which request is waited for, *)
(* look at the ring without the lock, then publish the completion if it is *)
(* still the same request, and wake its waiter.                            *)
HandlerStarts ==
  /\ interrupt
  /\ handler.at = "none"
  /\ interrupt' = FALSE
  /\ handler' = IF blk_pending.active
                THEN [at |-> "look", prev |-> blk_pending.prev_used_idx, wakes |-> NoTask]
                ELSE NoHandler
  /\ UNCHANGED <<driver, desc, avail, used, status, device, needs_reset, freed, tasks>>

HandlerLooks ==
  /\ handler.at = "look"
  /\ handler' = IF used = handler.prev THEN NoHandler ELSE [handler EXCEPT !.at = "publish"]
  /\ UNCHANGED <<driver, rings, freed, tasks>>

\* Mutant: whatever is waited for now is taken to be complete.
HandlerPublishes_Unchecked ==
  /\ handler.at = "publish"
  /\ blk_pending' = [blk_pending EXCEPT !.completed = @ \/ blk_pending.active]
  /\ handler' = [handler EXCEPT !.at = "wake", !.wakes = blk_pending.waiter]
  /\ UNCHANGED <<virtio_blk_owner, virtio_blk_failed, last_used_idx, rings, freed, tasks>>

HandlerPublishes ==
  LET same == blk_pending.active /\ blk_pending.prev_used_idx = handler.prev
      wakes == same /\ state[blk_pending.waiter] = "UNINTERRUPTIBLE"
  IN
  /\ handler.at = "publish"
  /\ blk_pending' = [blk_pending EXCEPT !.completed = @ \/ same]
  /\ handler' = IF wakes THEN [handler EXCEPT !.at = "wake", !.wakes = blk_pending.waiter]
                ELSE NoHandler
  /\ UNCHANGED <<virtio_blk_owner, virtio_blk_failed, last_used_idx, rings, freed, tasks>>

HandlerWakes ==
  /\ handler.at = "wake"
  /\ state' = [t \in Tasks |->
       IF t = handler.wakes /\ state[t] = "UNINTERRUPTIBLE" THEN "READY" ELSE state[t]]
  /\ handler' = NoHandler
  /\ UNCHANGED <<driver, rings, freed, pc, req, late, result, issued>>

Step(t) ==
  \/ Acquire(t)
  \/ Submit(t)
  \/ Prepare(t)
  \/ Publish(t)
  \/ Poll(t)
  \/ LastLook(t)
  \/ Sleep(t)
  \/ Resume(t)
  \/ FinishWait(t)
  \/ MarkFailed(t)
  \/ Check(t)

Interrupt == HandlerStarts \/ HandlerLooks \/ HandlerPublishes \/ HandlerWakes

Next ==
  \/ \E t \in Tasks : Call(t) \/ Step(t) \/ SleepDeadline(t) \/ Expire(t)
  \/ Fetch
  \/ Answer
  \/ Break
  \/ Interrupt

Spec == Init /\ [][Next]_vars

(* Tasks run, deadlines pass, interrupts are handled; the device is free   *)
(* never to answer.                                                        *)
Fairness ==
  /\ \A t \in Tasks : WF_vars(Step(t)) /\ WF_vars(SleepDeadline(t)) /\ WF_vars(Expire(t))
  /\ WF_vars(Interrupt)

FairSpec == Spec /\ Fairness

-----------------------------------------------------------------------------
TypeOK ==
  /\ virtio_blk_owner \in Tasks \cup {NoTask}
  /\ virtio_blk_failed \in BOOLEAN
  /\ blk_pending \in [active : BOOLEAN, completed : BOOLEAN, prev_used_idx : 0 .. IndexSize - 1,
                      waiter : Tasks \cup {NoTask}]
  /\ {last_used_idx, avail, used} \subseteq 0 .. IndexSize - 1
  /\ desc \in Requests \cup {NoRequest}
  /\ status \in [Requests -> {"none", "0xFF", "ok", "error"}]
  /\ freed \subseteq Requests
  /\ device \subseteq Requests
  /\ interrupt \in BOOLEAN
  /\ needs_reset \in BOOLEAN
  /\ state \in [Tasks -> {"RUNNING", "UNINTERRUPTIBLE", "READY"}]
  /\ req \in [Tasks -> Requests \cup {NoRequest}]
  /\ result \in [Requests -> {"none", "ok", "error", "failed", "timeout", "unexpected"}]

(* A timeout is no proof that the device has finished (write_sectors): the *)
(* buffers of a request the device has fetched, or will find in the        *)
(* descriptors, are not freed, however late it is.                         *)
DmaSafe ==
  /\ device \cap freed = {}
  /\ used # avail => desc \notin freed

(* A call succeeds or fails as the device said of that very request,       *)
(* although used index, completion flag and interrupt may belong to an     *)
(* earlier one.                                                            *)
AnswersTrue == \A r \in Requests : result[r] \in {"ok", "error"} => status[r] = result[r]

(* Moreover no request is refused or found inconsistent unless one timed   *)
(* out before or the device asks for a reset.                              *)
TrueResults ==
  /\ AnswersTrue
  /\ \A r \in Requests : result[r] # "unexpected"
  /\ virtio_blk_failed => needs_reset \/ \E r \in Requests : result[r] = "timeout"

(* Every call returns, also if the device never answers, if the completion *)
(* interrupt comes between the last look and the sleep, and if many wait   *)
(* for the driver.                                                         *)
InCall(t) == pc[t] # "out"
CallsEnd == \A t \in Tasks : InCall(t) ~> ~InCall(t)
=============================================================================
