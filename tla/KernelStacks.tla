---------------------------- MODULE KernelStacks ----------------------------
(***************************************************************************)
(* What the scheduler promises about kernel stacks (task_t::stack_base):   *)
(* a CPU enters only the stack of a live task that no other CPU is on, and *)
(* a task is freed only while no CPU is on its stack.  A CPU may also leave *)
(* a stack without entering another.                                       *)
(***************************************************************************)
CONSTANTS CPUs, Tasks, NoTask

VARIABLES
    on,    \* on[c] is the task whose kernel stack CPU c executes on
    live   \* the tasks that are allocated

Init ==
    /\ live \subseteq Tasks
    /\ on \in [CPUs -> live \cup {NoTask}]
    /\ \A c, d \in CPUs : on[c] = on[d] /\ on[c] # NoTask => c = d

Unused(t) == \A c \in CPUs : on[c] # t

Allocate(t) ==
    /\ t \notin live
    /\ live' = live \cup {t}
    /\ UNCHANGED on

Free(t) ==
    /\ t \in live
    /\ Unused(t)
    /\ live' = live \ {t}
    /\ UNCHANGED on

Enter(c, t) ==
    /\ t \in live
    /\ Unused(t)
    /\ on' = [on EXCEPT ![c] = t]
    /\ UNCHANGED live

Leave(c) ==
    /\ on[c] # NoTask
    /\ on' = [on EXCEPT ![c] = NoTask]
    /\ UNCHANGED live

Next ==
    \/ \E t \in Tasks : Allocate(t) \/ Free(t) \/ \E c \in CPUs : Enter(c, t)
    \/ \E c \in CPUs : Leave(c)

Spec == Init /\ [][Next]_<<on, live>>
=============================================================================
