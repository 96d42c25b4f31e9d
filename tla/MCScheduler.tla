---------------------------- MODULE MCScheduler ----------------------------
(* Scheduler for TLC: two CPUs with their idle tasks, and a few processes. *)
EXTENDS Scheduler, TLC

CONSTANTS c1, c2, i1, i2

MCIdleTasks == (c1 :> i1) @@ (c2 :> i2)
=============================================================================
