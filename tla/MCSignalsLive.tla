---------------------------- MODULE MCSignalsLive ----------------------------
(* A process that gets signals, with fairness, for TLC. *)
EXTENDS MCSignals

(* Two programs: "masks" uses sigsuspend() and gets no stop signals, and   *)
(* its handlers return or run for ever; "jobs" gets stop signals and may   *)
(* leave its handlers with longjmp(), and does not use sigsuspend().       *)
VARIABLE program

Programs == {"masks", "jobs"}

LiveInit == Init /\ program \in Programs

LiveNext ==
  /\ Next
  /\ program = "masks" => sent'["STOP"] = 0 /\ ~longjmp
  /\ program = "jobs" => pc' # "suspend" /\ \A s \in Used : sent'[s] <= 1
  /\ UNCHANGED program

LiveSpec == LiveInit /\ [][LiveNext]_<<vars, program>> /\ Fairness

-----------------------------------------------------------------------------
(* A pending signal that is not blocked is taken by the process, and       *)
(* SIGKILL kills it, whatever mask, sigsuspend() or stop it is in, unless  *)
(* a handler keeps it from both for ever or SIGKILL meets a stop halfway.  *)
SignalsAct == SignalTaken /\ KillKills
=============================================================================
