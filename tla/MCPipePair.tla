----------------------------- MODULE MCPipePair -----------------------------
(* One reader and one writer of a pipe, with fairness, for TLC. *)
EXTENDS MCPipe

(* Two programs: "bytes" writes all byte values and gets no signals, in    *)
(* "signals" all bytes are the one the ring holds initially                *)
(* and both processes get signals.                                         *)
VARIABLE program

Programs == {"bytes", "signals"}

PairInit == Init /\ program \in Programs

PairNext ==
  /\ Next
  /\ program = "bytes" => ~\E p \in Procs : Signal(p)
  /\ program = "signals" => data' = data
  /\ UNCHANGED program

PairSpec == PairInit /\ [][PairNext]_<<vars, program>> /\ KernelFair

-----------------------------------------------------------------------------
(* No call on a pipe hangs: read() and write() return when the partner     *)
(* keeps calling or closes, and a signal ends a blocked call whatever the  *)
(* other end does; notifications of other files only delay them.  The one  *)
(* way out is a partial write that spins for ever in pipe_write().         *)
CallsEnd == CallsReturn /\ CallsKillable
=============================================================================
