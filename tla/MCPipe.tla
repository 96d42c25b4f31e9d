------------------------------- MODULE MCPipe -------------------------------
(* Small instances of Pipe for TLC. *)
EXTENDS Pipe

CONSTANTS r1, w1, w2, other

(* A reader and two writers share the pipe; w2's file is O_NONBLOCK. *)
ManyWriters == {w1, w2}
ManyProcs == {r1, w1, w2}

(* One of each. *)
OneReader == {r1}
OneWriter == {w1}
OnePair == {r1, w1}

TwoKeys == {buffer, other}
=============================================================================
