----------------------------- MODULE MCSignals -----------------------------
(* Small instances of Signals for TLC. *)
EXTENDS Signals, TLC

CONSTANTS c1, c2

TwoSenders == {c1, c2}

(* Nothing tells the senders apart. *)
Symmetry == Permutations(TwoSenders)

(* A plain handler, and one that lets its own signal in and is reset. *)
Plain == [handler |-> "HND", mask |-> {}, flags |-> {}]
Fill  == [handler |-> "HND", mask |-> {"CONT"}, flags |-> {"NODEFER", "RESETHAND"}]

CatchOrDefault == {DFL, Plain}
CatchOrIgnore == {IGN, Fill}

OneMask == {{"CONT"}}
IntMask == {{}, {"INT"}}
=============================================================================
