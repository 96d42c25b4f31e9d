----------------------------- MODULE ByteQueue -----------------------------
(***************************************************************************)
(* What a pipe promises: a bounded first-in first-out queue of bytes that, *)
(* once every writer is gone, only drains.                                 *)
(*                                                                         *)
(* q is the queued bytes, oldest first; got the bytes of the latest read;  *)
(* open says that a writer exists; eof that a reader was told there will   *)
(* be no more bytes.                                                       *)
(***************************************************************************)
EXTENDS Naturals, Sequences

CONSTANTS Byte, Bound

VARIABLES q, got, open, eof

Init ==
  /\ q = <<>>
  /\ got = <<>>
  /\ open = TRUE
  /\ eof = FALSE

(* Some bytes are appended; never after the last writer is gone. *)
Put ==
  /\ open
  /\ \E k \in 1..(Bound - Len(q)) : \E s \in [1..k -> Byte] : q' = q \o s
  /\ UNCHANGED <<got, open, eof>>

(* The oldest bytes are removed and handed to the reader in order. *)
Get ==
  /\ \E k \in 1..Len(q) :
       /\ got' = SubSeq(q, 1, k)
       /\ q' = SubSeq(q, k + 1, Len(q))
  /\ UNCHANGED <<open, eof>>

(* The last writer goes away. *)
Hangup ==
  /\ open
  /\ open' = FALSE
  /\ UNCHANGED <<q, got, eof>>

(* End of file is reported only when nothing is queued and nothing can come. *)
ReportEof ==
  /\ q = <<>>
  /\ ~open
  /\ eof' = TRUE
  /\ UNCHANGED <<q, got, open>>

Next == Put \/ Get \/ Hangup \/ ReportEof

Spec == Init /\ [][Next]_<<q, got, open, eof>>
=============================================================================
