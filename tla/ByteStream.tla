----------------------------- MODULE ByteStream ------------------------------
(***************************************************************************)
(* What one direction of a link promises (doc/programming_guide.md: "a     *)
(* reliable, ordered ... byte stream"): the reader is given the bytes the  *)
(* writer wrote, in order, each once, and the end of the stream after the  *)
(* last of them.  Bytes are numbered 1, 2, ... as they are written.        *)
(***************************************************************************)
EXTENDS Naturals, Sequences

VARIABLES written,    \* the number of bytes written
          closed,     \* the writer has closed the stream
          delivered,  \* the bytes read
          eos         \* the reader has seen the end of the stream

vars == <<written, closed, delivered, eos>>

Init ==
  /\ written = 0 /\ closed = FALSE
  /\ delivered = <<>> /\ eos = FALSE

Write ==
  /\ ~closed
  /\ written' \in Nat /\ written' > written
  /\ UNCHANGED <<closed, delivered, eos>>

Close ==
  /\ closed' = TRUE
  /\ UNCHANGED <<written, delivered, eos>>

(* The reader gets the next bytes, and is told of the end only when it has  *)
(* them all.                                                                *)
Read ==
  /\ ~eos
  /\ Len(delivered') <= written
  /\ delivered' = [i \in 1 .. Len(delivered') |-> i]
  /\ Len(delivered') >= Len(delivered)
  /\ eos' \in BOOLEAN
  /\ eos' => closed /\ Len(delivered') = written
  /\ UNCHANGED <<written, closed>>

Next == Write \/ Close \/ Read

Spec == Init /\ [][Next]_vars
=============================================================================
