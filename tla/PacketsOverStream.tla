-------------------------- MODULE PacketsOverStream --------------------------
(***************************************************************************)
(* Packets over a stream of bytes: PacketSenderOverStream and              *)
(* PacketReceiverOverStream (packets/over_stream/).  A packet becomes a    *)
(* frame, a run of bytes that are not zero and a zero at the end; the      *)
(* receiver takes whatever chunks the stream hands it and gives back the   *)
(* packets whose frames come through whole.                                *)
(*                                                                         *)
(* A byte is <<p, i>>, the i-th byte of the frame of the p-th packet; a    *)
(* zero is Delim, and Noise is a byte of no frame.  COBS and the hash of   *)
(* 32 bits are taken to tell a frame from anything else.                   *)
(***************************************************************************)
EXTENDS Integers, Sequences, FiniteSetsExt

CONSTANTS Overhead,  \* what a frame adds to a packet: 6, two sentinels and a hash
          MaxFrame   \* the size of buf_ and tmp_: 256

ASSUME PacketsOverStreamAssumption ==
  Overhead \in Nat /\ Overhead > 1 /\ MaxFrame \in Nat /\ MaxFrame >= Overhead

FrameByte == Nat \X Nat

Delim == <<0, 0>>
Noise == <<0, 1>>

(* The lengths that send() accepts.                                         *)
PacketSize == 0 .. MaxFrame - Overhead

(* What send() writes for a packet of that size.                            *)
Frame(p, size) ==
  [i \in 1 .. size + Overhead |-> IF i = size + Overhead THEN Delim ELSE <<p, i>>]

(* processPacket() decodes it and finds the right hash.                     *)
Whole(frame) == \E p \in {frame[1][1]} \ {0} : frame = Frame(p, Len(frame) - Overhead)

(* The receiver before the first byte: what it holds of a frame, buf_ and   *)
(* pos_, and the packets it has handed on.                                  *)
NoPacket == [buf |-> <<>>, pos |-> 0, packets |-> <<>>]

(* A frame ends: it is processed if its size is acceptable.                 *)
Finished(r, data) ==
  LET frame == r.buf \o data
      size == r.pos + Len(data)
      ok == size <= MaxFrame /\ size >= Overhead /\ Whole(frame)
  IN  [buf |-> <<>>, pos |-> 0,
       packets |-> IF ok THEN Append(r.packets, frame[1][1]) ELSE r.packets]

(* Faulty: too long a frame is forgotten, and its rest taken for a frame.   *)
PartialBug(r, data) ==
  IF r.pos + Len(data) < MaxFrame
  THEN [r EXCEPT !.buf = @ \o data, !.pos = @ + Len(data)]
  ELSE [r EXCEPT !.buf = <<>>, !.pos = 0]

(* A frame does not end in this chunk: it is kept, if there is room for its *)
(* end, and else skipped up to its end; buf_ is then not looked at again.   *)
Partial(r, data) ==
  IF r.pos + Len(data) < MaxFrame
  THEN [r EXCEPT !.buf = @ \o data, !.pos = @ + Len(data)]
  ELSE [r EXCEPT !.buf = <<>>, !.pos = MaxFrame]

(* The k-th smallest of a set of numbers.                                   *)
Nth(S, k) == CHOOSE i \in S : Cardinality({j \in S : j <= i}) = k

(* The runs of a chunk, each up to a zero or to the end of the chunk.       *)
Runs(data) ==
  LET ends == {i \in DOMAIN data : data[i] = Delim \/ i = Len(data)}
      from(k) == IF k = 1 THEN 1 ELSE Nth(ends, k - 1) + 1
  IN  [k \in 1 .. Cardinality(ends) |-> SubSeq(data, from(k), Nth(ends, k))]

(* processIncoming() of a chunk, a run at a time.                           *)
processIncoming(before, data) ==
  LET runs == Runs(data)
      step(r, run) == IF run[Len(run)] = Delim THEN Finished(r, run) ELSE Partial(r, run)
      after[k \in 0 .. Len(runs)] == IF k = 0 THEN before ELSE step(after[k - 1], runs[k])
  IN  after[Len(runs)]
=============================================================================
