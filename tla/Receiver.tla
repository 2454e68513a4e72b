------------------------------ MODULE Receiver -------------------------------
(***************************************************************************)
(* The incoming half of a stream (link/internal/receiver.cpp, with the     *)
(* InBuffer of in_buffer.h): the ring of packets received and not yet      *)
(* read, acknowledgements with their bitmap, the receive high-water mark,  *)
(* end of stream, and the reader closing its input.  Each action is one    *)
(* call made under the mutex of ThreadSafeReceiver.                        *)
(*                                                                         *)
(* inBuf is a function on the positions of in_ring_, rxBegin .. rxEnd - 1. *)
(* current_in_buffer_ is always the first slot of the ring while the       *)
(* reader reads, so rxPos, the bytes of it already read, is all it needs.  *)
(* The deadline of the high-water mark update may pass at any time.        *)
(***************************************************************************)
EXTENDS WireSeq, Sequences

CONSTANTS AckBits,     \* packets an acknowledgement's bitmap covers, 64 in the code
          InputClose   \* whether the reader may close its input

ASSUME ReceiverAssumption == AckBits \in Nat /\ InputClose \in BOOLEAN

VARIABLES rxState,     \* state_
          inBuf,       \* in_buffers_ on the positions of in_ring_
          rxBegin,     \* in_ring_.begin()
          rxEnd,       \* in_ring_.end()
          rxPos,       \* current_in_buffer_pos_
          unack,       \* unack_seq_
          needsAck,    \* needs_ack_
          selfClosed,  \* self_closed_
          peerClosed,  \* peer_closed_
          rxEos,       \* end_of_stream_
          rxCtl,       \* control_bit_
          delivered    \* history: the bytes the reader has been given

rxVars == <<rxState, inBuf, rxBegin, rxEnd, rxPos, unack, needsAck, selfClosed,
            peerClosed, rxEos, rxCtl, delivered>>

RxStates == {"idle", "connecting", "connected"}

InBuffer == [type: {"unset", "data", "fin"}, lo: Nat, n: Nat]

Unset == [type |-> "unset", lo |-> 0, n |-> 0]

RxRing == rxBegin .. rxEnd - 1

(* init() as called by connect(): the peer's stream is not known yet.       *)
RxInit ==
  /\ rxState = "connecting"
  /\ inBuf = [p \in 1 .. 0 |-> Unset] /\ rxBegin = 1 /\ rxEnd = 1 /\ rxPos = 0 /\ unack = 1
  /\ needsAck = FALSE
  /\ selfClosed = FALSE /\ peerClosed = FALSE /\ rxEos = FALSE
  /\ rxCtl = FALSE
  /\ delivered = <<>>

(* setConnected(): the peer's first sequence number is known.               *)
RxSetConnected(ctl) ==
  /\ rxState = "connecting"
  /\ rxState' = "connected"
  /\ rxCtl' = ctl
  /\ UNCHANGED <<inBuf, rxBegin, rxEnd, rxPos, unack, needsAck, selfClosed,
                 peerClosed, rxEos, delivered>>
-----------------------------------------------------------------------------
(* tryRead(), one turn of its loop; a call that reads from several packets  *)
(* is several turns in a row.  The first packet of the ring has arrived and *)
(* the caller asks for k bytes.                                             *)
Readable ==
  /\ rxState = "connected" /\ ~rxEos /\ ~selfClosed
  /\ rxBegin < rxEnd /\ inBuf[rxBegin].type # "unset"

(* Faulty: a packet is read from its start again.                           *)
DeliverBug(k) == delivered' = delivered \o [i \in 1 .. k |-> inBuf[rxBegin].lo + i]

Deliver(k) ==
  delivered' = delivered \o [i \in 1 .. k |-> inBuf[rxBegin].lo + rxPos + i]

(* Fewer bytes than the packet has left.                                    *)
TryReadPart(k) ==
  /\ Readable
  /\ rxPos + k < inBuf[rxBegin].n
  /\ Deliver(k)
  /\ rxPos' = rxPos + k
  /\ UNCHANGED <<rxState, inBuf, rxBegin, rxEnd, unack, needsAck, selfClosed,
                 peerClosed, rxEos, rxCtl>>

(* All the packet has left: it leaves the ring.                             *)
TryReadRest ==
  /\ Readable
  /\ Deliver(inBuf[rxBegin].n - rxPos)
  /\ rxPos' = 0
  /\ rxBegin' = rxBegin + 1
  /\ inBuf' = [p \in rxBegin + 1 .. rxEnd - 1 |-> inBuf[p]]
  /\ rxEos' = (inBuf[rxBegin].type = "fin")
  /\ UNCHANGED <<rxState, rxEnd, unack, needsAck, selfClosed, peerClosed, rxCtl>>

(* markInputClosed(): what is in the ring is dropped, gaps included.        *)
MarkInputClosed ==
  /\ InputClose
  /\ rxState \in {"connecting", "connected"} /\ ~rxEos /\ ~selfClosed
  /\ selfClosed' = TRUE
  /\ rxBegin' = rxEnd
  /\ inBuf' = [p \in rxEnd .. rxEnd - 1 |-> Unset]
  /\ UNCHANGED <<rxState, rxEnd, rxPos, unack, needsAck, peerClosed, rxEos, rxCtl, delivered>>
-----------------------------------------------------------------------------
(* handleDataPacket()                                                       *)
Position(m) == Restore(rxBegin, m.seq)

Stranger(m) == rxState # "connected" \/ m.ctl = rxCtl

(* A packet that was received before: acknowledge it again.                 *)
Retransmit(m) == Position(m) < rxBegin

(* A packet behind the end of the stream, or with no slot for it.           *)
Unexpected(m) ==
  /\ Position(m) >= rxEnd
  /\ peerClosed \/ Position(m) - rxEnd + 1 > RecvCap - (rxEnd - rxBegin)

EndWith(m) == IF Position(m) >= rxEnd THEN Position(m) + 1 ELSE rxEnd

RingWith(m) ==
  [p \in rxBegin .. EndWith(m) - 1 |->
     IF p < rxEnd /\ (p # Position(m) \/ inBuf[p].type # "unset") THEN inBuf[p]
     ELSE IF p = Position(m)
          THEN [type |-> IF m.fin THEN "fin" ELSE "data", lo |-> m.lo, n |-> m.n]
          ELSE Unset]

(* The first position after unack that has not arrived.                     *)
NextUnack(m) ==
  IF Position(m) # unack THEN {unack}
  ELSE {p \in unack + 1 .. EndWith(m) :
          /\ p = EndWith(m) \/ RingWith(m)[p].type = "unset"
          /\ \A q \in unack + 1 .. p - 1 : RingWith(m)[q].type # "unset"}

Accept(m) ==
  /\ ~Stranger(m) /\ ~Retransmit(m) /\ ~Unexpected(m)
  /\ peerClosed' = (peerClosed \/ m.fin)
  /\ needsAck' = TRUE
  /\ rxEnd' = EndWith(m)
  /\ unack' \in NextUnack(m)
  /\ rxBegin' = IF selfClosed /\ Position(m) = unack THEN unack' ELSE rxBegin
  /\ inBuf' = [p \in rxBegin' .. EndWith(m) - 1 |-> RingWith(m)[p]]
  /\ UNCHANGED <<rxState, rxPos, selfClosed, rxEos, rxCtl, delivered>>

HandleDataPacket(m) ==
  \/ /\ Stranger(m) \/ (~Retransmit(m) /\ Unexpected(m))
     /\ UNCHANGED rxVars
  \/ /\ ~Stranger(m) /\ Retransmit(m)
     /\ needsAck' = TRUE
     /\ UNCHANGED <<rxState, inBuf, rxBegin, rxEnd, rxPos, unack, selfClosed,
                    peerClosed, rxEos, rxCtl, delivered>>
  \/ Accept(m)
-----------------------------------------------------------------------------
(* ack(): the first missing position, and which of the ones after it have   *)
(* arrived.                                                                 *)
AckPacket ==
  [type |-> "ack", pos |-> unack, seq |-> Wire(unack), ctl |-> rxCtl,
   bits |-> {i \in 1 .. AckBits : /\ unack + 1 \in RxRing
                                  /\ unack + i \in RxRing
                                  /\ inBuf[unack + i].type # "unset"}]

RxAck ==
  /\ rxState \in {"connected", "idle"}
  /\ needsAck
  /\ needsAck' = FALSE
  /\ UNCHANGED <<rxState, inBuf, rxBegin, rxEnd, rxPos, unack, selfClosed,
                 peerClosed, rxEos, rxCtl, delivered>>

(* updateRecvHimark(): the first position there is no room for.             *)
HimarkPacket ==
  [type |-> "himark", pos |-> rxBegin + RecvCap, seq |-> Wire(rxBegin + RecvCap),
   ctl |-> rxCtl]

RxUpdateRecvHimark ==
  /\ rxState = "connected"
  /\ UNCHANGED rxVars

(* Packet p has arrived.                                                    *)
Received(p) ==
  p < unack \/ p < rxBegin \/ (p < rxEnd /\ inBuf[p].type # "unset")

RxTypeOK ==
  /\ rxState \in RxStates
  /\ rxBegin \in Nat \ {0} /\ rxEnd \in Nat
  /\ inBuf \in [rxBegin .. rxEnd - 1 -> InBuffer]
  /\ rxPos \in Nat /\ unack \in Nat \ {0}
  /\ needsAck \in BOOLEAN /\ selfClosed \in BOOLEAN /\ peerClosed \in BOOLEAN
  /\ rxEos \in BOOLEAN /\ rxCtl \in BOOLEAN
  /\ delivered \in Seq(Nat)
=============================================================================
