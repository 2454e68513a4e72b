----------------------------- MODULE Transmitter -----------------------------
(***************************************************************************)
(* The outgoing half of a stream (link/internal/transmitter.cpp, with the  *)
(* OutBuffer of out_buffer.h): the ring of packets that wait to be sent or *)
(* acknowledged, cumulative and selective acknowledgement, retransmission, *)
(* flow-control credit, and the end-of-stream packet.  Each action is one  *)
(* call made under the mutex of ThreadSafeTransmitter.                     *)
(*                                                                         *)
(* outBuf is the log of every packet of the stream: packet p is outBuf[p]. *)
(* The ring out_ring_ is its part txBegin .. TxEnd - 1; the code reuses    *)
(* the slots of the packets below txBegin.  Time is abstracted: `due' says *)
(* that a packet's expiration_ is Uptime::Start(), and any other           *)
(* expiration may have passed or not.  Bytes are numbered in the order in  *)
(* which they are written, so packet p holds lo + 1 .. lo + n.             *)
(***************************************************************************)
EXTENDS WireSeq, Sequences

CONSTANTS Payload,     \* bytes that fit in a packet, 248 in the code
          MaxPackets,  \* bound: packets a stream may have
          MaxBytes,    \* bound: bytes written to it
          EarlyClose   \* whether the writer may close before it is connected

ASSUME TransmitterAssumption ==
  /\ Payload \in Nat \ {0} /\ MaxPackets \in Nat /\ MaxBytes \in Nat /\ EarlyClose \in BOOLEAN

VARIABLES txState,      \* state_
          outBuf,       \* out_buffers_, as a log
          txBegin,      \* out_ring_.begin()
          txNext,       \* next_to_send_
          txHimark,     \* recv_himark_: no packet at or past it is wanted yet
          txCur,        \* current_out_buffer_, 0 for nullptr
          txEos,        \* end_of_stream_
          txPendingEof, \* has_pending_eof_
          txCtl         \* control_bit_

txVars == <<txState, outBuf, txBegin, txNext, txHimark, txCur, txEos,
            txPendingEof, txCtl>>

TxStates == {"idle", "connecting", "connected", "broken"}

(* The fields of an OutBuffer.  send_counter_ is only ever compared with 0  *)
(* and 1, so 2 stands for "more than once".                                 *)
OutBuffer == [lo: Nat, n: 0..Payload, fin: BOOLEAN, ctl: BOOLEAN,
              flushed: BOOLEAN, finished: BOOLEAN, acked: BOOLEAN,
              sent: 0..2, due: BOOLEAN]

First(S) == {p \in S : \A q \in S : p <= q}

TxEnd == Len(outBuf) + 1
TxRing == txBegin .. Len(outBuf)
TxSlotsFree == SendCap - (TxEnd - txBegin)

(* The number of bytes written to the stream so far.                        *)
Written == IF outBuf = <<>> THEN 0
           ELSE outBuf[Len(outBuf)].lo + outBuf[Len(outBuf)].n

(* init() as called by connect(): a new stream, not yet known to the peer.  *)
(* The control bit is still that of the stream before.                      *)
TxInit ==
  /\ txState = "connecting"
  /\ outBuf = <<>> /\ txBegin = 1
  /\ txNext = 1 /\ txHimark = 1
  /\ txCur = 0
  /\ txEos = FALSE /\ txPendingEof = FALSE
  /\ txCtl \in BOOLEAN

(* setConnected(): the peer has acknowledged our stream id.                 *)
TxSetConnected(ctl) ==
  /\ txState = "connecting"
  /\ txState' = "connected"
  /\ txCtl' = ctl
  /\ txHimark' = txBegin + RecvCap
  /\ UNCHANGED <<outBuf, txBegin, txNext, txCur, txEos, txPendingEof>>

(* OutBuffer::init(), and for the last packet addEosPacket().               *)
NewBuffer(fin) ==
  [lo |-> Written, n |-> 0, fin |-> fin, ctl |-> txCtl, flushed |-> fin,
   finished |-> fin, acked |-> FALSE, sent |-> 0, due |-> TRUE]

(* OutBuffer::write(): k more bytes; a full packet is finished.             *)
Filled(buf, k) ==
  [buf EXCEPT !.n = @ + k,
              !.flushed = @ \/ buf.n + k = Payload,
              !.finished = @ \/ buf.n + k = Payload]

Writable == ~txEos /\ txState \in {"connecting", "connected"}

(* The current packet takes no more bytes: none is open, or it was sent (or *)
(* sent, acknowledged and popped) while it was open.                        *)
NoOpenBuffer == txCur # 0 => outBuf[txCur].finished

(* Faulty: the receiver's high-water mark is not looked at.                 *)
CanPushBug == TxSlotsFree > 0

CanPush == txHimark # TxEnd /\ TxSlotsFree > 0

(* tryWrite(), one turn of its loop, into the packet that is open.  A call  *)
(* that writes more is several turns in a row.                              *)
TryWriteAppend(k) ==
  /\ Writable
  /\ ~NoOpenBuffer
  /\ outBuf[txCur].n + k <= Payload /\ Written + k <= MaxBytes
  /\ outBuf' = [outBuf EXCEPT ![txCur] = Filled(@, k)]
  /\ txCur' = IF outBuf[txCur].n + k = Payload THEN 0 ELSE txCur
  /\ UNCHANGED <<txState, txBegin, txNext, txHimark, txEos, txPendingEof, txCtl>>

(* tryWrite(), one turn of its loop, that opens a packet for k bytes.       *)
TryWritePush(k) ==
  /\ Writable
  /\ NoOpenBuffer
  /\ CanPush
  /\ k <= Payload
  /\ Len(outBuf) < MaxPackets /\ Written + k <= MaxBytes
  /\ outBuf' = Append(outBuf, Filled(NewBuffer(FALSE), k))
  /\ txCur' = IF k = Payload THEN 0 ELSE TxEnd
  /\ UNCHANGED <<txState, txBegin, txNext, txHimark, txEos, txPendingEof, txCtl>>

(* tryWrite() that finds neither an open packet nor credit and room for a   *)
(* new one: it forgets the finished packet and writes nothing.              *)
TryWriteBlocked ==
  /\ Writable
  /\ txCur # 0 /\ NoOpenBuffer
  /\ ~CanPush
  /\ txCur' = 0
  /\ UNCHANGED <<txState, outBuf, txBegin, txNext, txHimark, txEos, txPendingEof, txCtl>>

Flushed(log) ==
  IF txCur = 0 THEN log ELSE [log EXCEPT ![txCur].flushed = TRUE]

(* flush()                                                                  *)
Flush ==
  /\ txState \in {"connecting", "connected"}
  /\ txCur # 0
  /\ outBuf' = Flushed(outBuf)
  /\ UNCHANGED <<txState, txBegin, txNext, txHimark, txCur, txEos, txPendingEof, txCtl>>

(* close(): flush, then queue the end-of-stream packet, or leave a note to  *)
(* do so when the ring has room.                                            *)
Close ==
  /\ txState = "connected" \/ (EarlyClose /\ txState = "connecting")
  /\ ~txEos
  /\ txEos' = TRUE
  /\ IF TxSlotsFree = 0
     THEN /\ txPendingEof' = TRUE
          /\ outBuf' = Flushed(outBuf)
     ELSE /\ outBuf' = Append(Flushed(outBuf), NewBuffer(TRUE))
          /\ UNCHANGED txPendingEof
  /\ UNCHANGED <<txState, txBegin, txNext, txHimark, txCur, txCtl>>
-----------------------------------------------------------------------------
(* getBufferToSend(): the packet that goes out next.                        *)

(* The next packet in sequence, sent for the first time whatever the        *)
(* receiver's high-water mark.                                              *)
FastSend ==
  /\ txNext \in TxRing
  /\ ~outBuf[txNext].acked /\ outBuf[txNext].flushed /\ outBuf[txNext].sent = 0

(* The packets the retransmission scan reaches: below the high-water mark,  *)
(* not acknowledged, and behind no packet that is still open.               *)
Scanned ==
  {p \in TxRing : /\ p < txHimark
                  /\ ~outBuf[p].acked
                  /\ \A q \in txBegin .. p : outBuf[q].acked \/ outBuf[q].flushed}

Immediate == {p \in Scanned : ~outBuf[p].finished \/ outBuf[p].due}

(* Faulty: a packet waits until it is flushed or full.                      *)
AutoFlushBug == FALSE

(* The only packet of the ring is open: it is sent as it is.                *)
AutoFlush ==
  /\ Scanned = {}
  /\ TxEnd - txBegin = 1 /\ txBegin < txHimark
  /\ ~outBuf[txBegin].finished

(* The packets that may be chosen: when several wait for their expiration,  *)
(* any of them may be the first to expire.                                  *)
ToSend ==
  IF FastSend THEN {txNext}
  ELSE IF Immediate # {} THEN First(Immediate)
  ELSE IF AutoFlush THEN {txBegin}
  ELSE Scanned

DataPacket(p) ==
  [type |-> "data", pos |-> p, seq |-> Wire(p), ctl |-> outBuf[p].ctl,
   lo |-> outBuf[p].lo, n |-> outBuf[p].n, fin |-> outBuf[p].fin]

(* Faulty: an open packet stays open after it was sent.                     *)
TxSendBug(p) ==
  /\ txState = "connected"
  /\ p \in ToSend
  /\ outBuf' = [outBuf EXCEPT ![p].sent = IF @ < 2 THEN @ + 1 ELSE @, ![p].due = FALSE]
  /\ txNext' = p + 1
  /\ UNCHANGED <<txState, txBegin, txHimark, txCur, txEos, txPendingEof, txCtl>>

(* send() of packet p: finish() and markSent().                             *)
TxSend(p) ==
  /\ txState = "connected"
  /\ p \in ToSend
  /\ outBuf' = [outBuf EXCEPT ![p].flushed = TRUE, ![p].finished = TRUE,
                              ![p].sent = IF @ < 2 THEN @ + 1 ELSE @,
                              ![p].due = FALSE]
  /\ txNext' = p + 1
  /\ UNCHANGED <<txState, txBegin, txHimark, txCur, txEos, txPendingEof, txCtl>>
-----------------------------------------------------------------------------
(* ack(): everything before the acknowledged position leaves the ring; the  *)
(* note about the end of the stream is acted upon as soon as there is room; *)
(* then the bitmap is applied, and packets below the last one it names that *)
(* were sent only once are sent again at once.  A closed stream whose ring  *)
(* is empty is reset.                                                       *)
AckIgnored(m) ==
  \/ txState # "connected"
  \/ m.ctl = txCtl
  \/ Restore(txBegin, m.seq) > TxEnd

AckBegin(m) ==
  IF Restore(txBegin, m.seq) > txBegin THEN Restore(txBegin, m.seq) ELSE txBegin

(* Faulty: the note about the end of the stream is forgotten.               *)
AckLogBug(m) == outBuf

AckLog(m) ==
  IF txPendingEof /\ AckBegin(m) > txBegin THEN Append(outBuf, NewBuffer(TRUE))
  ELSE outBuf

(* Faulty: the first bit taken for the first packet of the ring.            *)
SkipAckedBug(m) ==
  {p \in AckBegin(m) .. Len(AckLog(m)) : p + 1 - AckBegin(m) \in m.bits}

(* The packets of the ring that the bitmap names.  Bit i stands for the     *)
(* i-th packet after the first of the ring.                                 *)
SkipAcked(m) ==
  {p \in AckBegin(m) .. Len(AckLog(m)) : p - AckBegin(m) \in m.bits}

Acked(m, p) == AckLog(m)[p].acked \/ p \in SkipAcked(m)

Rushed(m) ==
  {p \in AckBegin(m) .. Len(AckLog(m)) :
     /\ \E q \in SkipAcked(m) : p < q
     /\ ~Acked(m, p)
     /\ AckLog(m)[p].sent = 1}

TxAckKeep(m) ==
  /\ ~AckIgnored(m)
  /\ AckBegin(m) <= Len(AckLog(m))
  /\ txBegin' = AckBegin(m)
  /\ outBuf' = [p \in 1 .. Len(AckLog(m)) |->
                  [AckLog(m)[p] EXCEPT !.acked = @ \/ p \in SkipAcked(m),
                                       !.due = @ \/ p \in Rushed(m)]]
  /\ txNext' \in IF Rushed(m) = {} THEN {txNext} ELSE First(Rushed(m))
  /\ txPendingEof' = (txPendingEof /\ AckBegin(m) = txBegin)
  /\ UNCHANGED <<txState, txHimark, txCur, txEos, txCtl>>

TxAckEmpty(m) ==
  /\ ~AckIgnored(m)
  /\ AckBegin(m) > Len(AckLog(m))
  /\ txBegin' = AckBegin(m)
  /\ IF txEos
     THEN /\ txState' = "idle" /\ txEos' = FALSE /\ txCur' = 0
          /\ txPendingEof' = FALSE
     ELSE UNCHANGED <<txState, txEos, txCur, txPendingEof>>
  /\ UNCHANGED <<outBuf, txNext, txHimark, txCtl>>

TxAck(m) ==
  \/ AckIgnored(m) /\ UNCHANGED txVars
  \/ TxAckKeep(m)
  \/ TxAckEmpty(m)

(* Faulty: a mark may move backwards.                                       *)
HimarkAcceptedBug(m) ==
  /\ txState = "connected"
  /\ m.ctl # txCtl
  /\ Restore(txBegin, m.seq) <= TxEnd + RecvCap

(* updateRecvHimark(): a mark that moves backwards, or past what the        *)
(* receiver could hold, is ignored.                                         *)
HimarkAccepted(m) ==
  LET h == Restore(txBegin, m.seq)
  IN  /\ txState = "connected"
      /\ m.ctl # txCtl
      /\ h >= txHimark
      /\ h <= TxEnd + RecvCap

TxUpdateRecvHimark(m) ==
  /\ txHimark' = IF HimarkAccepted(m) THEN Restore(txBegin, m.seq) ELSE txHimark
  /\ UNCHANGED <<txState, outBuf, txBegin, txNext, txCur, txEos, txPendingEof, txCtl>>

TxTypeOK ==
  /\ txState \in TxStates
  /\ outBuf \in Seq(OutBuffer)
  /\ txBegin \in Nat \ {0} /\ txNext \in Nat \ {0} /\ txHimark \in Nat
  /\ txCur \in 0 .. Len(outBuf)
  /\ txEos \in BOOLEAN /\ txPendingEof \in BOOLEAN /\ txCtl \in BOOLEAN
=============================================================================
