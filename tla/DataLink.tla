------------------------------ MODULE DataLink -------------------------------
(***************************************************************************)
(* One direction of an established link: the writer's Transmitter, the     *)
(* reader's Receiver, and the packets between them.  Data packets go one   *)
(* way, acknowledgements and flow-control packets the other.  A packet may *)
(* be lost; packets arrive in the order in which they were sent if InOrder *)
(* (a serial line) and in any order otherwise.                             *)
(*                                                                         *)
(* The sending operations are the steps of Channel::trySend, which takes   *)
(* the mutexes separately for each; Channel::packetReceived dispatches the *)
(* arriving packets to the handlers.                                       *)
(***************************************************************************)
EXTENDS Transmitter, Receiver

CONSTANTS MaxData,    \* bound: data packets under way
          MaxCtl,     \* bound: acknowledgements and high-water marks under way
          InOrder,    \* whether the transport keeps the order of packets
          TxControl   \* whether the writer's stream id is the larger one

ASSUME DataLinkAssumption ==
  MaxData \in Nat /\ MaxCtl \in Nat /\ InOrder \in BOOLEAN /\ TxControl \in BOOLEAN

VARIABLES toRx,  \* data packets under way
          toTx   \* acknowledgements and high-water marks under way

netVars == <<toRx, toTx>>
vars == <<txVars, rxVars, netVars>>

Init == TxInit /\ RxInit /\ toRx = <<>> /\ toTx = <<>>

(* The handshake, as far as this direction sees it: the receiver learns the *)
(* writer's stream id first; the transmitter is connected by a packet that  *)
(* acknowledges that id (channel.cpp, handleHandshakePacket).               *)
RxConnect == RxSetConnected(~TxControl) /\ UNCHANGED <<txVars, netVars>>

TxConnect ==
  /\ rxState # "connecting"
  /\ TxSetConnected(TxControl)
  /\ UNCHANGED <<rxVars, netVars>>

Write ==
  /\ \/ \E k \in 1 .. Payload : TryWriteAppend(k) \/ TryWritePush(k)
     \/ TryWriteBlocked
  /\ UNCHANGED <<rxVars, netVars>>

WriterFlush == Flush /\ UNCHANGED <<rxVars, netVars>>

WriterClose == Close /\ UNCHANGED <<rxVars, netVars>>

Read ==
  /\ (\E k \in 1 .. Payload : TryReadPart(k)) \/ TryReadRest
  /\ UNCHANGED <<txVars, netVars>>

CloseInput == MarkInputClosed /\ UNCHANGED <<txVars, netVars>>

(* The packet sent is either lost or joins the ones under way.              *)
SendData(p) ==
  /\ TxSend(p)
  /\ Len(toRx) < MaxData /\ toRx' = Append(toRx, DataPacket(p))
  /\ UNCHANGED <<rxVars, toTx>>

LoseData(p) == TxSend(p) /\ UNCHANGED <<rxVars, netVars>>

SendAck ==
  /\ RxAck
  /\ Len(toTx) < MaxCtl /\ toTx' = Append(toTx, AckPacket)
  /\ UNCHANGED <<txVars, toRx>>

LoseAck == RxAck /\ UNCHANGED <<txVars, netVars>>

IsHimark(m) == m.type = "himark"

(* A high-water mark that is lost leaves no trace.  The ones under way      *)
(* leave room for an acknowledgement, so that the bound on the network does *)
(* not keep acknowledgements out for good.                                  *)
SendHimark ==
  /\ RxUpdateRecvHimark
  /\ Len(toTx) < MaxCtl /\ Len(SelectSeq(toTx, IsHimark)) + 1 < MaxCtl
  /\ toTx' = Append(toTx, HimarkPacket)
  /\ UNCHANGED <<txVars, toRx>>

Arrivals(net) == IF InOrder THEN {1} \cap DOMAIN net ELSE DOMAIN net

(* The packets under way but the i-th.                                      *)
Without(net, i) == SubSeq(net, 1, i - 1) \o SubSeq(net, i + 1, Len(net))

(* packetReceived() of a data packet at the reader's end.                   *)
ReceiveData ==
  \E i \in Arrivals(toRx) :
    /\ HandleDataPacket(toRx[i])
    /\ toRx' = Without(toRx, i)
    /\ UNCHANGED <<txVars, toTx>>

(* packetReceived() of an acknowledgement at the writer's end.              *)
ReceiveAck ==
  \E i \in Arrivals(toTx) :
    /\ toTx[i].type = "ack"
    /\ TxAck(toTx[i])
    /\ toTx' = Without(toTx, i)
    /\ UNCHANGED <<rxVars, toRx>>

(* packetReceived() of a flow-control packet at the writer's end.           *)
ReceiveHimark ==
  \E i \in Arrivals(toTx) :
    /\ toTx[i].type = "himark"
    /\ TxUpdateRecvHimark(toTx[i])
    /\ toTx' = Without(toTx, i)
    /\ UNCHANGED <<rxVars, toRx>>

Next ==
  \/ RxConnect \/ TxConnect
  \/ Write \/ WriterFlush \/ WriterClose
  \/ Read \/ CloseInput
  \/ \E p \in 1 .. Len(outBuf) : SendData(p) \/ LoseData(p)
  \/ SendAck \/ LoseAck \/ SendHimark
  \/ ReceiveData \/ ReceiveAck \/ ReceiveHimark

Spec == Init /\ [][Next]_vars
-----------------------------------------------------------------------------
(* Safety.                                                                  *)

TypeOK ==
  /\ TxTypeOK /\ RxTypeOK
  /\ \A i \in DOMAIN toRx :
       toRx[i] \in [type: {"data"}, pos: Nat, seq: Nat, ctl: BOOLEAN,
                    lo: Nat, n: Nat, fin: BOOLEAN]
  /\ \A i \in DOMAIN toTx :
       toTx[i] \in [type: {"ack"}, pos: Nat, seq: Nat, ctl: BOOLEAN, bits: SUBSET Nat]
              \cup [type: {"himark"}, pos: Nat, seq: Nat, ctl: BOOLEAN]

(* A packet that has left the sender's ring, or that the bitmap of an       *)
(* acknowledgement has marked, has reached the receiver: nothing else would *)
(* ever send it again (Transmitter::ack).                                   *)
AckedWasReceived ==
  \A p \in DOMAIN outBuf : p < txBegin \/ outBuf[p].acked => Received(p)

(* Flow control: the receiver has a slot for every data packet that is on   *)
(* its way to it.  Only the end-of-stream packet may be sent without        *)
(* credit (close() does not look at recv_himark_).                          *)
CreditRespected ==
  \A i \in DOMAIN toRx : ~toRx[i].fin => toRx[i].pos < rxBegin + RecvCap

(* The CHECKs of the code hold: tryWrite's CHECK_GE(recv_himark_, end), and *)
(* tryRead's CHECK that nothing follows the end-of-stream packet.           *)
ChecksHold ==
  /\ Writable => txHimark >= TxEnd
  /\ Readable /\ inBuf[rxBegin].type = "fin" => rxEnd = rxBegin + 1

(* current_out_buffer_ may outlive its packet in the ring, whose slot will  *)
(* be used again; then the packet was finished, so that tryWrite lets go of *)
(* the pointer before it writes through it.                                 *)
OpenBufferInRing ==
  txCur # 0 /\ txCur < txBegin => outBuf[txCur].finished

(* The twelve bits on the wire are enough: whatever is under way is read as *)
(* the position it stands for, except that a high-water mark may be read as *)
(* one of the past, and then it is ignored (restorePosHighBits).            *)
WireNumbersExact ==
  /\ \A i \in DOMAIN toRx : Restore(rxBegin, toRx[i].seq) = toRx[i].pos
  /\ \A i \in DOMAIN toTx :
       \/ Restore(txBegin, toTx[i].seq) = toTx[i].pos
       \/ toTx[i].type = "himark" /\ Restore(txBegin, toTx[i].seq) < txHimark

(* The link implements a byte stream: the reader is given the bytes 1, 2,   *)
(* 3, ..., none missing, none twice, none out of order, whatever was lost   *)
(* and retransmitted on the way, and sees the end of the stream only when   *)
(* the writer has closed it and every byte is delivered (Receiver::tryRead  *)
(* against Transmitter::tryWrite and close).                                *)
Stream == INSTANCE ByteStream
            WITH written <- Written, closed <- (txEos \/ txState = "idle"), eos <- rxEos

ImplementsByteStream == Stream!Spec
-----------------------------------------------------------------------------
(* Liveness.  The sender and receive threads keep running; a packet that is *)
(* sent again and again gets through; the application keeps reading.        *)

Fairness ==
  /\ WF_vars(RxConnect \/ TxConnect)
  /\ WF_vars(Read)
  /\ \A p \in 1 .. MaxPackets + 1 : SF_vars(SendData(p))
  /\ SF_vars(SendAck) /\ SF_vars(SendHimark)
  /\ WF_vars(ReceiveData) /\ WF_vars(ReceiveAck \/ ReceiveHimark)

FairSpec == Spec /\ Fairness

(* Every byte written is eventually read, flushed or not, unless the reader *)
(* has closed its input: the last packet is sent as it is when nothing else *)
(* is (the auto-flush of getBufferToSend).  The writer writes a bounded     *)
(* number of bytes, so that the reader catches up with it.                  *)
BytesArrive == (Written > Len(delivered)) ~> (Written = Len(delivered) \/ selfClosed)

(* close() returns and means it: once it is called, every packet of the     *)
(* stream up to the end-of-stream packet is acknowledged, the transmitter   *)
(* is reset, and the reader gets to see the end, unless it has closed its   *)
(* input.                                                                   *)
CloseCompletes == txEos ~> txState = "idle" /\ (rxEos \/ selfClosed)
=============================================================================
