------------------------------ MODULE SerialPath ------------------------------
(***************************************************************************)
(* One direction of a serial line between two pico::ReliableUartDma: the   *)
(* sender thread's send() writes frames to the ring of its UartDma, whose  *)
(* bytes cross a line that loses, damages and invents some, into the ring  *)
(* of the other, from which the receive thread's tryReceive() takes chunks *)
(* and makes packets of them.  The sending end may be shut down by end().  *)
(***************************************************************************)
EXTENDS PacketsOverStream, UartDma

CONSTANTS Sizes,       \* bound: the lengths of packets, some of PacketSize
          MaxPackets,  \* bound: packets sent
          MaxFaults    \* bound: bytes lost, damaged or invented

ASSUME SerialPathAssumption ==
  /\ Sizes \subseteq PacketSize /\ MaxPackets \in Nat /\ MaxFaults \in Nat
  /\ Delim \in Byte /\ Noise \in Byte
  /\ \A p \in 1 .. MaxPackets, size \in Sizes : Frame(p, size) \in Seq(Byte)

VARIABLES sent,       \* packets sent
          receiver,   \* the PacketReceiverOverStream
          got,        \* history: the bytes that it has been given
          faults      \* bytes lost, damaged or invented

path == <<sent, receiver, got, faults>>
vars == <<txVars, rxVars, path>>

Init ==
  /\ TxInit(Noise) /\ RxInit(Noise)
  /\ sent = 0 /\ receiver = NoPacket /\ got = <<>> /\ faults = 0

(* send() of the next packet.                                               *)
SendPacket ==
  /\ sent < MaxPackets
  /\ \E size \in Sizes : Write(Frame(sent + 1, size))
  /\ sent' = sent + 1
  /\ UNCHANGED <<rxVars, receiver, got, faults>>

(* write() goes on, and the interrupt.                                      *)
TxStep ==
  /\ WriteCopy \/ WritePublish \/ TxIrq
  /\ UNCHANGED <<rxVars, path>>

(* A byte leaves and arrives as it is ...                                   *)
Arrive ==
  /\ DmaSend /\ DmaReceive(NextByte)
  /\ UNCHANGED path

(* ... or is damaged ...                                                    *)
Damage ==
  /\ faults < MaxFaults
  /\ DmaSend /\ \E b \in {Delim, Noise} \ {NextByte} : DmaReceive(b)
  /\ faults' = faults + 1
  /\ UNCHANGED <<sent, receiver, got>>

(* ... or lost, as it is when the receiving channel's count is used up ...  *)
Lose ==
  /\ DmaSend /\ UNCHANGED rxVars
  /\ IF remaining = 0
     THEN UNCHANGED faults
     ELSE faults < MaxFaults /\ faults' = faults + 1
  /\ UNCHANGED <<sent, receiver, got>>

(* ... or one arrives that nobody sent.                                     *)
Invent ==
  /\ faults < MaxFaults
  /\ \E b \in {Delim, Noise} : DmaReceive(b)
  /\ faults' = faults + 1
  /\ UNCHANGED <<txVars, sent, receiver, got>>

(* The receive thread's receiveLoop() ...                                   *)
RxStep ==
  /\ Renew \/ Restart \/ Sample \/ Copy
  /\ UNCHANGED <<txVars, path>>

(* ... and its tryReceive(), which processes what it has read.              *)
TryReceive ==
  /\ Copied
  /\ receiver' = processIncoming(receiver, bytes)
  /\ got' = got \o bytes
  /\ UNCHANGED <<txVars, sent, faults>>

(* end() of the sending end.                                                *)
End ==
  /\ EndSender \/ CloseSender
  /\ UNCHANGED <<rxVars, path>>

Next ==
  \/ SendPacket \/ TxStep
  \/ Arrive \/ Damage \/ Lose \/ Invent
  \/ RxStep \/ TryReceive
  \/ End

Spec == Init /\ [][Next]_vars
-----------------------------------------------------------------------------
(* The packets in a stream, chunks left aside: the runs that end in a zero  *)
(* and are whole frames.                                                    *)
PacketsIn(stream) ==
  LET ends == {i \in DOMAIN stream : stream[i] = Delim}
      run(i) == LET before == {j \in ends : j < i}
                IN  SubSeq(stream, 1 + (IF before = {} THEN 0 ELSE Max(before)), i)
      good == {i \in ends : Len(run(i)) >= Overhead /\ Whole(run(i))}
  IN  [k \in 1 .. Cardinality(good) |-> run(Nth(good, k))[1][1]]

(* The receiver hands on the same packets however its stream is cut into    *)
(* chunks, and picks up at the first zero after bytes that are damaged,     *)
(* lost or too many: a frame that comes through whole, after a zero, is     *)
(* never dropped with the rubbish before it.                                *)
ChunksDoNotMatter == receiver.packets = PacketsIn(got)

Line == INSTANCE PacketLine WITH delivered <- receiver.packets

(* The line below the link layer loses packets and does nothing else to     *)
(* them, although its bytes are lost, damaged and invented, its ring is     *)
(* overrun and read while it is written ("Overruns discard overwritten      *)
(* bytes; the reliable protocol resynchronizes and retransmits them").      *)
ImplementsPacketLine == Line!LineSpec
=============================================================================
