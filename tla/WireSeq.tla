------------------------------- MODULE WireSeq -------------------------------
(***************************************************************************)
(* Sequence numbers on the wire.  A packet header carries the low 12 bits  *)
(* of a sequence number (protocol.h, FormatPacketHeader); the recipient    *)
(* puts the high bits back relative to the start of its own ring           *)
(* (ring_buffer.h, restorePosHighBits).                                    *)
(*                                                                         *)
(* The link modules number the packets of one stream 1, 2, 3, ...: packet  *)
(* p has sequence number Start + p.  They keep positions unbounded; module *)
(* RingBuffer shows that the 16-bit arithmetic of class SeqNum agrees with *)
(* this for windows that respect the capacity limits below.                *)
(***************************************************************************)
EXTENDS Integers

CONSTANTS WireMod,  \* 2^12 in the code
          Start,    \* the first sequence number, random in connect()
          SendCap,  \* capacity of the sender's ring, 2^sendbuf_log2
          RecvCap   \* capacity of the receiver's ring, 2^recvbuf_log2

(* kMaxLinkBufferSizeLog2 and the DCHECK in restorePosHighBits: four        *)
(* buffers of either end fit in the range of the wire numbers.  The two     *)
(* rings are at different ends: ValidateBufferSizes (channel.cpp) compares  *)
(* the buffers of one channel, so that neither need be the larger here.     *)
ASSUME WireAssumption ==
  /\ WireMod \in Nat /\ Start \in Nat
  /\ SendCap \in Nat \ {0} /\ 4 * SendCap <= WireMod
  /\ RecvCap \in Nat \ {0} /\ 4 * RecvCap <= WireMod
  /\ WireMod % 2 = 0

Half == WireMod \div 2

(* FormatPacketHeader: the 12 bits of the header that hold the sequence     *)
(* number of packet p.                                                      *)
Wire(p) == (Start + p) % WireMod

(* Faulty: not centred, so that numbers of the past look like the future.   *)
RestoreBug(begin, w) == begin + ((w - (Start + begin)) % WireMod)

(* restorePosHighBits: the position nearest to `begin' (from Half below it  *)
(* to Half - 1 above it) whose wire number is w.                            *)
Restore(begin, w) ==
  LET left == begin - Half
  IN  left + ((w - (Start + left)) % WireMod)
=============================================================================
