------------------------------ MODULE PacketLine ------------------------------
(***************************************************************************)
(* What the link layer is promised by the packets below it                 *)
(* (packets/packet_sender.h, packets/packet_receiver.h): packets may be    *)
(* lost; the ones that arrive are the ones that were sent, in order and    *)
(* once.                                                                   *)
(***************************************************************************)
EXTENDS Naturals, Sequences

VARIABLES sent,       \* how many packets have been sent; they are 1 .. sent
          delivered   \* those that have arrived, as a sequence

LineInit == sent = 0 /\ delivered = <<>>

Send == sent' = sent + 1 /\ UNCHANGED delivered

(* Some packets arrive, all of them later than those before.                *)
Deliver ==
  /\ \E n \in 1 .. sent :
       /\ Len(delivered') = Len(delivered) + n
       /\ delivered = SubSeq(delivered', 1, Len(delivered))
       /\ \A i \in Len(delivered) + 1 .. Len(delivered') :
            /\ delivered'[i] \in 1 .. sent
            /\ i > 1 => delivered'[i - 1] < delivered'[i]
  /\ UNCHANGED sent

LineSpec == LineInit /\ [][Send \/ Deliver]_<<sent, delivered>>
=============================================================================
