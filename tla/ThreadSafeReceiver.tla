-------------------------- MODULE ThreadSafeReceiver ---------------------------
(***************************************************************************)
(* The calls on a Receiver, one critical section of mutex_ each            *)
(* (thread_safe/thread_safe_receiver.cpp): read() blocks on has_data_, and *)
(* the calls that change what it waits for notify it, or do not.           *)
(*                                                                         *)
(* Of the receiver (module Receiver) the kinds of the packets in the ring  *)
(* are kept; positions are relative to in_ring_.begin(), which is 1.       *)
(***************************************************************************)
EXTENDS BlockedThreads, Integers, Sequences

CONSTANT RingCap   \* slots of in_ring_

ASSUME ThreadSafeReceiverAssumption == RingCap \in Nat \ {0}

VARIABLES rxState,     \* state_
          rxLink,      \* my_stream_id_: 1, 2, 3, ..., or 0
          ring,        \* in_ring_: the type of each slot
          unack,       \* unack_seq_
          selfClosed,  \* self_closed_
          peerClosed,  \* peer_closed_
          rxEos        \* end_of_stream_

rxVars == <<rxState, rxLink, ring, unack, selfClosed, peerClosed, rxEos>>

RxInit ==
  /\ rxState = "idle" /\ rxLink = 0 /\ ring = <<>> /\ unack = 1
  /\ selfClosed = FALSE /\ peerClosed = FALSE /\ rxEos = FALSE

RxCheckConnectionStatus(i) == i = rxLink /\ rxState # "idle" /\ ~rxEos

(* The packets at the start of the ring that have arrived, and all of them. *)
ReadyIn(r) == {n \in 0 .. Len(r) : \A j \in 1 .. n : r[j] # "unset"}

AllReady(r) == {n \in ReadyIn(r) : n + 1 \notin ReadyIn(r)}

Readable == rxState = "connected" /\ ring # <<>> /\ ring[1] # "unset"

(* tryRead(): n packets are read to their end, and perhaps a part of the    *)
(* next one.  The last packet of a stream ends it.                          *)
TryRead(n) ==
  /\ Readable /\ n \in ReadyIn(ring)
  /\ ring' = SubSeq(ring, n + 1, Len(ring))
  /\ unack' = unack - n
  /\ rxEos' = (n > 0 /\ ring[n] = "fin")
  /\ UNCHANGED <<rxState, rxLink, selfClosed, peerClosed>>

(* read(): its loop from one wait to the next.                              *)
ReadLoop(t, i) ==
  \/ /\ ~RxCheckConnectionStatus(i)
     /\ Return(t)
     /\ UNCHANGED rxVars
  \/ /\ RxCheckConnectionStatus(i)
     /\ \E n \in 0 .. RingCap : TryRead(n)
     /\ Return(t)
  \/ /\ RxCheckConnectionStatus(i) /\ ~Readable
     /\ Wait(t, i, "has_data")
     /\ UNCHANGED rxVars

Read(t, i) ==
  /\ pc[t] = "out"
  /\ ReadLoop(t, i)

ReadAgain(t) ==
  /\ pc[t] = "has_data" /\ t \in woken
  /\ ReadLoop(t, mine[t])

(* markInputClosed(): what is in the ring is dropped, gaps included, and    *)
(* nobody is notified.                                                      *)
MarkInputClosed(i) ==
  /\ RxCheckConnectionStatus(i)
  /\ selfClosed' = TRUE
  /\ ring' = <<>> /\ unack' = unack - Len(ring)
  /\ UNCHANGED <<rxState, rxLink, peerClosed, rxEos, threadVars>>
-----------------------------------------------------------------------------
(* handleDataPacket()                                                       *)
RingWith(p, type) ==
  [j \in 1 .. (IF p > Len(ring) THEN p ELSE Len(ring)) |->
     IF j <= Len(ring) /\ (j # p \/ ring[j] # "unset") THEN ring[j]
     ELSE IF j = p THEN type ELSE "unset"]

(* Faulty: readers are woken only by the packet they wait for first, not    *)
(* when it closes a gap.                                                    *)
HandleDataPacketBug(p, type) ==
  /\ rxState = "connected" /\ p \in 1 .. RingCap
  /\ type = "fin" => p >= Len(ring)
  /\ p > Len(ring) => ~peerClosed
  /\ LET r == RingWith(p, type) IN
     /\ peerClosed' = (peerClosed \/ type = "fin")
     /\ \E n \in AllReady(r) : unack' = IF p = unack THEN n + 1 ELSE unack
     /\ ring' = r
     /\ IF p = unack /\ p = Len(r) THEN NotifyAll({"has_data"}) ELSE UNCHANGED threadVars
  /\ UNCHANGED <<rxState, rxLink, selfClosed, rxEos>>

(* A packet for position p, which is in the ring or extends it; others are  *)
(* ignored.  The packet that ends the stream is its last.  A packet that is *)
(* the next in order makes data readable; if the reader has closed, it is   *)
(* dropped with the ones that follow it.                                    *)
HandleDataPacket(p, type) ==
  /\ rxState = "connected" /\ p \in 1 .. RingCap
  /\ type = "fin" => p >= Len(ring)
  /\ p > Len(ring) => ~peerClosed
  /\ peerClosed' = (peerClosed \/ type = "fin")
  /\ LET r == RingWith(p, type) IN
     \E n \in AllReady(r) :
       IF p # unack THEN ring' = r /\ UNCHANGED <<unack, threadVars>>
       ELSE IF selfClosed
            THEN ring' = SubSeq(r, n + 1, Len(r)) /\ unack' = 1 /\ UNCHANGED threadVars
            ELSE ring' = r /\ unack' = n + 1 /\ NotifyAll({"has_data"})
  /\ UNCHANGED <<rxState, rxLink, selfClosed, rxEos>>
-----------------------------------------------------------------------------
(* setConnected(): nobody is notified.                                      *)
RxSetConnected ==
  /\ rxState' = "connected" /\ unack' = 1
  /\ UNCHANGED <<rxLink, ring, selfClosed, peerClosed, rxEos, threadVars>>

(* setBroken(): a receiver with nothing left to read is idle; another one   *)
(* stays connected.                                                         *)
RxSetBroken ==
  /\ selfClosed' = FALSE /\ rxEos' = FALSE
  /\ IF ring = <<>>
     THEN rxState' = "idle" /\ peerClosed' = FALSE
     ELSE peerClosed' = TRUE /\ UNCHANGED rxState
  /\ NotifyAll({"has_data"})
  /\ UNCHANGED <<rxLink, ring, unack>>

(* reset() and init()                                                       *)
RxReset ==
  /\ rxState' = "idle" /\ rxLink' = 0 /\ ring' = <<>>
  /\ selfClosed' = FALSE /\ peerClosed' = FALSE /\ rxEos' = FALSE
  /\ unack' = unack - Len(ring)
  /\ NotifyAll({"has_data"})

RxInitLink(i) ==
  /\ rxState' = "connecting" /\ rxLink' = i /\ ring' = <<>>
  /\ selfClosed' = FALSE /\ peerClosed' = FALSE /\ rxEos' = FALSE
  /\ unack' = unack - Len(ring)
  /\ NotifyAll({"has_data"})

(* done()                                                                   *)
RxDone == ring = <<>> /\ (rxEos \/ selfClosed \/ peerClosed)

RxTypeOK ==
  /\ rxState \in {"idle", "connecting", "connected"} /\ rxLink \in Nat
  /\ Len(ring) <= RingCap /\ \A j \in DOMAIN ring : ring[j] \in {"unset", "data", "fin"}
  /\ unack \in Int
  /\ {selfClosed, peerClosed, rxEos} \subseteq BOOLEAN
=============================================================================
