----------------------------- MODULE ChannelCalls ------------------------------
(***************************************************************************)
(* The threads that block on a Channel: writers, closers and readers of    *)
(* its transmitter and receiver, while links are made, broken, reset and   *)
(* replaced under them (thread_safe/channel.cpp: connect, disconnect,      *)
(* handleHandshakePacket).                                                 *)
(*                                                                         *)
(* A change of the link holds handshake_mutex_ throughout, but changes the *)
(* transmitter and the receiver in two critical sections: `half' names the *)
(* call that is still to come.  The peer appears by what it sends; one     *)
(* that has restarted repeats its connection request until it is answered. *)
(***************************************************************************)
EXTENDS ThreadSafeTransmitter, ThreadSafeReceiver, FiniteSets

CONSTANTS MaxLinks,  \* bound: connections made one after the other
          MaxWrites  \* bound: packets written, so that no thread is overtaken for ever

ASSUME ChannelCallsAssumption == MaxLinks \in Nat /\ MaxWrites \in Nat

VARIABLES my,       \* my_stream_id_ of the channel
          links,    \* how many links there have been
          written,  \* packets written so far
          half,     \* the second half of a change of the link, or "none"
          peerNew,  \* the peer has opened a new stream
          inOpen    \* whether the LinkInputStream of the last link is open

channelVars == <<my, links, written, half, peerNew, inOpen>>
vars == <<txVars, rxVars, threadVars, channelVars>>

Init ==
  /\ TxInit /\ RxInit /\ ThreadsInit
  /\ my = 0 /\ links = 0 /\ written = 0 /\ half = "none" /\ peerNew = FALSE
  /\ inOpen = FALSE
-----------------------------------------------------------------------------
(* The calls of the application, on the last link it has made.              *)
Writers == {t \in Thread : pc[t] = "has_space"}

Writing(t) ==
  \/ Write(t, links) /\ links # 0 /\ written + Cardinality(Writers) < MaxWrites
  \/ WriteAgain(t)

CallWrite(t) ==
  /\ Writing(t)
  /\ written' = IF used' > used THEN written + 1 ELSE written
  /\ UNCHANGED <<rxVars, my, links, half, peerNew, inOpen>>

CallClose(t) ==
  /\ (links # 0 /\ Close(t, links)) \/ CloseAgain(t)
  /\ UNCHANGED <<rxVars, channelVars>>

(* LinkInputStream::read() and close(): a stream that has been closed is    *)
(* not read from, and the thread that closes it is not reading.             *)
CallRead(t) ==
  /\ (inOpen /\ Read(t, links)) \/ ReadAgain(t)
  /\ UNCHANGED <<txVars, channelVars>>

CloseInput ==
  /\ inOpen /\ MarkInputClosed(links)
  /\ \A t \in Thread : pc[t] = "has_data" => mine[t] # links
  /\ inOpen' = FALSE
  /\ UNCHANGED <<txVars, my, links, written, half, peerNew>>
-----------------------------------------------------------------------------
(* connect(), its first half ...                                            *)
Connect ==
  /\ half = "none" /\ links < MaxLinks
  /\ links' = links + 1 /\ my' = links + 1 /\ inOpen' = TRUE
  /\ TxInitLink(links + 1)
  /\ half' = "init"
  /\ UNCHANGED <<rxVars, written, peerNew>>

(* ... disconnect() of the last link ...                                    *)
Disconnect ==
  /\ half = "none" /\ my # 0
  /\ my' = 0
  /\ TxReset
  /\ half' = "reset"
  /\ UNCHANGED <<rxVars, links, written, peerNew, inOpen>>

(* ... handleHandshakePacket(), when the peer has opened a new stream ...   *)
NewStream ==
  /\ half = "none" /\ peerNew /\ rxState = "connected"
  /\ my' = 0
  /\ IF ~RxDone /\ txState = "connected" THEN TxSetBroken ELSE TxReset
  /\ half' = IF RxDone THEN "reset" ELSE "broken"
  /\ UNCHANGED <<rxVars, links, written, peerNew, inOpen>>

(* ... or has drawn the same stream id (the receiver comes first) ...       *)
SameId ==
  /\ half = "none" /\ rxState = "connecting"
  /\ my' = 0
  /\ RxSetBroken
  /\ half' = "txBroken"
  /\ UNCHANGED <<txVars, links, written, peerNew, inOpen>>

(* ... and the second halves.                                               *)
SecondHalf ==
  /\ \/ half = "init" /\ RxInitLink(my) /\ UNCHANGED txVars
     \/ half = "reset" /\ RxReset /\ UNCHANGED txVars
     \/ half = "broken" /\ RxSetBroken /\ UNCHANGED txVars
     \/ half = "txBroken" /\ TxSetBroken /\ UNCHANGED rxVars
  /\ half' = "none"
  /\ UNCHANGED <<my, links, written, peerNew, inOpen>>

(* handleHandshakePacket(): the peer's stream is known, and then that it    *)
(* knows ours.                                                              *)
ReceiverConnects ==
  /\ half = "none" /\ rxState = "connecting"
  /\ RxSetConnected
  /\ peerNew' = FALSE
  /\ UNCHANGED <<txVars, my, links, written, half, inOpen>>

TransmitterConnects ==
  /\ half = "none" /\ rxState = "connected" /\ txState = "connecting" /\ my # 0
  /\ TxSetConnected
  /\ UNCHANGED <<rxVars, channelVars>>
-----------------------------------------------------------------------------
(* What else arrives from the peer.                                         *)
ReceiveAck(k) == Ack(k) /\ UNCHANGED <<rxVars, channelVars>>

ReceiveHimark(c) == UpdateRecvHimark(c) /\ UNCHANGED <<rxVars, channelVars>>

ReceiveData(p, type) == HandleDataPacket(p, type) /\ UNCHANGED <<txVars, channelVars>>

PeerRestarts ==
  /\ rxState = "connected" /\ ~peerNew
  /\ peerNew' = TRUE
  /\ UNCHANGED <<txVars, rxVars, threadVars, my, links, written, half, inOpen>>

Next ==
  \/ \E t \in Thread : CallWrite(t) \/ CallClose(t) \/ CallRead(t)
  \/ CloseInput
  \/ Connect \/ Disconnect \/ NewStream \/ SameId \/ SecondHalf
  \/ ReceiverConnects \/ TransmitterConnects
  \/ \E k \in 1 .. SendCap : ReceiveAck(k)
  \/ \E c \in -1 .. RecvCap : ReceiveHimark(c)
  \/ \E p \in 1 .. RingCap, type \in {"data", "fin"} : ReceiveData(p, type)
  \/ PeerRestarts

Spec == Init /\ [][Next]_vars

(* The threads are scheduled.  A peer that has not restarted answers,       *)
(* acknowledges what it accepts and, once its reader has read, reports all  *)
(* its buffer free; one that has restarted gets its request through.  The   *)
(* application goes on reading a stream that it has not closed.             *)
Fairness ==
  /\ \A t \in Thread :
       WF_vars(pc[t] # "out" /\ (CallWrite(t) \/ CallClose(t) \/ CallRead(t)))
  /\ WF_vars(SecondHalf)
  /\ SF_vars(ReceiverConnects) /\ SF_vars(TransmitterConnects) /\ SF_vars(NewStream)
  /\ WF_vars(~peerNew /\ ReceiveAck(used))
  /\ SF_vars(~peerNew /\ ReceiveHimark(RecvCap))

FairSpec == Spec /\ Fairness
-----------------------------------------------------------------------------
TypeOK ==
  /\ TxTypeOK /\ RxTypeOK
  /\ pc \in [Thread -> {"out", "has_space", "all_acked", "has_data"}]
  /\ mine \in [Thread -> 0 .. MaxLinks] /\ woken \subseteq InCall
  /\ my \in {0, links} /\ links \in 0 .. MaxLinks /\ written \in 0 .. MaxWrites
  /\ half \in {"none", "init", "reset", "broken", "txBroken"} /\ {peerNew, inOpen} \subseteq BOOLEAN

(* No call of close() is left asleep on a stream that is gone, or with      *)
(* nothing left to acknowledge: whatever ends the wait notifies all_acked_. *)
ClosersWait ==
  \A t \in Thread : Asleep(t, "all_acked") => TxCheckConnectionStatus(mine[t]) /\ used > 0

(* No call of read() is left asleep on a stream that is gone or has ended,  *)
(* nor when its next packet has arrived: whatever makes it readable         *)
(* notifies has_data_, gaps that are closed later included.                 *)
ReadersWait ==
  \A t \in Thread : Asleep(t, "has_data") => RxCheckConnectionStatus(mine[t]) /\ ~Readable

Gap == \E j \in DOMAIN ring : ring[j] = "unset"

(* A call that has no reason to wait any longer: a write() on the           *)
(* transmitter's stream, a close(), and a read() on a link that the peer    *)
(* has broken, unless a packet is missing from the ring.  A stream whose    *)
(* end has the wrong control bit is never acknowledged (see the README).    *)
Due(t) ==
  \/ pc[t] = "has_space" /\ mine[t] = txLink /\ ~eosStale
  \/ pc[t] = "all_acked" /\ ~(mine[t] = txLink /\ eosStale)
  \/ pc[t] = "has_data" /\ peerNew /\ ~Gap

(* Blocked calls return.  write(): with something written, or because the   *)
(* link is broken; close(): when all is acknowledged, or because the link   *)
(* is gone; read(): when what had arrived before the link broke is read.    *)
(* Threads are interchangeable here: one of them stands for all.            *)
BlockedCallsReturn == LET t == CHOOSE t \in Thread : TRUE IN Due(t) ~> ~Due(t)

(* read() on a link that the peer has broken returns, whatever is in the    *)
(* ring.                                                                    *)
ReadReturns ==
  \A t \in Thread : pc[t] = "has_data" /\ peerNew ~> (pc[t] = "out" \/ ~peerNew)

(* write() returns when its link is reset or replaced under it.             *)
ResetWriteReturns == \A t \in Thread : pc[t] = "has_space" ~> pc[t] = "out"
=============================================================================
