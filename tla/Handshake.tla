----------------------------- MODULE Handshake -------------------------------
(***************************************************************************)
(* How two Channels establish, break and re-establish a link               *)
(* (thread_safe/channel.cpp: connect, disconnect, conn,                    *)
(* handleHandshakePacket), with the part of the Transmitter's and the      *)
(* Receiver's state that this involves (init, reset, setConnected,         *)
(* setBroken, done).  Each action is one critical section of               *)
(* handshake_mutex_, or one call into the transmitter or the receiver.     *)
(*                                                                         *)
(* ch[n] holds the fields of channel n.  The handshake timer may fire at   *)
(* any time.  Of the traffic of an established link only what matters to   *)
(* breaking it is kept: data packets carry no stream id, and the receiver  *)
(* keeps them in its ring until they are read.                             *)
(***************************************************************************)
EXTENDS Naturals, Sequences

CONSTANTS Node,       \* the two ends
          Ids,        \* Ids[n]: the stream ids that channel n draws, in any order
          Seqs,       \* Seqs[n]: the first sequence numbers it may draw
          MaxNet,     \* bound: packets under way to each end
          RingCap,    \* capacity of the receivers' rings
          InOrder,    \* whether the transport keeps the order of packets
          Restart,    \* whether the application may restart a link at will
          Quiet,      \* whether it waits for old packets to drain before that
          Abandon,    \* whether it may do so in the middle of a packet it reads
          Traffic     \* whether data is sent

ASSUME HandshakeAssumption ==
  /\ \E a, b \in Node : a # b /\ Node = {a, b}
  /\ Ids \in [Node -> SUBSET (Nat \ {0})] /\ Seqs \in [Node -> SUBSET Nat]
  /\ MaxNet \in Nat /\ RingCap \in Nat
  /\ {InOrder, Restart, Quiet, Abandon, Traffic} \subseteq BOOLEAN

Other(n) == CHOOSE m \in Node : m # n

VARIABLES ch,      \* the channels
          net,     \* net[n]: the packets on their way to n
          drawn,   \* drawn[n]: history, the stream ids n has used
          called,  \* called[n][i]: history, calls of the callback of link i of n
          met      \* history: <<i, j>>, link i has recorded j as its peer

vars == <<ch, net, drawn, called, met>>

(* The fields of a Channel: my_stream_id_, peer_stream_id_,                 *)
(* my_stream_id_acked_by_peer_, needs_handshake_ack_, disconnect_fn_ (the   *)
(* link whose callback it is, or 0); the transmitter's state_, first        *)
(* sequence number and control_bit_; the receiver's state_, first sequence  *)
(* number, control_bit_, peer_closed_, ring (for each packet, the link that *)
(* sent it) and current_in_buffer_ (the same for the packet that the reader *)
(* is in the middle of, or 0).                                              *)
Closed ==
  [my |-> 0, peer |-> 0, acked |-> FALSE, needAck |-> FALSE, fn |-> 0,
   tx |-> "idle", txSeq |-> 0, txCtl |-> FALSE,
   rx |-> "idle", rxSeq |-> 0, rxCtl |-> FALSE, peerClosed |-> FALSE, ring |-> <<>>,
   cur |-> 0]

Init ==
  /\ ch = [n \in Node |-> Closed]
  /\ net = [n \in Node |-> <<>>]
  /\ drawn = [n \in Node |-> {}]
  /\ called = [n \in Node |-> [i \in Ids[n] |-> 0]]
  /\ met = {}

(* The packets without the one at k.                                        *)
Without(packets, k) ==
  [j \in 1 .. Len(packets) - 1 |-> packets[IF j < k THEN j ELSE j + 1]]

(* The callback taken from disconnect_fn_ is called after the mutex is      *)
(* released, by the same thread.                                            *)
CallBack(n, fn) ==
  called' = IF fn = 0 THEN called ELSE [called EXCEPT ![n][fn] = @ + 1]
-----------------------------------------------------------------------------
(* Faulty: what was received on the link before stays.                      *)
ConnectingBug(c, id, seq) ==
  [c EXCEPT !.my = id, !.peer = 0, !.acked = FALSE, !.needAck = FALSE, !.fn = id,
            !.tx = "connecting", !.txSeq = seq, !.rx = "connecting", !.peerClosed = FALSE]

(* connect(): Transmitter::init and Receiver::init, with a new id.  The     *)
(* ring is emptied, current_in_buffer_ is left alone.                       *)
Connecting(c, id, seq) ==
  [c EXCEPT !.my = id, !.peer = 0, !.acked = FALSE, !.needAck = FALSE, !.fn = id,
            !.tx = "connecting", !.txSeq = seq,
            !.rx = "connecting", !.peerClosed = FALSE, !.ring = <<>>]

(* A handshake packet is under way that n has sent, or that the other end   *)
(* would not send any more.                                                 *)
Stale(n) ==
  \/ \E k \in DOMAIN net[Other(n)] : net[Other(n)][k].type = "conn"
  \/ \E k \in DOMAIN net[n] :
       /\ net[n][k].type = "conn"
       /\ net[n][k].id # ch[Other(n)].my \/ net[n][k].ack # ch[Other(n)].peer

Connect(n) ==
  /\ ch[n].my = 0 \/ Restart
  /\ Quiet => ~Stale(n)
  /\ ch[n].cur = 0 \/ Abandon
  /\ \E id \in Ids[n] \ drawn[n], seq \in Seqs[n] :
       /\ ch' = [ch EXCEPT ![n] = Connecting(@, id, seq)]
       /\ drawn' = [drawn EXCEPT ![n] = @ \cup {id}]
  /\ CallBack(n, ch[n].fn)
  /\ UNCHANGED <<net, met>>

(* Faulty: the receiver is not reset.                                       *)
DisconnectedBug(c) ==
  [c EXCEPT !.my = 0, !.peer = 0, !.acked = FALSE, !.fn = 0, !.tx = "idle"]

(* disconnect(): Transmitter::reset and Receiver::reset.                    *)
Disconnected(c) ==
  [c EXCEPT !.my = 0, !.peer = 0, !.acked = FALSE, !.fn = 0,
            !.tx = "idle", !.rx = "idle", !.peerClosed = FALSE, !.ring = <<>>,
            !.cur = 0]

Disconnect(n) ==
  /\ Restart
  /\ ch[n].my # 0
  /\ ch' = [ch EXCEPT ![n] = Disconnected(@)]
  /\ CallBack(n, ch[n].fn)
  /\ UNCHANGED <<net, drawn, met>>
-----------------------------------------------------------------------------
(* conn(): a handshake packet is due while the transmitter is connecting,   *)
(* and when the peer has asked for an acknowledgement.                      *)
ConnDue(c) ==
  \/ c.tx = "connecting"
  \/ c.tx = "connected" /\ c.needAck

ConnPacket(c) ==
  [type |-> "conn", id |-> c.my, seq |-> c.txSeq, ack |-> c.peer,
   want |-> c.tx # "connected"]

SendConn(n) ==
  /\ ConnDue(ch[n])
  /\ Len(net[Other(n)]) < MaxNet
  /\ net' = [net EXCEPT ![Other(n)] = Append(@, ConnPacket(ch[n]))]
  /\ ch' = [ch EXCEPT ![n].needAck = FALSE]
  /\ UNCHANGED <<drawn, called, met>>

LoseConn(n) ==
  /\ ConnDue(ch[n])
  /\ ch' = [ch EXCEPT ![n].needAck = FALSE]
  /\ UNCHANGED <<net, drawn, called, met>>
-----------------------------------------------------------------------------
(* handleHandshakePacket()                                                  *)
IsEcho(c, m) == m.id = c.my /\ m.seq = c.txSeq

(* Both ends have drawn the same id.                                        *)
Collides(c, m) == m.id = c.my

(* Receiver::setBroken: a receiver with nothing left to read is idle; one   *)
(* with unread packets stays connected until they have been read.           *)
RxBroken(c) ==
  IF c.ring = <<>> THEN [c EXCEPT !.rx = "idle", !.peerClosed = FALSE]
  ELSE [c EXCEPT !.peerClosed = TRUE]

(* ... and the connection is given up.                                      *)
SameId(c) == [RxBroken(c) EXCEPT !.tx = "broken", !.my = 0, !.fn = 0]

(* Faulty: both ends with the smaller id take the control bit.              *)
TxConnectedBug(c) ==
  [c EXCEPT !.acked = TRUE, !.tx = "connected", !.txCtl = c.my < c.peer]

(* setConnected() of the transmitter.                                       *)
TxConnected(c) ==
  [c EXCEPT !.acked = TRUE, !.tx = "connected", !.txCtl = c.my > c.peer]

(* Faulty: connected whether or not the packet acknowledges our id.         *)
AcceptedBug(c, m) ==
  TxConnected([c EXCEPT !.peer = m.id, !.rx = "connected", !.rxSeq = m.seq,
                        !.rxCtl = c.my > m.id, !.needAck = m.want])

(* The first packet of the peer's: setConnected() of the receiver, and of   *)
(* the transmitter if the packet acknowledges our id.                       *)
Accepted(c, m) ==
  LET r == [c EXCEPT !.peer = m.id, !.rx = "connected", !.rxSeq = m.seq,
                     !.rxCtl = c.my > m.id, !.needAck = m.want]
  IN  IF m.ack = c.my THEN TxConnected(r) ELSE r

(* The peer has opened a new stream.                                        *)
IsNewStream(c, m) == m.want /\ m.id # c.peer /\ m.ack = 0

RxDone(c) == c.ring = <<>> /\ c.peerClosed

(* Faulty: the callback is called but not taken out.                        *)
BrokenBug(c) ==
  IF RxDone(c)
  THEN [c EXCEPT !.my = 0, !.tx = "idle", !.rx = "idle", !.peerClosed = FALSE]
  ELSE [RxBroken(c) EXCEPT !.my = 0, !.tx = IF @ = "connected" THEN "broken" ELSE "idle"]

Broken(c) ==
  IF RxDone(c)
  THEN [c EXCEPT !.my = 0, !.fn = 0, !.tx = "idle", !.rx = "idle", !.peerClosed = FALSE,
                 !.cur = 0]
  ELSE [RxBroken(c) EXCEPT !.my = 0, !.fn = 0,
                           !.tx = IF @ = "connected" THEN "broken" ELSE "idle"]

AcksUs(c, m) == m.ack = c.my /\ ~c.acked

(* Faulty: a request for an acknowledgement is ignored once connected.      *)
AcknowledgedBug(c, m) == IF AcksUs(c, m) THEN TxConnected(c) ELSE c

Acknowledged(c, m) ==
  [(IF AcksUs(c, m) THEN TxConnected(c) ELSE c) EXCEPT !.needAck = m.want]

Handshaken(c, m) ==
  IF IsEcho(c, m) THEN c
  ELSE CASE c.rx = "connecting" /\ m.ack # 0 /\ m.ack # c.my -> c
         [] c.rx = "connecting" /\ m.ack \in {0, c.my} /\ Collides(c, m) -> SameId(c)
         [] c.rx = "connecting" /\ m.ack \in {0, c.my} /\ ~Collides(c, m) -> Accepted(c, m)
         [] c.rx = "connected" /\ IsNewStream(c, m) -> Broken(c)
         [] c.rx = "connected" /\ ~IsNewStream(c, m) -> Acknowledged(c, m)
         [] c.rx = "idle" -> c

Arrivals(n) == IF InOrder THEN {1} \cap DOMAIN net[n] ELSE DOMAIN net[n]

ReceiveConn(n) ==
  \E k \in Arrivals(n) :
    LET m == net[n][k]
        c == Handshaken(ch[n], m)
    IN  /\ m.type = "conn"
        /\ ch' = [ch EXCEPT ![n] = c]
        /\ net' = [net EXCEPT ![n] = Without(@, k)]
        /\ CallBack(n, IF c.fn = 0 THEN ch[n].fn ELSE 0)
        /\ met' = IF c.my # 0 /\ c.peer # 0 THEN met \cup {<<c.my, c.peer>>} ELSE met
        /\ UNCHANGED drawn
-----------------------------------------------------------------------------
IsData(m) == m.type = "data"

(* Data.  Transmitter::send (the packets under way leave room for a         *)
(* handshake packet) ...                                                    *)
SendData(n) ==
  /\ Traffic
  /\ ch[n].tx = "connected"
  /\ Len(net[Other(n)]) < MaxNet /\ Len(SelectSeq(net[Other(n)], IsData)) + 1 < MaxNet
  /\ net' = [net EXCEPT ![Other(n)] =
               Append(@, [type |-> "data", id |-> ch[n].my, ctl |-> ch[n].txCtl])]
  /\ UNCHANGED <<ch, drawn, called, met>>

(* ... Receiver::handleDataPacket; a packet may be outside the window ...   *)
DataWanted(c, m) ==
  /\ c.rx = "connected" /\ m.ctl # c.rxCtl
  /\ ~c.peerClosed /\ Len(c.ring) < RingCap

ReceiveData(n) ==
  \E k \in Arrivals(n) :
    LET m == net[n][k] IN
    /\ m.type = "data"
    /\ \/ DataWanted(ch[n], m) /\ ch' = [ch EXCEPT ![n].ring = Append(@, m.id)]
       \/ UNCHANGED ch
    /\ net' = [net EXCEPT ![n] = Without(@, k)]
    /\ UNCHANGED <<drawn, called, met>>

(* ... and Receiver::tryRead: of the first bytes of a packet ...            *)
ReadPart(n) ==
  /\ ch[n].rx = "connected" /\ ch[n].cur = 0 /\ ch[n].ring # <<>>
  /\ ch' = [ch EXCEPT ![n].cur = Head(ch[n].ring)]
  /\ UNCHANGED <<net, drawn, called, met>>

(* ... or to the end of one, which is then popped.                          *)
Read(n) ==
  /\ ch[n].rx = "connected" /\ ch[n].ring # <<>>
  /\ ch' = [ch EXCEPT ![n].ring = Tail(@), ![n].cur = 0]
  /\ UNCHANGED <<net, drawn, called, met>>

Next ==
  \E n \in Node :
    \/ Connect(n) \/ Disconnect(n)
    \/ SendConn(n) \/ LoseConn(n) \/ ReceiveConn(n)
    \/ SendData(n) \/ ReceiveData(n) \/ ReadPart(n) \/ Read(n)

Spec == Init /\ [][Next]_vars
-----------------------------------------------------------------------------
(* Safety.                                                                  *)

TypeOK ==
  /\ \A n \in Node :
       LET Id == {0} \cup Ids[n] \cup Ids[Other(n)] IN
       /\ ch[n] \in [my: {0} \cup drawn[n], peer: Id, acked: BOOLEAN, needAck: BOOLEAN,
                     fn: {0, ch[n].my},
                     tx: {"idle", "connecting", "connected", "broken"},
                     txSeq: {0} \cup Seqs[n], txCtl: BOOLEAN,
                     rx: {"idle", "connecting", "connected"},
                     rxSeq: {0} \cup Seqs[Other(n)], rxCtl: BOOLEAN,
                     peerClosed: BOOLEAN, ring: Seq(Id), cur: Id]
       /\ drawn[n] \subseteq Ids[n]
  /\ met \subseteq (UNION {Ids[n] : n \in Node}) \X (UNION {Ids[n] : n \in Node})

Connected(n) == ch[n].my # 0 /\ ch[n].peer # 0 /\ ch[n].acked

(* A channel that reports kConnected has been recorded by the very link it  *)
(* reports to be connected to: no combination of lost, late or repeated     *)
(* handshake packets makes it believe otherwise.                            *)
ConnectedIsMutual ==
  \A n \in Node : Connected(n) => <<ch[n].peer, ch[n].my>> \in met

Paired(n) ==
  LET o == Other(n) IN
  /\ ch[n].my # 0 /\ ch[n].my = ch[o].peer /\ ch[o].my = ch[n].peer

(* Two channels that are linked to each other agree on where each stream    *)
(* starts, and use different control bits, so that neither takes the        *)
(* other's packets for cross-talk (and so have different ids).              *)
PairAgrees ==
  \A n \in Node :
    LET o == Other(n) IN
    Paired(n) /\ ch[n].tx = "connected" =>
      /\ ch[o].rx = "connected" => ch[o].rxSeq = ch[n].txSeq /\ ch[o].rxCtl # ch[n].txCtl
      /\ ch[o].tx = "connected" => ch[o].txCtl # ch[n].txCtl

(* The reader of a link is only given data that the peer of that link sent, *)
(* the rest of a packet it is in the middle of included (data packets do    *)
(* not carry the stream id; tryRead starts from current_in_buffer_).        *)
DataFromPeer ==
  \A n \in Node :
    ch[n].rx = "connected" =>
      /\ \A k \in DOMAIN ch[n].ring : ch[n].ring[k] = ch[n].peer
      /\ ch[n].cur \in {0, ch[n].peer}

(* The disconnect callback of a link is called exactly once: not before the *)
(* link is given up, and not twice whoever ends it.                         *)
CallbackOnce ==
  \A n \in Node : \A i \in drawn[n] :
    called[n][i] = IF ch[n].my = i THEN 0 ELSE 1

(* The CHECKs of handleHandshakePacket: my_stream_id_ is not 0 when the     *)
(* peer acknowledges it, and the receiver is empty when it is connected.    *)
ChecksHold ==
  \A n \in Node : \A k \in Arrivals(n) :
    LET m == net[n][k] IN
    m.type = "conn" /\ ~IsEcho(ch[n], m) =>
      /\ ch[n].rx = "connecting" => ch[n].ring = <<>>
      /\ ch[n].rx = "connected" /\ ~IsNewStream(ch[n], m) /\ AcksUs(ch[n], m)
           => ch[n].my # 0
-----------------------------------------------------------------------------
(* Liveness.  The sender and receive threads run; a handshake packet that   *)
(* is sent again and again gets through; the application connects, connects *)
(* again when it finds the link broken, and reads what there is to read.    *)
Fairness ==
  \A n \in Node :
    /\ WF_vars(Connect(n) /\ ch[n].my = 0)
    /\ SF_vars(SendConn(n))
    /\ WF_vars(ReceiveConn(n) \/ ReceiveData(n)) /\ WF_vars(Read(n))

FairSpec == Spec /\ Fairness

Waiting(n, i) == ch[n].my = i /\ ~Connected(n)

(* The other end has given up: it will not draw another id.                 *)
Gone(n) == ch[n].my = 0 /\ drawn[n] = Ids[n]

(* awaitConnected() returns: a link that is connecting becomes connected or *)
(* broken, as long as the other end keeps connecting.                       *)
AwaitReturns ==
  \A n \in Node : \A i \in Ids[n] :
    Waiting(n, i) ~> (~Waiting(n, i) \/ Gone(Other(n)))
=============================================================================
