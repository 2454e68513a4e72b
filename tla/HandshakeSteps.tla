--------------------------- MODULE HandshakeSteps ---------------------------
(***************************************************************************)
(* The steps of the handshake: what each operation makes of a channel, the *)
(* invariant that every step keeps whatever the transport does with the    *)
(* packets (HandshakeInv), and each action as what it does to the channels *)
(* and to the packets on the way (Moves and what follows it).              *)
(***************************************************************************)
EXTENDS Handshake, TLAPS

(* What a channel, and a packet, can be.                                    *)
TxState == {"idle", "connecting", "connected", "broken"}
RxState == {"idle", "connecting", "connected"}

Channel ==
  [my : Nat, peer : Nat, acked : BOOLEAN, needAck : BOOLEAN, fn : Nat,
   tx : TxState, txSeq : Nat, txCtl : BOOLEAN,
   rx : RxState, rxSeq : Nat, rxCtl : BOOLEAN, peerClosed : BOOLEAN, ring : Seq(Nat),
   cur : Nat]

ConnMsg == [type : {"conn"}, id : Nat, seq : Nat, ack : Nat, want : BOOLEAN]
DataMsg == [type : {"data"}, id : Nat, ctl : BOOLEAN]
-----------------------------------------------------------------------------
(* What an operation makes of the channel c: d.  connect() ...              *)
Opened(c, d, id, seq) ==
  /\ d \in Channel /\ d.my = id /\ d.fn = id /\ d.peer = 0 /\ d.acked = FALSE
  /\ d.tx = "connecting" /\ d.txSeq = seq /\ d.rx = "connecting" /\ d.ring = <<>>
  /\ d.cur = c.cur

(* ... disconnect() ...                                                     *)
Shut(c, d) ==
  /\ d \in Channel /\ d.my = 0 /\ d.fn = 0 /\ d.peer = 0 /\ d.acked = FALSE
  /\ d.tx = "idle" /\ d.rx = "idle"

(* ... all that leaves the link what it is ...                              *)
SameLink(c, d) ==
  /\ d \in Channel /\ d.my = c.my /\ d.fn = c.fn /\ d.peer = c.peer /\ d.acked = c.acked
  /\ d.tx = c.tx /\ d.txSeq = c.txSeq /\ d.txCtl = c.txCtl
  /\ d.rx = c.rx /\ d.rxSeq = c.rxSeq /\ d.rxCtl = c.rxCtl

(* ... a packet that ends the link, because the peer has drawn the same id  *)
(* or has opened a new stream ...                                           *)
GivenUp(c, d, m) ==
  /\ d \in Channel /\ d.my = 0 /\ d.fn = 0 /\ d.peer = c.peer /\ d.txSeq = c.txSeq
  /\ d.tx \in {"idle", "broken"} /\ d.acked = c.acked
  /\ c.rx \in {"connecting", "connected"}
  /\ c.rx = "connected" => IsNewStream(c, m)
  /\ \/ d.rx = "idle"
     \/ /\ d.rx = "connected" /\ c.rx = "connected"
        /\ d.rxSeq = c.rxSeq /\ d.ring = c.ring /\ d.cur = c.cur

(* ... the transmitter's part of an answer ...                              *)
Answered(c, d, now) ==
  IF now THEN d.tx = "connected" /\ d.acked = TRUE /\ d.txCtl = (c.my > d.peer)
         ELSE d.tx = c.tx /\ d.acked = c.acked /\ d.txCtl = c.txCtl

(* ... the first packet of the peer's ...                                   *)
Recorded(c, d, m) ==
  /\ d \in Channel /\ d.my = c.my /\ d.fn = c.fn /\ d.txSeq = c.txSeq
  /\ c.rx = "connecting" /\ m.id # c.my /\ m.ack \in {0, c.my}
  /\ d.peer = m.id /\ d.rx = "connected" /\ d.rxSeq = m.seq /\ d.rxCtl = (c.my > m.id)
  /\ d.ring = c.ring /\ d.cur = c.cur
  /\ Answered(c, d, m.ack = c.my)

(* ... and the ones that follow.                                            *)
Heard(c, d, m) ==
  /\ d \in Channel /\ d.my = c.my /\ d.fn = c.fn /\ d.txSeq = c.txSeq /\ d.peer = c.peer
  /\ c.rx = "connected" /\ d.rx = "connected" /\ d.rxSeq = c.rxSeq /\ d.rxCtl = c.rxCtl
  /\ d.ring = c.ring /\ d.cur = c.cur
  /\ ~IsEcho(c, m) /\ ~IsNewStream(c, m)
  /\ Answered(c, d, AcksUs(c, m))

(* The values that the operations below assign are of their types.          *)
LEMMA StateNames ==
  /\ "idle" \in TxState /\ "connecting" \in TxState /\ "connected" \in TxState
  /\ "broken" \in TxState
  /\ "idle" \in RxState /\ "connecting" \in RxState /\ "connected" \in RxState
  /\ <<>> \in Seq(Nat)
BY DEF TxState, RxState

(* What connect() makes of a channel ...                                    *)
LEMMA OpenedBy ==
  ASSUME NEW c \in Channel, NEW id \in Nat, NEW seq \in Nat, NEW d, d = Connecting(c, id, seq)
  PROVE  Opened(c, d, id, seq)
<1>1. d \in Channel
  BY Zenon, StateNames DEF Channel, Connecting
<1>2. /\ d.my = id /\ d.fn = id /\ d.peer = 0 /\ d.acked = FALSE /\ d.tx = "connecting"
      /\ d.txSeq = seq /\ d.rx = "connecting" /\ d.ring = <<>> /\ d.cur = c.cur
  BY Zenon DEF Channel, Connecting
<1> QED
  BY Zenon, <1>1, <1>2 DEF Opened

(* ... and disconnect().                                                    *)
LEMMA ShutBy ==
  ASSUME NEW c \in Channel, NEW d, d = Disconnected(c)
  PROVE  Shut(c, d)
<1>1. d \in Channel
  BY Zenon, StateNames DEF Channel, Disconnected
<1>2. /\ d.my = 0 /\ d.fn = 0 /\ d.peer = 0 /\ d.acked = FALSE
      /\ d.tx = "idle" /\ d.rx = "idle"
  BY Zenon DEF Channel, Disconnected
<1> QED
  BY Zenon, <1>1, <1>2 DEF Shut

(* The receiver's setBroken().                                              *)
LEMMA RxBrokenBy ==
  ASSUME NEW c \in Channel, NEW e, e = RxBroken(c)
  PROVE  /\ e \in Channel /\ e.rx \in {"idle", c.rx} /\ (c.ring = <<>> => e.rx = "idle")
         /\ e.peer = c.peer /\ e.txSeq = c.txSeq /\ e.acked = c.acked /\ e.rxSeq = c.rxSeq
         /\ e.ring = c.ring /\ e.cur = c.cur /\ e.tx = c.tx
<1>1. e \in Channel
  BY Zenon, StateNames DEF RxBroken, Channel
<1> QED
  BY Zenon, <1>1 DEF RxBroken, Channel

(* The link's ids are given up.                                             *)
Dropped(e, tx) == [e EXCEPT !.my = 0, !.fn = 0, !.tx = tx]

(* Nothing else is.                                                         *)
LEMMA DroppedBy ==
  ASSUME NEW e \in Channel, NEW tx \in {"broken", "idle"}, NEW d, d = Dropped(e, tx)
  PROVE  /\ d \in Channel /\ d.my = 0 /\ d.fn = 0 /\ d.tx = tx /\ d.rx = e.rx
         /\ d.peer = e.peer /\ d.txSeq = e.txSeq /\ d.acked = e.acked /\ d.rxSeq = e.rxSeq
         /\ d.ring = e.ring /\ d.cur = e.cur
<1>1. d \in Channel
  BY Zenon, StateNames DEF Dropped, Channel
<1> QED
  BY Zenon, <1>1 DEF Dropped, Channel

(* The same when nothing is left to read.                                   *)
LEMMA DoneBy ==
  ASSUME NEW c \in Channel, NEW d,
         d = [c EXCEPT !.my = 0, !.fn = 0, !.tx = "idle", !.rx = "idle", !.peerClosed = FALSE,
                       !.cur = 0]
  PROVE  /\ d \in Channel /\ d.rx = "idle" /\ d.peer = c.peer /\ d.txSeq = c.txSeq
         /\ d.acked = c.acked /\ d.my = 0 /\ d.fn = 0 /\ d.tx = "idle"
<1>1. d \in Channel
  BY Zenon, StateNames DEF Channel
<1> QED
  BY Zenon, <1>1 DEF Channel

(* The transmitter's setConnected().                                        *)
LEMMA TxConnectedBy ==
  ASSUME NEW c \in Channel, NEW d, d = TxConnected(c)
  PROVE  /\ d \in Channel /\ d.my = c.my /\ d.fn = c.fn /\ d.txSeq = c.txSeq
         /\ d.peer = c.peer /\ d.rx = c.rx /\ d.rxSeq = c.rxSeq /\ d.rxCtl = c.rxCtl
         /\ d.ring = c.ring /\ d.cur = c.cur /\ d.tx = "connected" /\ d.acked = TRUE
         /\ d.txCtl = (c.my > c.peer)
<1>1. (c.my > c.peer) \in BOOLEAN
  BY DEF Channel
<1>2. d \in Channel
  BY Zenon, <1>1, StateNames DEF Channel, TxConnected
<1> QED
  BY Zenon, <1>2 DEF Channel, TxConnected

(* The receiver's setConnected().                                           *)
RxConnected(c, m) ==
  [c EXCEPT !.peer = m.id, !.rx = "connected", !.rxSeq = m.seq,
            !.rxCtl = c.my > m.id, !.needAck = m.want]

(* It leaves the rest of the link alone.                                    *)
LEMMA RxConnectedBy ==
  ASSUME NEW c \in Channel, NEW m \in ConnMsg, NEW e, e = RxConnected(c, m)
  PROVE  /\ e \in Channel /\ e.my = c.my /\ e.fn = c.fn /\ e.txSeq = c.txSeq
         /\ e.peer = m.id /\ e.rx = "connected" /\ e.rxSeq = m.seq
         /\ e.rxCtl = (c.my > m.id)
         /\ e.ring = c.ring /\ e.cur = c.cur /\ e.tx = c.tx /\ e.acked = c.acked
         /\ e.txCtl = c.txCtl
<1>1. /\ (c.my > m.id) \in BOOLEAN /\ m.want \in BOOLEAN /\ m.id \in Nat /\ m.seq \in Nat
  BY DEF Channel, ConnMsg
<1>2. e \in Channel
  BY Zenon, <1>1, StateNames DEF RxConnected, Channel
<1> QED
  BY Zenon, <1>2 DEF RxConnected, Channel

(* An acknowledgement is asked for or not.                                  *)
LEMMA NeedAckBy ==
  ASSUME NEW c \in Channel, NEW want \in BOOLEAN, NEW d, d = [c EXCEPT !.needAck = want]
  PROVE  SameLink(c, d) /\ d.ring = c.ring /\ d.cur = c.cur
<1>1. d \in Channel
  BY Zenon DEF Channel
<1> QED
  BY Zenon, <1>1 DEF Channel, SameLink

(* handleHandshakePacket() has one of four outcomes.                        *)
LEMMA HandshakenBy ==
  ASSUME NEW c \in Channel, NEW m \in ConnMsg, c.rx = "connecting" => c.ring = <<>>,
         NEW d, d = Handshaken(c, m)
  PROVE  d = c \/ GivenUp(c, d, m) \/ Recorded(c, d, m) \/ Heard(c, d, m)
<1>1. CASE IsEcho(c, m) \/ c.rx = "idle" \/ (c.rx = "connecting" /\ m.ack \notin {0, c.my})
  BY Zenon, <1>1 DEF Handshaken
<1>2. CASE c.rx = "connecting" /\ m.ack \in {0, c.my} /\ ~IsEcho(c, m) /\ Collides(c, m)
  <2>1. PICK e : e = RxBroken(c)
    BY Zenon
  <2>2. d = Dropped(e, "broken")
    BY Zenon, <1>2, <2>1, RxBrokenBy DEF Handshaken, SameId, Dropped, Channel
  <2>3. e \in Channel /\ e.rx = "idle" /\ e.peer = c.peer /\ e.txSeq = c.txSeq
        /\ e.acked = c.acked
    BY Zenon, <1>2, <2>1, RxBrokenBy
  <2>4. /\ d \in Channel /\ d.my = 0 /\ d.fn = 0 /\ d.tx = "broken" /\ d.rx = e.rx
        /\ d.peer = e.peer /\ d.txSeq = e.txSeq /\ d.acked = e.acked
    BY <2>2, <2>3, DroppedBy
  <2> QED
    BY Zenon, <1>2, <2>3, <2>4 DEF GivenUp
<1>3. CASE c.rx = "connecting" /\ m.ack \in {0, c.my} /\ ~IsEcho(c, m) /\ ~Collides(c, m)
  <2>1. d = Accepted(c, m)
    BY Zenon, <1>3 DEF Handshaken
  <2>2. PICK e : e = RxConnected(c, m)
    BY Zenon
  <2>3. /\ e \in Channel /\ e.my = c.my /\ e.fn = c.fn /\ e.txSeq = c.txSeq
        /\ e.peer = m.id /\ e.rx = "connected" /\ e.rxSeq = m.seq
        /\ e.rxCtl = (c.my > m.id)
        /\ e.ring = c.ring /\ e.cur = c.cur /\ e.tx = c.tx /\ e.acked = c.acked
        /\ e.txCtl = c.txCtl
    BY <2>2, RxConnectedBy
  <2>4. CASE m.ack # c.my
    BY Zenon, <1>3, <2>1, <2>2, <2>3, <2>4 DEF Accepted, RxConnected, Recorded, Answered, Collides
  <2>5. CASE m.ack = c.my
    <3>1. d = TxConnected(e)
      BY Zenon, <2>1, <2>2, <2>5 DEF Accepted, RxConnected
    <3>2. /\ d \in Channel /\ d.my = e.my /\ d.fn = e.fn /\ d.txSeq = e.txSeq
          /\ d.peer = e.peer /\ d.rx = e.rx /\ d.rxSeq = e.rxSeq /\ d.rxCtl = e.rxCtl
          /\ d.ring = e.ring /\ d.cur = e.cur /\ d.tx = "connected" /\ d.acked = TRUE
          /\ d.txCtl = (e.my > e.peer)
      BY Zenon, <2>3, <3>1, TxConnectedBy
    <3> QED
      BY Zenon, <1>3, <2>3, <2>5, <3>2 DEF Recorded, Answered, Collides
  <2> QED
    BY Zenon, <2>4, <2>5
<1>4. CASE c.rx = "connected" /\ ~IsEcho(c, m) /\ IsNewStream(c, m)
  <2>1. d = Broken(c)
    BY ZenonT(40), <1>4 DEF Handshaken
  <2>2. CASE RxDone(c)
    BY ZenonT(40), <1>4, <2>1, <2>2, DoneBy DEF Broken, GivenUp
  <2>3. CASE ~RxDone(c)
    <3>1. PICK e : e = RxBroken(c)
      OBVIOUS
    <3>2. PICK tx \in {"broken", "idle"} : d = Dropped(e, tx)
      BY Zenon, <2>1, <2>3, <3>1 DEF Broken, Dropped
    <3>3. /\ e \in Channel /\ e.peer = c.peer /\ e.txSeq = c.txSeq /\ e.acked = c.acked
          /\ e.rxSeq = c.rxSeq /\ e.ring = c.ring /\ e.cur = c.cur /\ e.rx \in {"idle", c.rx}
      BY Zenon, <3>1, RxBrokenBy
    <3>4. /\ d \in Channel /\ d.my = 0 /\ d.fn = 0 /\ d.tx = tx /\ d.rx = e.rx
          /\ d.peer = e.peer /\ d.txSeq = e.txSeq /\ d.acked = e.acked /\ d.rxSeq = e.rxSeq
          /\ d.ring = e.ring /\ d.cur = e.cur
      BY <3>2, <3>3, DroppedBy
    <3> QED
      BY Zenon, <1>4, <3>3, <3>4 DEF GivenUp
  <2> QED
    BY Zenon, <2>2, <2>3
<1>5. CASE c.rx = "connected" /\ ~IsEcho(c, m) /\ ~IsNewStream(c, m)
  <2>1. PICK e : e = IF AcksUs(c, m) THEN TxConnected(c) ELSE c
    BY Zenon
  <2>2. /\ e \in Channel /\ e.my = c.my /\ e.fn = c.fn /\ e.txSeq = c.txSeq
        /\ e.peer = c.peer /\ e.rx = c.rx /\ e.rxSeq = c.rxSeq /\ e.rxCtl = c.rxCtl
        /\ e.ring = c.ring /\ e.cur = c.cur
        /\ Answered(c, e, AcksUs(c, m))
    BY Zenon, <2>1, TxConnectedBy DEF Answered
  <2>3. d = [e EXCEPT !.needAck = m.want] /\ m.want \in BOOLEAN
    BY Zenon, <1>5, <2>1 DEF Handshaken, Acknowledged, ConnMsg
  <2>4. SameLink(e, d) /\ d.ring = e.ring /\ d.cur = e.cur
    BY Zenon, <2>2, <2>3, NeedAckBy
  <2> QED
    BY Zenon, <1>5, <2>2, <2>4 DEF Heard, Answered, SameLink
<1>6. c.rx \in RxState
  BY Zenon DEF Channel
<1> QED
  BY Zenon, <1>1, <1>2, <1>3, <1>4, <1>5, <1>6 DEF RxState
-----------------------------------------------------------------------------
Msg == ConnMsg \cup DataMsg

HandshakeType ==
  /\ ch \in [Node -> Channel] /\ net \in [Node -> Seq(Msg)]
  /\ DOMAIN drawn = Node /\ DOMAIN called = Node
  /\ \A n \in Node : drawn[n] \subseteq Ids[n] /\ called[n] \in [Ids[n] -> Nat]

(* The fields of a channel c, whose end has drawn the ids in mine and the   *)
(* other end the ones in theirs.                                            *)
LinkOk(c, mine, theirs) ==
  /\ c.fn = c.my /\ c.my \in {0} \cup mine /\ c.peer \in {0} \cup theirs
  /\ c.rx = "connecting" => /\ c.my # 0 /\ c.peer = 0 /\ c.ring = <<>>
                            /\ c.tx = "connecting" /\ c.acked = FALSE
  /\ c.tx = "connecting" => c.my # 0
  /\ c.tx = "connected" => c.txCtl = (c.my > c.peer)
  /\ c.my # 0 /\ c.peer # 0 => /\ c.my # c.peer /\ c.rx = "connected"
                               /\ c.rxCtl = (c.my > c.peer)

(* A packet m under way from the channel c.                                 *)
PacketOk(m, c, theirs, mine) ==
  /\ m.id \in {0} \cup theirs
  /\ m.type = "conn" => m.ack \in {0} \cup mine /\ (m.id # 0 /\ m.id = c.my => m.seq = c.txSeq)

(* A receiver starts where the transmitter of its peer does.                *)
SeqOk(c, o) == c.rx = "connected" /\ c.peer # 0 /\ c.peer = o.my => c.rxSeq = o.txSeq

(* The callback of every link that has been given up has been called.       *)
CallsCounted(n) ==
  \A i \in Ids[n] : called[n][i] = IF i \notin drawn[n] \/ ch[n].my = i THEN 0 ELSE 1

(* The inductive invariant behind the properties that hold of any           *)
(* transport and any application.                                           *)
HandshakeInv ==
  /\ HandshakeType
  /\ \A n \in Node :
       /\ LinkOk(ch[n], drawn[n], drawn[Other(n)])
       /\ \A k \in DOMAIN net[n] : PacketOk(net[n][k], ch[Other(n)], drawn[Other(n)], drawn[n])
       /\ SeqOk(ch[n], ch[Other(n)])
       /\ CallsCounted(n)
-----------------------------------------------------------------------------
(* The two ends.                                                            *)
LEMMA Others ==
  ASSUME NEW n \in Node
  PROVE  /\ Other(n) \in Node /\ Other(n) # n /\ Other(Other(n)) = n
         /\ \A p \in Node : p = n \/ p = Other(n)
<1>1. PICK a \in Node, b \in Node : a # b /\ Node = {a, b}
  BY Zenon, HandshakeAssumption
<1>2. \A p \in Node : Other(p) \in Node /\ Other(p) # p
  BY Zenon, <1>1 DEF Other
<1> QED
  BY Zenon, <1>1, <1>2

(* Stream ids are not 0.                                                    *)
LEMMA IdsPositive ==
  ASSUME NEW n \in Node
  PROVE  Ids[n] \subseteq Nat \ {0} /\ Seqs[n] \subseteq Nat
BY Zenon, HandshakeAssumption

(* A packet is taken out of the ones under way.                             *)
LEMMA WithoutOne ==
  ASSUME NEW S, NEW s \in Seq(S), NEW k \in DOMAIN s
  PROVE  /\ Without(s, k) \in Seq(S) /\ Len(Without(s, k)) = Len(s) - 1
         /\ \A j \in DOMAIN Without(s, k) : \E i \in DOMAIN s : Without(s, k)[j] = s[i]
<1>1. PICK r : r = Without(s, k)
  BY Zenon
<1>2. PICK l \in Nat : l = Len(s) - 1
  OBVIOUS
<1>3. r = [j \in 1 .. l |-> s[IF j < k THEN j ELSE j + 1]]
  BY Zenon, <1>1, <1>2 DEF Without
<1>4. \A j \in 1 .. l : (IF j < k THEN j ELSE j + 1) \in DOMAIN s
  BY <1>2
<1>5. \A j \in 1 .. l : r[j] \in S
  BY <1>3, <1>4
<1>6. r \in Seq(S) /\ Len(r) = l /\ DOMAIN r = 1 .. l
  BY <1>3, <1>5
<1> QED
  BY Zenon, <1>1, <1>2, <1>3, <1>4, <1>6

(* The first one.                                                           *)
LEMMA WithoutFirst ==
  ASSUME NEW S, NEW s \in Seq(S), 1 \in DOMAIN s
  PROVE  \A j \in DOMAIN Without(s, 1) : j + 1 \in DOMAIN s /\ Without(s, 1)[j] = s[j + 1]
BY DEF Without

(* One more packet is under way.                                            *)
LEMMA AppendOne ==
  ASSUME NEW S, NEW s \in Seq(S), NEW m \in S
  PROVE  /\ Append(s, m) \in Seq(S) /\ Len(Append(s, m)) = Len(s) + 1
         /\ \A j \in DOMAIN Append(s, m) :
              \/ j \in DOMAIN s /\ Append(s, m)[j] = s[j]
              \/ j = Len(s) + 1 /\ Append(s, m)[j] = m
OBVIOUS
-----------------------------------------------------------------------------
(* A step of end n that makes its channel d.                                *)
Steps(n, d) == ch' = [ch EXCEPT ![n] = d] /\ d \in Channel

(* It draws an id, or keeps or gives up the one it has.                     *)
Draws(n, d) ==
  \/ drawn' = drawn /\ d.my \in {0, ch[n].my} /\ d.txSeq = ch[n].txSeq
  \/ d.my \in Ids[n] \ drawn[n] /\ drawn' = [drawn EXCEPT ![n] = drawn[n] \cup {d.my}]

(* The packets under way are ones that were, or one more that n has sent.   *)
Carries(n, d) ==
  /\ net' \in [Node -> Seq(Msg)]
  /\ \A p \in Node : \A j \in DOMAIN net'[p] :
       \/ \E i \in DOMAIN net[p] : net'[p][j] = net[p][i]
       \/ p = Other(n) /\ PacketOk(net'[p][j], d, drawn[n], drawn[p])

(* The callback is that of the link that is given up.                       *)
Calls(n, d) ==
  \E fn : CallBack(n, fn) /\ fn = IF d.my = ch[n].my THEN 0 ELSE ch[n].my

(* What ids a step leaves drawn.                                            *)
LEMMA DrawsMore ==
  ASSUME HandshakeInv, NEW n \in Node, NEW d, Draws(n, d)
  PROVE  /\ DOMAIN drawn' = Node /\ drawn'[Other(n)] = drawn[Other(n)]
         /\ \A p \in Node : drawn[p] \subseteq drawn'[p] /\ drawn'[p] \subseteq Ids[p]
<1>1. DOMAIN drawn = Node /\ \A p \in Node : drawn[p] \subseteq Ids[p]
  BY Zenon DEF HandshakeInv, HandshakeType
<1>2. Other(n) \in Node /\ Other(n) # n
  BY Zenon, Others
<1>3. CASE drawn' = drawn
  BY Zenon, <1>1, <1>2, <1>3
<1>4. CASE d.my \in Ids[n] /\ drawn' = [drawn EXCEPT ![n] = drawn[n] \cup {d.my}]
  BY Zenon, <1>1, <1>2, <1>4
<1> QED
  BY Zenon, <1>3, <1>4 DEF Draws

(* The callbacks are counted as they are called.                            *)
LEMMA CallsStep ==
  ASSUME HandshakeInv, NEW n \in Node, NEW d, Steps(n, d), Draws(n, d), Calls(n, d)
  PROVE  /\ DOMAIN called' = Node
         /\ \A p \in Node : called'[p] \in [Ids[p] -> Nat] /\ CallsCounted(p)'
<1>1. PICK fn : CallBack(n, fn) /\ fn = IF d.my = ch[n].my THEN 0 ELSE ch[n].my
  BY Zenon DEF Calls
<1>2. /\ DOMAIN called = Node /\ DOMAIN drawn = Node /\ DOMAIN ch = Node
      /\ \A p \in Node : called[p] \in [Ids[p] -> Nat] /\ CallsCounted(p)
      /\ \A p \in Node : ch[p].my \in {0} \cup drawn[p] /\ drawn[p] \subseteq Ids[p]
  BY Zenon DEF HandshakeInv, HandshakeType, LinkOk
<1>3. ch'[n] = d /\ \A p \in Node : p # n => ch'[p] = ch[p]
  BY Zenon, <1>2 DEF Steps
<1>4. /\ DOMAIN called' = Node
      /\ \A p \in Node : p # n => called'[p] = called[p]
      /\ called'[n] \in [Ids[n] -> Nat]
      /\ \A i \in Ids[n] : called'[n][i] = IF i = fn /\ fn # 0 THEN called[n][i] + 1 ELSE called[n][i]
  BY <1>1, <1>2, IdsPositive DEF CallBack
<1>5. \A p \in Node : p # n => drawn'[p] = drawn[p]
  BY Zenon, <1>2 DEF Draws
<1>6. \A p \in Node : p # n => CallsCounted(p)'
  BY <1>2, <1>3, <1>4, <1>5 DEF CallsCounted
<1>7. ASSUME NEW i \in Ids[n]
      PROVE  called'[n][i] = IF i \notin drawn'[n] \/ d.my = i THEN 0 ELSE 1
  <2>1. i # 0 /\ called[n][i] = IF i \notin drawn[n] \/ ch[n].my = i THEN 0 ELSE 1
    BY Zenon, <1>2, IdsPositive DEF CallsCounted
  <2>2. CASE drawn' = drawn /\ d.my \in {0, ch[n].my}
    BY <1>1, <1>2, <1>4, <2>1, <2>2
  <2>3. CASE d.my \in Ids[n] \ drawn[n] /\ drawn'[n] = drawn[n] \cup {d.my}
    BY <1>1, <1>2, <1>4, <2>1, <2>3, IdsPositive
  <2> QED
    BY Zenon, <1>2, <2>2, <2>3 DEF Draws
<1>8. CallsCounted(n)'
  BY Zenon, <1>3, <1>7 DEF CallsCounted
<1> QED
  BY Zenon, <1>2, <1>4, <1>6, <1>8

(* A step of one end preserves the invariant when it keeps its own channel  *)
(* in order.                                                                *)
LEMMA EndStep ==
  ASSUME HandshakeInv, NEW n \in Node, NEW d, Steps(n, d), Draws(n, d), Carries(n, d), Calls(n, d),
         LinkOk(d, drawn'[n], drawn[Other(n)]), SeqOk(d, ch[Other(n)])
  PROVE  HandshakeInv'
<1>1. PICK o \in Node : o = Other(n) /\ o # n /\ Other(o) = n /\ \A p \in Node : p \in {n, o}
  BY Zenon, Others
<1>2. ch'[n] = d /\ ch'[o] = ch[o] /\ ch' \in [Node -> Channel]
  BY Zenon, <1>1 DEF Steps, HandshakeInv, HandshakeType
<1>3. /\ DOMAIN drawn' = Node /\ drawn'[o] = drawn[o] /\ drawn[n] \subseteq drawn'[n]
      /\ \A p \in Node : drawn'[p] \subseteq Ids[p]
  BY Zenon, <1>1, DrawsMore
<1>4. HandshakeType'
  BY Zenon, <1>2, <1>3, CallsStep DEF HandshakeType, Carries
<1>5. LinkOk(ch[o], drawn[o], drawn[n]) /\ SeqOk(ch[o], ch[n])
  BY Zenon, <1>1 DEF HandshakeInv
<1>6. PICK e : e = ch[o]
  BY Zenon
<1>7. \/ d.my \in {0, ch[n].my} /\ d.txSeq = ch[n].txSeq
      \/ d.my \notin drawn[n]
  BY Zenon DEF Draws
<1>8. LinkOk(e, drawn'[o], drawn'[n])
  BY Zenon, <1>3, <1>5, <1>6 DEF LinkOk
<1>9. SeqOk(e, d)
  BY Zenon, <1>5, <1>6, <1>7 DEF SeqOk, LinkOk
<1>10. ASSUME NEW k \in DOMAIN net'[n]
       PROVE  PacketOk(net'[n][k], e, drawn'[o], drawn'[n])
  <2>1. PICK m : m = net'[n][k]
    BY Zenon
  <2>2. PICK i \in DOMAIN net[n] : m = net[n][i]
    BY Zenon, <1>1, <2>1 DEF Carries
  <2>3. PacketOk(m, e, drawn[o], drawn[n])
    BY Zenon, <1>1, <1>6, <2>2 DEF HandshakeInv
  <2>4. PacketOk(m, e, drawn'[o], drawn'[n])
    BY Zenon, <1>3, <2>3 DEF PacketOk
  <2> QED
    BY Zenon, <2>1, <2>4
<1>11. ASSUME NEW k \in DOMAIN net'[o]
       PROVE  PacketOk(net'[o][k], d, drawn'[n], drawn'[o])
  <2>1. PICK m : m = net'[o][k]
    BY Zenon
  <2>2. CASE PacketOk(m, d, drawn[n], drawn[o])
    <3>1. PacketOk(m, d, drawn'[n], drawn'[o])
      BY Zenon, <1>3, <2>2 DEF PacketOk
    <3> QED
      BY Zenon, <2>1, <3>1
  <2>3. CASE \E i \in DOMAIN net[o] : m = net[o][i]
    <3>1. PICK i \in DOMAIN net[o] : m = net[o][i]
      BY Zenon, <2>3
    <3>2. PacketOk(m, ch[n], drawn[n], drawn[o])
      BY Zenon, <1>1, <3>1 DEF HandshakeInv
    <3>3. PacketOk(m, d, drawn'[n], drawn'[o])
      BY Zenon, <1>3, <1>7, <3>2 DEF PacketOk
    <3> QED
      BY Zenon, <2>1, <3>3
  <2> QED
    BY Zenon, <1>1, <2>1, <2>2, <2>3 DEF Carries
<1>12. ASSUME NEW p \in Node
       PROVE  /\ LinkOk(ch'[p], drawn'[p], drawn'[Other(p)])
              /\ \A k \in DOMAIN net'[p] :
                   PacketOk(net'[p][k], ch'[Other(p)], drawn'[Other(p)], drawn'[p])
              /\ SeqOk(ch'[p], ch'[Other(p)])
  <2>1. CASE p = n
    BY Zenon, <1>1, <1>2, <1>3, <1>6, <1>10, <2>1
  <2>2. CASE p = o
    BY Zenon, <1>1, <1>2, <1>6, <1>8, <1>9, <1>11, <2>2
  <2> QED
    BY Zenon, <1>1, <2>1, <2>2
<1>13. \A p \in Node : CallsCounted(p)'
  BY Zenon, CallsStep
<1> QED
  BY ZenonT(40), <1>4, <1>12, <1>13 DEF HandshakeInv, LinkOk, PacketOk, SeqOk
-----------------------------------------------------------------------------
(* Connect keeps the invariant: the id is new to both ends.                 *)
LEMMA ConnectKeeps ==
  ASSUME HandshakeInv, NEW n \in Node, Connect(n)
  PROVE  HandshakeInv'
<1>1. PICK id \in Ids[n] \ drawn[n], seq \in Seqs[n] :
        /\ ch' = [ch EXCEPT ![n] = Connecting(ch[n], id, seq)]
        /\ drawn' = [drawn EXCEPT ![n] = drawn[n] \cup {id}]
  BY Zenon DEF Connect
<1>2. PICK c, d : c = ch[n] /\ d = Connecting(c, id, seq)
  BY Zenon
<1>3. c \in Channel /\ id \in Nat \ {0} /\ seq \in Nat
  BY Zenon, <1>2, IdsPositive DEF HandshakeInv, HandshakeType
<1>4. Opened(c, d, id, seq)
  BY Zenon, <1>2, <1>3, OpenedBy
<1>5. LinkOk(c, drawn[n], drawn[Other(n)])
  BY Zenon, <1>2 DEF HandshakeInv
<1>6. Steps(n, d)
  BY Zenon, <1>1, <1>2, <1>4 DEF Steps, Opened
<1>7. Draws(n, d)
  BY Zenon, <1>1, <1>4 DEF Draws, Opened
<1>8. Carries(n, d)
  BY Zenon DEF Connect, Carries, HandshakeInv, HandshakeType
<1>9. Calls(n, d)
  <2>1. CallBack(n, c.fn) /\ c.fn = c.my /\ c.my # d.my
    BY Zenon, <1>2, <1>3, <1>4, <1>5 DEF Connect, LinkOk, Opened
  <2> QED
    BY Zenon, <1>2, <2>1 DEF Calls
<1>10. id \in drawn'[n]
  BY Zenon, <1>1 DEF HandshakeInv, HandshakeType
<1>11. LinkOk(d, drawn'[n], drawn[Other(n)]) /\ SeqOk(d, ch[Other(n)])
  BY Zenon, <1>3, <1>4, <1>10 DEF LinkOk, SeqOk, Opened
<1> QED
  BY Zenon, <1>6, <1>7, <1>8, <1>9, <1>11, EndStep

(* Disconnect keeps the invariant.                                          *)
LEMMA DisconnectKeeps ==
  ASSUME HandshakeInv, NEW n \in Node, Disconnect(n)
  PROVE  HandshakeInv'
<1>1. PICK c, d : c = ch[n] /\ d = Disconnected(c)
  BY Zenon
<1>2. c \in Channel /\ LinkOk(c, drawn[n], drawn[Other(n)])
  BY Zenon, <1>1 DEF HandshakeInv, HandshakeType
<1>3. Shut(c, d)
  BY Zenon, <1>1, <1>2, ShutBy
<1>4. Steps(n, d)
  BY Zenon, <1>1, <1>3 DEF Disconnect, Steps, Shut
<1>6. d.txSeq = c.txSeq
  BY Zenon, <1>1, <1>2 DEF Disconnected, Channel
<1>7. Draws(n, d)
  BY Zenon, <1>1, <1>3, <1>6 DEF Draws, Disconnect, Shut
<1>8. Carries(n, d)
  BY Zenon DEF Disconnect, Carries, HandshakeInv, HandshakeType
<1>9. Calls(n, d)
  <2>1. CallBack(n, c.fn) /\ c.fn = c.my /\ c.my # d.my
    BY Zenon, <1>1, <1>2, <1>3 DEF Disconnect, LinkOk, Shut
  <2> QED
    BY Zenon, <1>1, <2>1 DEF Calls
<1>10. LinkOk(d, drawn'[n], drawn[Other(n)]) /\ SeqOk(d, ch[Other(n)])
  BY Zenon, <1>3 DEF LinkOk, SeqOk, Shut
<1> QED
  BY Zenon, <1>4, <1>7, <1>8, <1>9, <1>10, EndStep

(* A step that leaves the link what it is keeps the invariant, whatever it  *)
(* sends, receives or reads.                                                *)
LEMMA SameLinkKeeps ==
  ASSUME HandshakeInv, NEW n \in Node, NEW d, ch' = [ch EXCEPT ![n] = d], SameLink(ch[n], d),
         ch[n].rx = "connecting" => d.ring = ch[n].ring,
         Carries(n, d), UNCHANGED <<drawn, called>>
  PROVE  HandshakeInv'
<1>1. PICK c : c = ch[n]
  BY Zenon
<1>2. LinkOk(c, drawn[n], drawn[Other(n)]) /\ SeqOk(c, ch[Other(n)])
  BY Zenon, <1>1 DEF HandshakeInv
<1>3. LinkOk(d, drawn'[n], drawn[Other(n)]) /\ SeqOk(d, ch[Other(n)])
  BY Zenon, <1>1, <1>2 DEF LinkOk, SeqOk, SameLink
<1>4. Steps(n, d) /\ Draws(n, d) /\ Calls(n, d)
  BY Zenon DEF Steps, Draws, Calls, SameLink, CallBack
<1> QED
  BY Zenon, <1>3, <1>4, EndStep

(* The handshake packet that a channel sends.                               *)
LEMMA ConnPacketOk ==
  ASSUME HandshakeInv, NEW n \in Node, NEW m, m = ConnPacket(ch[n])
  PROVE  /\ m \in ConnMsg /\ m.id = ch[n].my /\ m.ack = ch[n].peer /\ m.type = "conn"
         /\ m.want = (ch[n].tx # "connected") /\ m.seq = ch[n].txSeq
         /\ PacketOk(m, ch[n], drawn[n], drawn[Other(n)])
<1>1. PICK c : c = ch[n]
  BY Zenon
<1>2. c \in Channel /\ LinkOk(c, drawn[n], drawn[Other(n)])
  BY Zenon, <1>1 DEF HandshakeInv, HandshakeType
<1>3. (c.tx # "connected") \in BOOLEAN
  BY Zenon
<1>4. /\ m \in ConnMsg /\ m.id = c.my /\ m.ack = c.peer /\ m.type = "conn"
      /\ m.want = (c.tx # "connected") /\ m.seq = c.txSeq
  BY Zenon, <1>1, <1>2, <1>3 DEF ConnPacket, ConnMsg, Channel
<1>5. PacketOk(m, c, drawn[n], drawn[Other(n)])
  BY Zenon, <1>2, <1>4 DEF LinkOk, PacketOk
<1> QED
  BY Zenon, <1>1, <1>4, <1>5

(* One more packet to the other end.                                        *)
LEMMA SendCarries ==
  ASSUME HandshakeInv, NEW n \in Node, NEW d, NEW m \in Msg, SameLink(ch[n], d),
         net' = [net EXCEPT ![Other(n)] = Append(net[Other(n)], m)],
         PacketOk(m, ch[n], drawn[n], drawn[Other(n)])
  PROVE  /\ Carries(n, d) /\ net'[n] = net[n]
         /\ net'[Other(n)] = Append(net[Other(n)], m)
<1>1. PICK o \in Node : o = Other(n) /\ o # n /\ \A p \in Node : p \in {n, o}
  BY Zenon, Others
<1>2. net \in [Node -> Seq(Msg)]
  BY Zenon DEF HandshakeInv, HandshakeType
<1>3. PICK s : s = Append(net[o], m)
  BY Zenon
<1>4. s \in Seq(Msg) /\ \A j \in DOMAIN s : (j \in DOMAIN net[o] /\ s[j] = net[o][j]) \/ s[j] = m
  BY Zenon, <1>2, <1>3, AppendOne
<1>5. net' \in [Node -> Seq(Msg)] /\ net'[n] = net[n] /\ net'[o] = s
  BY Zenon, <1>1, <1>2, <1>3, <1>4
<1>6. PacketOk(m, d, drawn[n], drawn[o])
  BY Zenon, <1>1 DEF PacketOk, SameLink
<1>7. ASSUME NEW p \in Node, NEW j \in DOMAIN net'[p]
      PROVE  \/ \E i \in DOMAIN net[p] : net'[p][j] = net[p][i]
             \/ p = o /\ PacketOk(net'[p][j], d, drawn[n], drawn[p])
  <2>1. CASE p = n
    BY Zenon, <1>5, <2>1
  <2>2. CASE p = o
    BY Zenon, <1>4, <1>5, <1>6, <2>2
  <2> QED
    BY Zenon, <1>1, <2>1, <2>2
<1> QED
  BY Zenon, <1>1, <1>3, <1>5, <1>7 DEF Carries

(* SendConn and LoseConn keep the invariant ...                             *)
LEMMA ConnKeeps ==
  ASSUME HandshakeInv, NEW n \in Node, SendConn(n) \/ LoseConn(n)
  PROVE  HandshakeInv'
<1>1. PICK c, d : c = ch[n] /\ d = [c EXCEPT !.needAck = FALSE]
  BY Zenon
<1>2. c \in Channel /\ UNCHANGED <<drawn, called>>
  BY Zenon, <1>1 DEF HandshakeInv, HandshakeType, SendConn, LoseConn
<1>3. SameLink(c, d) /\ d.ring = c.ring
  BY Zenon, <1>1, <1>2, NeedAckBy
<1>4. ch' = [ch EXCEPT ![n] = d]
  BY Zenon, <1>1, <1>2 DEF SendConn, LoseConn, HandshakeInv, HandshakeType
<1>5. CASE SendConn(n)
  <2>1. PICK m : m = ConnPacket(c)
    BY Zenon
  <2>2. m \in Msg /\ PacketOk(m, ch[n], drawn[n], drawn[Other(n)])
    BY Zenon, <1>1, <2>1, ConnPacketOk DEF Msg
  <2>3. net' = [net EXCEPT ![Other(n)] = Append(net[Other(n)], m)]
    BY Zenon, <1>1, <1>5, <2>1 DEF SendConn
  <2>4. Carries(n, d)
    BY Zenon, <1>1, <1>3, <2>2, <2>3, SendCarries
  <2> QED
    BY Zenon, <1>1, <1>2, <1>3, <1>4, <2>4, SameLinkKeeps
<1>6. CASE LoseConn(n)
  <2>1. Carries(n, d)
    BY Zenon, <1>6 DEF LoseConn, Carries, HandshakeInv, HandshakeType
  <2> QED
    BY <1>1, <1>2, <1>3, <1>4, <2>1, SameLinkKeeps
<1> QED
  BY Zenon, <1>5, <1>6

(* ... as does SendData.                                                    *)
LEMMA SendDataKeeps ==
  ASSUME HandshakeInv, NEW n \in Node, SendData(n)
  PROVE  HandshakeInv'
<1>1. PICK c, m : c = ch[n] /\ m = [type |-> "data", id |-> c.my, ctl |-> c.txCtl]
  BY Zenon
<1>2. c \in Channel /\ UNCHANGED <<ch, drawn, called>> /\ ch' = [ch EXCEPT ![n] = c]
  BY Zenon, <1>1 DEF HandshakeInv, HandshakeType, SendData
<1>3. m \in Msg
  BY Zenon, <1>1, <1>2 DEF Msg, DataMsg, Channel
<1>4. PacketOk(m, ch[n], drawn[n], drawn[Other(n)])
  BY Zenon, <1>1 DEF PacketOk, HandshakeInv, LinkOk
<1>5. net' = [net EXCEPT ![Other(n)] = Append(net[Other(n)], m)]
  BY Zenon, <1>1 DEF SendData
<1>6. SameLink(ch[n], c)
  BY Zenon, <1>1, <1>2 DEF SameLink
<1>7. Carries(n, c)
  BY Zenon, <1>3, <1>4, <1>5, <1>6, SendCarries
<1> QED
  BY Zenon, <1>1, <1>2, <1>6, <1>7, SameLinkKeeps

(* A packet that n has received is under way no more.                       *)
LEMMA ReceiveCarries ==
  ASSUME HandshakeInv, NEW n \in Node, NEW d, NEW k \in Arrivals(n),
         net' = [net EXCEPT ![n] = Without(net[n], k)]
  PROVE  /\ Carries(n, d) /\ k \in DOMAIN net[n] /\ net[n][k] \in Msg
         /\ PacketOk(net[n][k], ch[Other(n)], drawn[Other(n)], drawn[n])
         /\ \A p \in Node : \A j \in DOMAIN net'[p] : \E i \in DOMAIN net[p] : net'[p][j] = net[p][i]
<1>1. net \in [Node -> Seq(Msg)] /\ k \in DOMAIN net[n]
  BY Zenon DEF HandshakeInv, HandshakeType, Arrivals
<1>2. PICK s : s = Without(net[n], k)
  BY Zenon
<1>3. s \in Seq(Msg) /\ \A j \in DOMAIN s : \E i \in DOMAIN net[n] : s[j] = net[n][i]
  BY <1>1, <1>2, WithoutOne
<1>4. /\ net' \in [Node -> Seq(Msg)]
      /\ \A p \in Node : \A j \in DOMAIN net'[p] : \E i \in DOMAIN net[p] : net'[p][j] = net[p][i]
  BY <1>1, <1>2, <1>3
<1> QED
  BY <1>1, <1>4 DEF Carries, HandshakeInv

(* ReceiveData keeps the invariant.                                         *)
LEMMA ReceiveDataKeeps ==
  ASSUME HandshakeInv, NEW n \in Node, ReceiveData(n)
  PROVE  HandshakeInv'
<1>1. PICK k \in Arrivals(n) :
        /\ \/ /\ DataWanted(ch[n], net[n][k])
              /\ ch' = [ch EXCEPT ![n].ring = Append(ch[n].ring, net[n][k].id)]
           \/ UNCHANGED ch
        /\ net' = [net EXCEPT ![n] = Without(net[n], k)]
        /\ UNCHANGED <<drawn, called>>
  BY Zenon DEF ReceiveData
<1>2. PICK c, i : c = ch[n] /\ i = net[n][k].id
  BY Zenon
<1>3. c \in Channel /\ i \in Nat /\ ch \in [Node -> Channel]
  BY Zenon, <1>1, <1>2, ReceiveCarries DEF HandshakeInv, HandshakeType, Msg, ConnMsg, DataMsg
<1>4. \A d : Carries(n, d)
  BY Zenon, <1>1, ReceiveCarries
<1>5. CASE UNCHANGED ch
  <2>1. SameLink(ch[n], c) /\ ch' = [ch EXCEPT ![n] = c]
    BY Zenon, <1>2, <1>3, <1>5 DEF SameLink
  <2> QED
    BY Zenon, <1>1, <1>2, <1>4, <2>1, SameLinkKeeps
<1>6. CASE DataWanted(c, net[n][k]) /\ ch' = [ch EXCEPT ![n].ring = Append(c.ring, i)]
  <2>1. PICK r, d : r = Append(c.ring, i) /\ d = [c EXCEPT !.ring = r]
    BY Zenon
  <2>2. r \in Seq(Nat)
    BY <1>3, <2>1 DEF Channel
  <2>3. d \in Channel
    BY Zenon, <1>3, <2>1, <2>2 DEF Channel
  <2>4. SameLink(ch[n], d)
    BY Zenon, <1>2, <1>3, <2>1, <2>3 DEF Channel, SameLink
  <2>5. ch' = [ch EXCEPT ![n] = d] /\ ch[n].rx # "connecting"
    BY Zenon, <1>2, <1>3, <1>6, <2>1 DEF DataWanted
  <2> QED
    BY Zenon, <1>1, <1>4, <2>4, <2>5, SameLinkKeeps
<1> QED
  BY Zenon, <1>1, <1>2, <1>5, <1>6

(* Read and ReadPart keep the invariant.                                    *)
LEMMA ReadKeeps ==
  ASSUME HandshakeInv, NEW n \in Node, Read(n) \/ ReadPart(n)
  PROVE  HandshakeInv'
<1>1. PICK c : c = ch[n]
  BY Zenon
<1>2. c \in Channel /\ ch \in [Node -> Channel] /\ UNCHANGED <<net, drawn, called>>
  BY Zenon, <1>1 DEF HandshakeInv, HandshakeType, Read, ReadPart
<1>3. c.rx = "connected" /\ c.ring \in Seq(Nat) /\ c.ring # <<>>
  BY Zenon, <1>1, <1>2 DEF Read, ReadPart, Channel
<1>4. Tail(c.ring) \in Seq(Nat) /\ Head(c.ring) \in Nat
  BY <1>3
<1>5. PICK r \in Seq(Nat), cur \in Nat : ch' = [ch EXCEPT ![n] = [c EXCEPT !.ring = r, !.cur = cur]]
  <2>1. CASE Read(n)
    BY Zenon, <1>1, <1>2, <1>4, <2>1 DEF Read
  <2>2. CASE ReadPart(n)
    <3>1. [c EXCEPT !.ring = c.ring, !.cur = Head(c.ring)] = [c EXCEPT !.cur = Head(c.ring)]
      BY Zenon, <1>2 DEF Channel
    <3> QED
      BY Zenon, <1>1, <1>2, <1>3, <1>4, <2>2, <3>1 DEF ReadPart
  <2> QED
    BY Zenon, <2>1, <2>2
<1>6. PICK d : d = [c EXCEPT !.ring = r, !.cur = cur]
  BY Zenon
<1>7. d \in Channel
  BY Zenon, <1>2, <1>6 DEF Channel
<1>8. SameLink(c, d)
  BY Zenon, <1>2, <1>6, <1>7 DEF SameLink, Channel
<1>9. Carries(n, d)
  BY Zenon, <1>2 DEF Carries, HandshakeInv, HandshakeType
<1> QED
  BY Zenon, <1>1, <1>2, <1>3, <1>5, <1>6, <1>8, <1>9, SameLinkKeeps

(* ReceiveConn: what n makes of the packet m that it takes.                 *)
Took(n, d, m) ==
  \/ d = ch[n]
  \/ GivenUp(ch[n], d, m) \/ Recorded(ch[n], d, m) \/ Heard(ch[n], d, m)

(* That is all that ReceiveConn does.                                       *)
LEMMA Takes ==
  ASSUME HandshakeInv, NEW n \in Node, ReceiveConn(n)
  PROVE  \E k \in Arrivals(n), d \in Channel :
           /\ net[n][k].type = "conn" /\ net[n][k] \in ConnMsg
           /\ Took(n, d, net[n][k])
           /\ ch' = [ch EXCEPT ![n] = d]
           /\ net' = [net EXCEPT ![n] = Without(net[n], k)]
           /\ CallBack(n, IF d.fn = 0 THEN ch[n].fn ELSE 0)
           /\ met' = IF d.my # 0 /\ d.peer # 0 THEN met \cup {<<d.my, d.peer>>} ELSE met
           /\ drawn' = drawn
<1>1. PICK k \in Arrivals(n) :
        LET m == net[n][k]
            c == Handshaken(ch[n], m)
        IN  /\ m.type = "conn"
            /\ ch' = [ch EXCEPT ![n] = c]
            /\ net' = [net EXCEPT ![n] = Without(net[n], k)]
            /\ CallBack(n, IF c.fn = 0 THEN ch[n].fn ELSE 0)
            /\ met' = IF c.my # 0 /\ c.peer # 0 THEN met \cup {<<c.my, c.peer>>} ELSE met
            /\ drawn' = drawn
  BY Zenon DEF ReceiveConn
<1>2. PICK m, c, d : m = net[n][k] /\ c = ch[n] /\ d = Handshaken(c, m)
  BY Zenon
<1>3. c \in Channel /\ (c.rx = "connecting" => c.ring = <<>>)
  BY Zenon, <1>2 DEF HandshakeInv, HandshakeType, LinkOk
<1>4. m \in Msg /\ m.type = "conn"
  BY Zenon, <1>1, <1>2, ReceiveCarries
<1>5. m \in ConnMsg
  BY Zenon, <1>4 DEF Msg, ConnMsg, DataMsg
<1>6. d = c \/ GivenUp(c, d, m) \/ Recorded(c, d, m) \/ Heard(c, d, m)
  BY Zenon, <1>2, <1>3, <1>5, HandshakenBy
<1>7. d \in Channel
  BY Zenon, <1>3, <1>6 DEF GivenUp, Recorded, Heard
<1> QED
  BY Zenon, <1>1, <1>2, <1>5, <1>6, <1>7 DEF Took

(* ReceiveConn keeps the invariant.                                         *)
LEMMA ReceiveConnKeeps ==
  ASSUME HandshakeInv, NEW n \in Node, ReceiveConn(n)
  PROVE  HandshakeInv'
<1>1. PICK k \in Arrivals(n), d \in Channel :
        /\ net[n][k].type = "conn" /\ net[n][k] \in ConnMsg
        /\ Took(n, d, net[n][k])
        /\ ch' = [ch EXCEPT ![n] = d]
        /\ net' = [net EXCEPT ![n] = Without(net[n], k)]
        /\ CallBack(n, IF d.fn = 0 THEN ch[n].fn ELSE 0)
        /\ drawn' = drawn
  BY Zenon, Takes
<1>2. PICK m, c, o : m = net[n][k] /\ c = ch[n] /\ o = ch[Other(n)]
  BY Zenon
<1>3. /\ c \in Channel /\ LinkOk(c, drawn[n], drawn[Other(n)]) /\ SeqOk(c, o)
      /\ drawn[n] \subseteq Nat \ {0} /\ drawn[Other(n)] \subseteq Nat \ {0}
  BY Zenon, <1>2, Others, IdsPositive DEF HandshakeInv, HandshakeType
<1>4. Carries(n, d) /\ PacketOk(m, o, drawn[Other(n)], drawn[n])
  BY Zenon, <1>1, <1>2, ReceiveCarries
<1>5. m \in ConnMsg /\ m.type = "conn" /\ m.id \in Nat
  BY Zenon, <1>1, <1>2 DEF ConnMsg
<1>6. Steps(n, d)
  BY Zenon, <1>1 DEF Steps
<1>7. /\ LinkOk(d, drawn[n], drawn[Other(n)]) /\ SeqOk(d, o)
      /\ d.my \in {0, c.my} /\ d.txSeq = c.txSeq
  <2>1. CASE d = c
    BY Zenon, <1>3, <2>1
  <2>2. CASE GivenUp(c, d, m)
    <3>1. LinkOk(d, drawn[n], drawn[Other(n)])
      BY Zenon, <1>3, <2>2 DEF GivenUp, LinkOk
    <3>2. SeqOk(d, o)
      BY Zenon, <1>3, <2>2 DEF GivenUp, SeqOk
    <3> QED
      BY Zenon, <2>2, <3>1, <3>2 DEF GivenUp
  <2>3. CASE Recorded(c, d, m)
    <3>1. m.id \in {0} \cup drawn[Other(n)] /\ (m.id # 0 /\ m.id = o.my => m.seq = o.txSeq)
      BY Zenon, <1>4, <1>5 DEF PacketOk
    <3>3. d.tx = "connected" => d.txCtl = (d.my > d.peer)
      BY Zenon, <1>3, <2>3 DEF Recorded, Answered, LinkOk
    <3>4. LinkOk(d, drawn[n], drawn[Other(n)])
      BY Zenon, <1>3, <2>3, <3>1, <3>3 DEF Recorded, LinkOk, Answered
    <3>5. SeqOk(d, o)
      BY Zenon, <2>3, <3>1 DEF Recorded, SeqOk
    <3> QED
      BY Zenon, <2>3, <3>4, <3>5 DEF Recorded
  <2>4. CASE Heard(c, d, m)
    <3>1. d.tx = "connected" => d.txCtl = (d.my > d.peer)
      BY Zenon, <1>3, <2>4 DEF Heard, Answered, LinkOk
    <3>2. LinkOk(d, drawn[n], drawn[Other(n)])
      BY Zenon, <1>3, <2>4, <3>1 DEF Heard, LinkOk, Answered
    <3>3. SeqOk(d, o)
      BY Zenon, <1>3, <2>4 DEF Heard, SeqOk
    <3> QED
      BY Zenon, <2>4, <3>2, <3>3 DEF Heard
  <2> QED
    BY Zenon, <1>1, <1>2, <2>1, <2>2, <2>3, <2>4 DEF Took
<1>8. Draws(n, d)
  BY Zenon, <1>1, <1>2, <1>7 DEF Draws
<1>9. Calls(n, d)
  <2>1. PICK fn : fn = (IF d.fn = 0 THEN c.fn ELSE 0) /\ CallBack(n, fn)
    BY Zenon, <1>1, <1>2
  <2>2. fn = IF d.my = c.my THEN 0 ELSE c.my
    BY Zenon, <1>3, <1>7, <2>1 DEF LinkOk
  <2> QED
    BY Zenon, <1>2, <2>1, <2>2 DEF Calls
<1> QED
  BY Zenon, <1>1, <1>2, <1>4, <1>6, <1>7, <1>8, <1>9, EndStep
-----------------------------------------------------------------------------
(* The invariant holds at first ...                                         *)
LEMMA HandshakeInitially ==
  ASSUME Init
  PROVE  HandshakeInv
<1>1. Closed \in Channel
  BY Zenon, StateNames DEF Closed, Channel
<1>2. \A n \in Node : ch[n] = Closed /\ net[n] = <<>> /\ drawn[n] = {}
  BY Zenon DEF Init
<1>3. HandshakeType
  BY <1>1 DEF Init, HandshakeType
<1>4. \A n \in Node : LinkOk(ch[n], drawn[n], drawn[Other(n)]) /\ SeqOk(ch[n], ch[Other(n)])
  <2>1. PICK c : c = Closed
    BY Zenon
  <2>2. c.my = 0 /\ c.fn = 0 /\ c.peer = 0 /\ c.tx = "idle" /\ c.rx = "idle"
    BY Zenon, <2>1 DEF Closed
  <2>3. \A n \in Node : LinkOk(c, drawn[n], drawn[Other(n)]) /\ SeqOk(c, ch[Other(n)])
    BY Zenon, <2>2 DEF LinkOk, SeqOk
  <2> QED
    BY Zenon, <1>2, <2>1, <2>3
<1>5. \A n \in Node : CallsCounted(n)
  BY Zenon, <1>2 DEF Init, CallsCounted
<1> QED
  BY <1>2, <1>3, <1>4, <1>5 DEF HandshakeInv

(* ... and after every step.                                                *)
LEMMA HandshakeKept ==
  ASSUME HandshakeInv, [Next]_vars
  PROVE  HandshakeInv'
<1>1. CASE UNCHANGED vars
  BY <1>1 DEF vars, HandshakeInv, HandshakeType, LinkOk, PacketOk, SeqOk, CallsCounted
<1>2. CASE Next
  BY Zenon, <1>2, ConnectKeeps, DisconnectKeeps, ConnKeeps, SendDataKeeps, ReceiveConnKeeps,
     ReceiveDataKeeps, ReadKeeps DEF Next
<1> QED
  BY Zenon, <1>1, <1>2

(* Whatever the transport does and whatever the application, the invariant  *)
(* holds.                                                                   *)
THEOREM HandshakeInvariant == Spec => []HandshakeInv
<1>1. Init => HandshakeInv
  BY Zenon, HandshakeInitially
<1>2. HandshakeInv /\ [Next]_vars => HandshakeInv'
  BY Zenon, HandshakeKept
<1> QED
  BY <1>1, <1>2, PTL DEF Spec

(* The disconnect callback of a link is called exactly once, whoever ends   *)
(* it and however late the packets are.                                     *)
THEOREM CallbackCalledOnceEver == Spec => []CallbackOnce
<1>1. HandshakeInv => CallbackOnce
  BY Zenon DEF HandshakeInv, HandshakeType, CallsCounted, CallbackOnce
<1> QED
  BY <1>1, HandshakeInvariant, PTL
-----------------------------------------------------------------------------
(* The steps by what they come to.  End n makes its channel d, and the      *)
(* other end's stays.                                                       *)
Moves(n, d) == d \in Channel /\ ch'[n] = d /\ ch'[Other(n)] = ch[Other(n)]

Opens(n, d) ==
  /\ d.my \in Ids[n] \ drawn[n] /\ Opened(ch[n], d, d.my, d.txSeq)
  /\ net' = net /\ met' = met
  /\ Quiet => ~Stale(n)
  /\ ch[n].cur = 0 \/ Abandon

Closes(n, d) == Shut(ch[n], d) /\ net' = net /\ met' = met

Sends(n, d, m) ==
  /\ SameLink(ch[n], d) /\ d.ring = ch[n].ring /\ d.cur = ch[n].cur
  /\ m \in Msg /\ m.id = ch[n].my
  /\ \/ /\ m.type = "conn" /\ ch[n].tx \in {"connecting", "connected"}
        /\ m.ack = ch[n].peer /\ m.want = (ch[n].tx # "connected")
     \/ m.type = "data" /\ ch[n].tx = "connected"
  /\ net'[n] = net[n] /\ net'[Other(n)] = Append(net[Other(n)], m) /\ met' = met

Loses(n, k) ==
  /\ k \in Arrivals(n)
  /\ net'[n] = Without(net[n], k) /\ net'[Other(n)] = net[Other(n)]

TakesConn(n, d, k) ==
  /\ Loses(n, k) /\ net[n][k].type = "conn" /\ Took(n, d, net[n][k])
  /\ met' = IF d.my # 0 /\ d.peer # 0 THEN met \cup {<<d.my, d.peer>>} ELSE met

TakesData(n, d, k) ==
  /\ Loses(n, k) /\ net[n][k].type = "data"
  /\ SameLink(ch[n], d) /\ d.cur = ch[n].cur /\ met' = met
  /\ \/ d.ring = ch[n].ring
     \/ ch[n].rx = "connected" /\ d.ring = Append(ch[n].ring, net[n][k].id)

Reads(n, d) ==
  /\ SameLink(ch[n], d) /\ net' = net /\ met' = met
  /\ \/ d.ring = ch[n].ring /\ d.cur = ch[n].cur
     \/ /\ ch[n].rx = "connected" /\ ch[n].ring # <<>>
        /\ \/ d.ring = ch[n].ring /\ d.cur = Head(ch[n].ring)
           \/ d.ring = Tail(ch[n].ring) /\ d.cur = 0

(* Connect ...                                                              *)
LEMMA ConnectOpens ==
  ASSUME HandshakeInv, NEW n \in Node, Connect(n)
  PROVE  \E d : Moves(n, d) /\ Opens(n, d)
<1>1. PICK id \in Ids[n] \ drawn[n], seq \in Seqs[n] :
        ch' = [ch EXCEPT ![n] = Connecting(ch[n], id, seq)]
  BY Zenon DEF Connect
<1>2. PICK c, d : c = ch[n] /\ d = Connecting(c, id, seq)
  OBVIOUS
<1>3. c \in Channel /\ id \in Nat /\ seq \in Nat /\ ch \in [Node -> Channel]
  BY Zenon, <1>2, IdsPositive DEF HandshakeInv, HandshakeType
<1>4. Opened(c, d, id, seq)
  BY Zenon, <1>2, <1>3, OpenedBy
<1>5. d \in Channel /\ d.my = id /\ d.txSeq = seq
  BY Zenon, <1>4 DEF Opened
<1>6. Moves(n, d)
  BY Zenon, <1>1, <1>2, <1>3, <1>5, Others DEF Moves
<1>7. Opens(n, d)
  BY Zenon, <1>2, <1>4, <1>5 DEF Opens, Connect
<1> QED
  BY Zenon, <1>6, <1>7

(* ... Disconnect ...                                                       *)
LEMMA DisconnectCloses ==
  ASSUME HandshakeInv, NEW n \in Node, Disconnect(n)
  PROVE  \E d : Moves(n, d) /\ Closes(n, d)
<1>1. PICK c, d : c = ch[n] /\ d = Disconnected(c)
  OBVIOUS
<1>2. c \in Channel /\ ch \in [Node -> Channel] /\ ch' = [ch EXCEPT ![n] = d]
  BY Zenon, <1>1 DEF HandshakeInv, HandshakeType, Disconnect
<1>3. Shut(c, d)
  BY Zenon, <1>1, <1>2, ShutBy
<1>4. Moves(n, d)
  BY Zenon, <1>2, <1>3, Others DEF Moves, Shut
<1> QED
  BY Zenon, <1>1, <1>3, <1>4 DEF Closes, Disconnect

(* ... SendConn and LoseConn ...                                            *)
LEMMA SendConnSends ==
  ASSUME HandshakeInv, NEW n \in Node, SendConn(n) \/ LoseConn(n)
  PROVE  \E d : Moves(n, d) /\ (Reads(n, d) \/ \E m : Sends(n, d, m))
<1>1. PICK c, d, m : c = ch[n] /\ d = [c EXCEPT !.needAck = FALSE] /\ m = ConnPacket(ch[n])
  BY Zenon
<1>2. c \in Channel /\ ch \in [Node -> Channel] /\ net \in [Node -> Seq(Msg)]
  BY Zenon, <1>1 DEF HandshakeInv, HandshakeType
<1>3. SameLink(c, d) /\ d.ring = c.ring /\ d.cur = c.cur
  BY Zenon, <1>1, <1>2, NeedAckBy
<1>4. ch' = [ch EXCEPT ![n] = d]
  BY Zenon, <1>1, <1>2 DEF SendConn, LoseConn
<1>5. Moves(n, d)
  BY Zenon, <1>2, <1>3, <1>4, Others DEF Moves, SameLink
<1>6. CASE LoseConn(n)
  BY Zenon, <1>1, <1>3, <1>5, <1>6 DEF LoseConn, Reads
<1>7. CASE SendConn(n)
  <2>1. /\ m \in Msg /\ m.id = c.my /\ m.ack = c.peer /\ m.type = "conn"
        /\ m.want = (c.tx # "connected")
    BY Zenon, <1>1, ConnPacketOk DEF Msg
  <2>2. /\ net'[n] = net[n] /\ net'[Other(n)] = Append(net[Other(n)], m) /\ met' = met
        /\ c.tx \in {"connecting", "connected"}
    BY Zenon, <1>1, <1>2, <1>7, Others DEF SendConn, ConnDue
  <2>3. Sends(n, d, m)
    BY Zenon, <1>1, <1>3, <2>1, <2>2 DEF Sends
  <2> QED
    BY Zenon, <1>5, <2>3
<1> QED
  BY Zenon, <1>6, <1>7

(* ... SendData ...                                                         *)
LEMMA SendDataSends ==
  ASSUME HandshakeInv, NEW n \in Node, SendData(n)
  PROVE  \E d, m : Moves(n, d) /\ Sends(n, d, m)
<1>1. PICK c, m : c = ch[n] /\ m = [type |-> "data", id |-> c.my, ctl |-> c.txCtl]
  OBVIOUS
<1>2. c \in Channel /\ net \in [Node -> Seq(Msg)] /\ ch' = ch /\ met' = met
  BY Zenon, <1>1 DEF HandshakeInv, HandshakeType, SendData
<1>3. m \in Msg /\ m.type = "data" /\ m.id = c.my
  BY Zenon, <1>1, <1>2 DEF Msg, DataMsg, Channel
<1>4. /\ net'[n] = net[n] /\ net'[Other(n)] = Append(net[Other(n)], m)
      /\ c.tx = "connected"
  BY Zenon, <1>1, <1>2, Others DEF SendData
<1>5. SameLink(c, c)
  BY Zenon, <1>2 DEF SameLink
<1>6. Moves(n, c) /\ Sends(n, c, m)
  BY Zenon, <1>1, <1>2, <1>3, <1>4, <1>5 DEF Moves, Sends
<1> QED
  BY Zenon, <1>6

(* ... ReceiveConn ...                                                      *)
LEMMA ReceiveConnTakes ==
  ASSUME HandshakeInv, NEW n \in Node, ReceiveConn(n)
  PROVE  \E d, k : Moves(n, d) /\ TakesConn(n, d, k)
<1>1. PICK k \in Arrivals(n), d \in Channel :
        /\ net[n][k].type = "conn" /\ net[n][k] \in ConnMsg
        /\ Took(n, d, net[n][k])
        /\ ch' = [ch EXCEPT ![n] = d]
        /\ net' = [net EXCEPT ![n] = Without(net[n], k)]
        /\ met' = IF d.my # 0 /\ d.peer # 0 THEN met \cup {<<d.my, d.peer>>} ELSE met
  BY Zenon, Takes
<1>2. ch \in [Node -> Channel] /\ net \in [Node -> Seq(Msg)]
  BY Zenon DEF HandshakeInv, HandshakeType
<1>3. Moves(n, d) /\ Loses(n, k)
  BY Zenon, <1>1, <1>2, Others DEF Moves, Loses
<1>4. TakesConn(n, d, k)
  BY Zenon, <1>1, <1>3 DEF TakesConn
<1> QED
  BY Zenon, <1>3, <1>4

(* ... ReceiveData ...                                                      *)
LEMMA ReceiveDataTakes ==
  ASSUME HandshakeInv, NEW n \in Node, ReceiveData(n)
  PROVE  \E d, k : Moves(n, d) /\ TakesData(n, d, k)
<1>1. PICK k \in Arrivals(n) :
        /\ net[n][k].type = "data"
        /\ \/ /\ DataWanted(ch[n], net[n][k])
              /\ ch' = [ch EXCEPT ![n].ring = Append(ch[n].ring, net[n][k].id)]
           \/ UNCHANGED ch
        /\ net' = [net EXCEPT ![n] = Without(net[n], k)]
        /\ met' = met
  BY Zenon DEF ReceiveData
<1>2. PICK c, i : c = ch[n] /\ i = net[n][k].id
  OBVIOUS
<1>3. /\ c \in Channel /\ i \in Nat /\ ch \in [Node -> Channel] /\ net \in [Node -> Seq(Msg)]
      /\ c.ring \in Seq(Nat)
  BY Zenon, <1>1, <1>2, ReceiveCarries DEF HandshakeInv, HandshakeType, Msg, ConnMsg, DataMsg,
     Channel
<1>4. Loses(n, k)
  BY Zenon, <1>1, <1>3, Others DEF Loses
<1>5. CASE UNCHANGED ch
  <2>1. SameLink(c, c)
    BY Zenon, <1>3 DEF SameLink
  <2>2. Moves(n, c) /\ TakesData(n, c, k)
    BY Zenon, <1>1, <1>2, <1>3, <1>4, <1>5, <2>1 DEF Moves, TakesData
  <2> QED
    BY Zenon, <2>2
<1>6. CASE DataWanted(c, net[n][k]) /\ ch' = [ch EXCEPT ![n].ring = Append(c.ring, i)]
  <2>1. PICK r, d : r = Append(c.ring, i) /\ d = [c EXCEPT !.ring = r]
    OBVIOUS
  <2>2. r \in Seq(Nat)
    BY <1>3, <2>1
  <2>3. d \in Channel
    BY Zenon, <1>3, <2>1, <2>2 DEF Channel
  <2>4. SameLink(c, d) /\ d.ring = r /\ d.cur = c.cur
    BY Zenon, <1>3, <2>1, <2>3 DEF Channel, SameLink
  <2>5. ch' = [ch EXCEPT ![n] = d] /\ c.rx = "connected"
    BY Zenon, <1>2, <1>3, <1>6, <2>1 DEF DataWanted
  <2>6. Moves(n, d)
    BY Zenon, <1>3, <2>3, <2>5, Others DEF Moves
  <2>7. TakesData(n, d, k)
    BY Zenon, <1>1, <1>2, <1>4, <2>1, <2>4, <2>5 DEF TakesData
  <2> QED
    BY Zenon, <2>6, <2>7
<1> QED
  BY Zenon, <1>1, <1>2, <1>5, <1>6

(* ... Read and ReadPart.                                                   *)
LEMMA ReadReads ==
  ASSUME HandshakeInv, NEW n \in Node, Read(n) \/ ReadPart(n)
  PROVE  \E d : Moves(n, d) /\ Reads(n, d)
<1>1. PICK c : c = ch[n]
  OBVIOUS
<1>2. /\ c \in Channel /\ ch \in [Node -> Channel] /\ net' = net /\ met' = met
      /\ c.rx = "connected" /\ c.ring \in Seq(Nat) /\ c.ring # <<>>
  BY Zenon, <1>1 DEF HandshakeInv, HandshakeType, Read, ReadPart, Channel
<1>3. Tail(c.ring) \in Seq(Nat) /\ Head(c.ring) \in Nat /\ 0 \in Nat
  BY <1>2
<1>4. PICK r \in Seq(Nat), cur \in Nat :
        /\ ch' = [ch EXCEPT ![n] = [c EXCEPT !.ring = r, !.cur = cur]]
        /\ \/ r = c.ring /\ cur = Head(c.ring)
           \/ r = Tail(c.ring) /\ cur = 0
  <2>1. CASE Read(n)
    BY Zenon, <1>1, <1>2, <1>3, <2>1 DEF Read
  <2>2. CASE ReadPart(n)
    <3>1. PICK h \in Nat : h = Head(c.ring)
      BY Zenon, <1>3
    <3>2. [c EXCEPT !.ring = c.ring, !.cur = h] = [c EXCEPT !.cur = h]
      BY Zenon, <1>2 DEF Channel
    <3>3. ch' = [ch EXCEPT ![n] = [c EXCEPT !.ring = c.ring, !.cur = h]]
      BY Zenon, <1>1, <1>2, <2>2, <3>1, <3>2 DEF ReadPart
    <3> QED
      BY Zenon, <1>2, <3>1, <3>3
  <2> QED
    BY Zenon, <2>1, <2>2
<1>5. PICK d : d = [c EXCEPT !.ring = r, !.cur = cur]
  OBVIOUS
<1>6. d \in Channel
  BY Zenon, <1>2, <1>5 DEF Channel
<1>7. SameLink(c, d) /\ d.ring = r /\ d.cur = cur
  BY Zenon, <1>2, <1>5, <1>6 DEF SameLink, Channel
<1>8. Moves(n, d)
  BY Zenon, <1>2, <1>4, <1>5, <1>6, Others DEF Moves
<1>9. Reads(n, d)
  BY Zenon, <1>1, <1>2, <1>4, <1>7 DEF Reads
<1> QED
  BY Zenon, <1>8, <1>9
=============================================================================
