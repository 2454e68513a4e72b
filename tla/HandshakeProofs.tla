--------------------------- MODULE HandshakeProofs ---------------------------
(***************************************************************************)
(* What the handshake of two channels guarantees, for every number of ids  *)
(* that the ends may draw, and so of links that they open, close and       *)
(* restart, and every number of packets on the way.                        *)
(*                                                                         *)
(* Two things make old handshake packets harmless, and either will do:     *)
(* packets that arrive in the order they were sent (InOrder), or           *)
(* applications that let them drain before they connect again (Quiet).     *)
(* SettledInv holds with either of them: the ids that a connected channel  *)
(* goes by are real.  OrderInv is for the first: the packets on the way to *)
(* an end are in the order of the peer's links, so that no id comes back   *)
(* once there has been another.  MutualInv is for the second: all          *)
(* handshake packets on the way to an end are of one link, and the sender  *)
(* has opened none since.                                                  *)
(***************************************************************************)
EXTENDS HandshakeSteps
-----------------------------------------------------------------------------
(* The ids that a channel goes by once it is connected, and the ones its    *)
(* packets carry, are not 0; a link that was given up with packets still    *)
(* to be read hears no more of the peer that sent them.                     *)
EndOk(c) ==
  /\ c.tx = "connected" => c.my # 0 /\ c.peer # 0
  /\ c.rx = "connected" => c.peer # 0

MsgOk(m) == m.id # 0 /\ (m.type = "conn" /\ m.ack = 0 => m.want)

Deaf(c, o, packets) ==
  c.my = 0 /\ c.rx = "connected" =>
    /\ o.my # c.peer
    /\ \A k \in DOMAIN packets : packets[k].type = "conn" => packets[k].id # c.peer

SettledInv ==
  \A n \in Node :
    /\ EndOk(ch[n]) /\ Deaf(ch[n], ch[Other(n)], net[n])
    /\ \A k \in DOMAIN net[n] : MsgOk(net[n][k])

(* What SettledInv needs of the packet that breaks a link.                  *)
BreaksWell ==
  \A n \in Node : \A k \in Arrivals(n) :
    LET m == net[n][k] IN
    m.type = "conn" /\ IsNewStream(ch[n], m) /\ ch[n].rx = "connected" =>
      /\ ch[Other(n)].my # ch[n].peer
      /\ \A j \in DOMAIN net[n] : net[n][j].type = "conn" => net[n][j].id # ch[n].peer

(* The packets under way to the two ends after a step of n.                 *)
LEMMA EndsOf ==
  ASSUME HandshakeInv, NEW n \in Node, NEW d, Moves(n, d)
  PROVE  /\ ch[n] \in Channel /\ ch[Other(n)] \in Channel /\ d \in Channel
         /\ net[n] \in Seq(Msg) /\ net[Other(n)] \in Seq(Msg)
         /\ LinkOk(ch[n], drawn[n], drawn[Other(n)])
         /\ LinkOk(ch[Other(n)], drawn[Other(n)], drawn[n])
         /\ drawn[n] \subseteq Ids[n] /\ drawn[Other(n)] \subseteq Ids[Other(n)]
BY Zenon, Others DEF HandshakeInv, HandshakeType, Moves

(* The goal at n and at the other end.                                      *)
LEMMA SettledAt ==
  ASSUME NEW n \in Node, NEW d, Moves(n, d), NEW o, o = ch[Other(n)],
         NEW s, s = net'[n], NEW t, t = net'[Other(n)],
         EndOk(d), EndOk(o), Deaf(d, o, s), Deaf(o, d, t),
         \A k \in DOMAIN s : MsgOk(s[k]), \A k \in DOMAIN t : MsgOk(t[k])
  PROVE  SettledInv'
<1>1. PICK p \in Node : p = Other(n) /\ p # n /\ Other(p) = n /\ \A q \in Node : q \in {n, p}
  BY Zenon, Others
<1>2. ch'[n] = d /\ ch'[p] = o /\ s = net'[n] /\ t = net'[p]
  BY Zenon, <1>1 DEF Moves
<1>3. ASSUME NEW q \in Node
      PROVE  /\ EndOk(ch'[q]) /\ Deaf(ch'[q], ch'[Other(q)], net'[q])
             /\ \A k \in DOMAIN net'[q] : MsgOk(net'[q][k])
  <2>1. CASE q = n
    BY Zenon, <1>1, <1>2, <2>1
  <2>2. CASE q = p
    BY Zenon, <1>1, <1>2, <2>2
  <2> QED
    BY Zenon, <1>1, <2>1, <2>2
<1> QED
  BY Zenon, <1>3 DEF SettledInv, EndOk, Deaf, MsgOk

(* A new link: its id is not one that the other end has been told of.       *)
LEMMA OpensSettled ==
  ASSUME HandshakeInv, SettledInv, NEW n \in Node, NEW d, Moves(n, d), Opens(n, d)
  PROVE  SettledInv'
<1>1. PICK o, s, t : o = ch[Other(n)] /\ s = net[n] /\ t = net[Other(n)]
  BY Zenon
<1>2. /\ EndOk(o) /\ Deaf(o, ch[n], t) /\ net' = net
      /\ \A k \in DOMAIN s : MsgOk(s[k])
      /\ \A k \in DOMAIN t : MsgOk(t[k])
  BY Zenon, <1>1, Others DEF SettledInv, Opens
<1>3. d.my \notin drawn[n] /\ d.tx = "connecting" /\ d.rx = "connecting"
  BY Zenon DEF Opens, Opened
<1>4. EndOk(d) /\ Deaf(d, o, s)
  BY Zenon, <1>3 DEF EndOk, Deaf
<1>5. Deaf(o, d, t)
  BY Zenon, <1>1, <1>2, <1>3, EndsOf DEF Deaf, LinkOk, EndOk
<1> QED
  BY Zenon, <1>1, <1>2, <1>4, <1>5, SettledAt

(* A link is closed.                                                        *)
LEMMA ClosesSettled ==
  ASSUME HandshakeInv, SettledInv, NEW n \in Node, NEW d, Moves(n, d), Closes(n, d)
  PROVE  SettledInv'
<1>1. PICK o, s, t : o = ch[Other(n)] /\ s = net[n] /\ t = net[Other(n)]
  OBVIOUS
<1>2. /\ EndOk(o) /\ Deaf(o, ch[n], t) /\ net' = net
      /\ \A k \in DOMAIN s : MsgOk(s[k])
      /\ \A k \in DOMAIN t : MsgOk(t[k])
  BY Zenon, <1>1, Others DEF SettledInv, Closes
<1>3. EndOk(d) /\ Deaf(d, o, s) /\ d.my = 0
  BY Zenon DEF EndOk, Deaf, Closes, Shut
<1>4. Deaf(o, d, t)
  BY Zenon, <1>2, <1>3 DEF Deaf, EndOk
<1> QED
  BY Zenon, <1>1, <1>2, <1>3, <1>4, SettledAt

(* A packet is sent: it carries the sender's id.                            *)
LEMMA SendsSettled ==
  ASSUME HandshakeInv, SettledInv, NEW n \in Node, NEW d, Moves(n, d), NEW m, Sends(n, d, m)
  PROVE  SettledInv'
<1>1. PICK c, o, s, t, u : /\ c = ch[n] /\ o = ch[Other(n)] /\ s = net[n] /\ t = net[Other(n)]
                           /\ u = Append(t, m)
  BY Zenon
<1>2. /\ EndOk(c) /\ EndOk(o) /\ Deaf(o, c, t) /\ Deaf(c, o, s)
      /\ \A k \in DOMAIN s : MsgOk(s[k])
      /\ \A k \in DOMAIN t : MsgOk(t[k])
  BY Zenon, <1>1, Others DEF SettledInv
<1>3. EndOk(d) /\ Deaf(d, o, s)
  BY Zenon, <1>1, <1>2 DEF EndOk, Deaf, Sends, SameLink
<1>4. t \in Seq(Msg) /\ m \in Msg
  BY Zenon, <1>1, EndsOf DEF Sends
<1>5. \A k \in DOMAIN u : (k \in DOMAIN t /\ u[k] = t[k]) \/ u[k] = m
  BY Zenon, <1>1, <1>4, AppendOne
<1>6. MsgOk(m) /\ m.id = c.my /\ d.my = c.my
  BY ZenonT(40), <1>1, <1>2, EndsOf DEF MsgOk, Sends, SameLink, EndOk, LinkOk
<1>7. \A k \in DOMAIN u : MsgOk(u[k])
  BY Zenon, <1>2, <1>5, <1>6
<1>8. Deaf(o, d, u)
  BY Zenon, <1>2, <1>5, <1>6 DEF Deaf
<1>9. s = net'[n] /\ u = net'[Other(n)]
  BY Zenon, <1>1 DEF Sends
<1> QED
  BY Zenon, <1>1, <1>2, <1>3, <1>7, <1>8, <1>9, SettledAt

(* What n has taken.                                                        *)
LEMMA LosesOne ==
  ASSUME HandshakeInv, NEW n \in Node, NEW k, Loses(n, k)
  PROVE  /\ k \in DOMAIN net[n] /\ net[n][k] \in Msg
         /\ \A j \in DOMAIN net'[n] : \E i \in DOMAIN net[n] : net'[n][j] = net[n][i]
<1>1. net[n] \in Seq(Msg) /\ k \in DOMAIN net[n]
  BY Zenon DEF HandshakeInv, HandshakeType, Loses, Arrivals
<1> QED
  BY <1>1, WithoutOne DEF Loses

(* A handshake packet is taken.                                             *)
LEMMA TakesConnSettled ==
  ASSUME HandshakeInv, SettledInv, BreaksWell,
         NEW n \in Node, NEW d, Moves(n, d), NEW k, TakesConn(n, d, k)
  PROVE  SettledInv'
<1>1. PICK c, o, s, t, m : /\ c = ch[n] /\ o = ch[Other(n)] /\ s = net[n] /\ t = net[Other(n)]
                           /\ m = s[k]
  BY Zenon
<1>2. /\ EndOk(c) /\ EndOk(o) /\ Deaf(o, c, t) /\ Deaf(c, o, s)
      /\ \A j \in DOMAIN s : MsgOk(s[j])
      /\ \A j \in DOMAIN t : MsgOk(t[j])
  BY Zenon, <1>1, Others DEF SettledInv
<1>3. PICK u : u = net'[n]
  BY Zenon
<1>4. /\ k \in DOMAIN s /\ t = net'[Other(n)]
      /\ \A j \in DOMAIN u : \E i \in DOMAIN s : u[j] = s[i]
  BY Zenon, <1>1, <1>3, LosesOne DEF TakesConn, Loses
<1>5. \A j \in DOMAIN u : MsgOk(u[j])
  BY Zenon, <1>2, <1>4
<1>6. MsgOk(m) /\ m.type = "conn" /\ Deaf(c, o, u)
  BY Zenon, <1>1, <1>2, <1>4 DEF TakesConn, Deaf
<1>7. LinkOk(c, drawn[n], drawn[Other(n)])
  BY Zenon, <1>1, EndsOf
<1>8. EndOk(d) /\ Deaf(d, o, u) /\ d.my \in {0, c.my}
  <2>1. CASE d = c
    BY Zenon, <1>2, <1>6, <2>1
  <2>2. CASE GivenUp(c, d, m)
    <3>1. EndOk(d) /\ d.my = 0 /\ d.peer = c.peer
      BY Zenon, <1>2, <2>2 DEF GivenUp, EndOk
    <3>2. ASSUME d.rx = "connected"
          PROVE  /\ o.my # c.peer
                 /\ \A j \in DOMAIN s : s[j].type = "conn" => s[j].id # c.peer
      <4>1. c.rx = "connected" /\ IsNewStream(c, m) /\ k \in Arrivals(n)
        BY Zenon, <2>2, <3>2 DEF GivenUp, TakesConn, Loses
      <4> QED
        BY Zenon, <1>1, <1>6, <4>1 DEF BreaksWell
    <3>3. Deaf(d, o, u)
      BY Zenon, <1>4, <3>1, <3>2 DEF Deaf
    <3> QED
      BY Zenon, <3>1, <3>3
  <2>3. CASE Recorded(c, d, m)
    <3>1. c.my # 0 /\ d.my = c.my /\ d.peer = m.id /\ m.id # 0
      BY Zenon, <1>6, <1>7, <2>3 DEF Recorded, LinkOk, MsgOk
    <3> QED
      BY Zenon, <3>1 DEF EndOk, Deaf
  <2>4. CASE Heard(c, d, m)
    <3>1. d.my = c.my /\ d.peer = c.peer /\ c.peer # 0 /\ c.rx = "connected"
      BY Zenon, <1>2, <2>4 DEF Heard, EndOk
    <3>2. AcksUs(c, m) => c.my # 0
      <4>1. SUFFICES ASSUME m.ack = 0, c.my = 0
                     PROVE  FALSE
        BY Zenon DEF AcksUs
      <4>2. m.id = c.peer
        BY Zenon, <1>6, <2>4, <4>1 DEF Heard, IsNewStream, MsgOk
      <4> QED
        BY Zenon, <1>1, <1>2, <1>4, <1>6, <3>1, <4>1, <4>2 DEF Deaf
    <3>3. EndOk(d)
      BY Zenon, <1>2, <2>4, <3>1, <3>2 DEF EndOk, Heard, Answered
    <3>4. Deaf(d, o, u)
      BY Zenon, <1>6, <3>1 DEF Deaf
    <3> QED
      BY Zenon, <3>1, <3>3, <3>4
  <2> QED
    BY Zenon, <1>1, <2>1, <2>2, <2>3, <2>4 DEF TakesConn, Took
<1>9. Deaf(o, d, t)
  BY Zenon, <1>2, <1>8 DEF Deaf, EndOk
<1> QED
  BY <1>1, <1>2, <1>3, <1>4, <1>5, <1>8, <1>9, SettledAt

(* A data packet is taken, or one is read.                                  *)
LEMMA SameLinkSettled ==
  ASSUME HandshakeInv, SettledInv, NEW n \in Node, NEW d, Moves(n, d),
         Reads(n, d) \/ \E k : TakesData(n, d, k)
  PROVE  SettledInv'
<1>1. PICK c, o, s, t : c = ch[n] /\ o = ch[Other(n)] /\ s = net[n] /\ t = net[Other(n)]
  BY Zenon
<1>2. /\ EndOk(c) /\ EndOk(o) /\ Deaf(o, c, t) /\ Deaf(c, o, s)
      /\ \A j \in DOMAIN s : MsgOk(s[j])
      /\ \A j \in DOMAIN t : MsgOk(t[j])
  BY Zenon, <1>1, Others DEF SettledInv
<1>3. PICK u : u = net'[n]
  BY Zenon
<1>4. t = net'[Other(n)] /\ \A j \in DOMAIN u : \E i \in DOMAIN s : u[j] = s[i]
  BY Zenon, <1>1, <1>3, LosesOne DEF TakesData, Loses, Reads
<1>5. SameLink(c, d)
  BY Zenon, <1>1 DEF TakesData, Reads
<1>6. (\A j \in DOMAIN u : MsgOk(u[j])) /\ EndOk(d)
  BY Zenon, <1>2, <1>4, <1>5 DEF SameLink, EndOk
<1>7. Deaf(d, o, u) /\ Deaf(o, d, t)
  BY Zenon, <1>2, <1>4, <1>5 DEF Deaf, SameLink
<1> QED
  BY <1>1, <1>2, <1>3, <1>4, <1>6, <1>7, SettledAt

(* Every step, if the packet that breaks a link is as BreaksWell says.      *)
LEMMA SettledKept ==
  ASSUME HandshakeInv, SettledInv, BreaksWell, Next
  PROVE  SettledInv'
<1>1. PICK n \in Node : \/ Connect(n) \/ Disconnect(n)
                        \/ SendConn(n) \/ LoseConn(n) \/ ReceiveConn(n)
                        \/ SendData(n) \/ ReceiveData(n) \/ ReadPart(n) \/ Read(n)
  BY Zenon DEF Next
<1>2. CASE Connect(n)
  BY Zenon, <1>2, ConnectOpens, OpensSettled
<1>3. CASE Disconnect(n)
  BY <1>3, DisconnectCloses, ClosesSettled
<1>4. CASE SendConn(n) \/ LoseConn(n)
  BY Zenon, <1>4, SendConnSends, SendsSettled, SameLinkSettled
<1>5. CASE ReceiveConn(n)
  BY Zenon, <1>5, ReceiveConnTakes, TakesConnSettled
<1>6. CASE SendData(n)
  BY Zenon, <1>6, SendDataSends, SendsSettled
<1>7. CASE ReceiveData(n)
  BY Zenon, <1>7, ReceiveDataTakes, SameLinkSettled
<1>8. CASE ReadPart(n) \/ Read(n)
  BY Zenon, <1>8, ReadReads, SameLinkSettled
<1> QED
  BY Zenon, <1>1, <1>2, <1>3, <1>4, <1>5, <1>6, <1>7, <1>8

(* ... and at first.                                                        *)
LEMMA SettledInitially ==
  ASSUME Init
  PROVE  SettledInv
<1>1. PICK c : c = Closed
  BY Zenon
<1>2. c.tx = "idle" /\ c.rx = "idle"
  BY Zenon, <1>1 DEF Closed
<1>3. \A n \in Node : ch[n] = c /\ net[n] = <<>>
  BY Zenon, <1>1 DEF Init
<1>4. EndOk(c) /\ \A o, s : Deaf(c, o, s)
  BY Zenon, <1>2 DEF EndOk, Deaf
<1>5. \A n \in Node : \A k \in DOMAIN net[n] : FALSE
  BY <1>3
<1>6. \A n \in Node : EndOk(ch[n]) /\ Deaf(ch[n], ch[Other(n)], net[n])
  BY Zenon, <1>3, <1>4
<1> QED
  BY Zenon, <1>5, <1>6 DEF SettledInv
-----------------------------------------------------------------------------
(* A transport that keeps the order.  An end never takes up an id again,    *)
(* and its packets stay in order: in the packets s to an end whose other    *)
(* end now has the id y, no id comes back once there has been another.      *)
Contiguous(s, y) ==
  /\ \A i, j, k \in DOMAIN s : i < j /\ j < k /\ s[i].id = s[k].id => s[j].id = s[i].id
  /\ \A i, j \in DOMAIN s : i < j /\ s[i].id = y => s[j].id = y

(* Nothing of another link than x can reach an end with the peer p before   *)
(* what is under way from x does, and p is not another link either.         *)
First(p, s, y, x) ==
  /\ \A j \in DOMAIN s :
       s[j].id = x => p \in {0, x} /\ \A i \in DOMAIN s : i < j => s[i].id = x
  /\ y = x => p \in {0, x} /\ \A i \in DOMAIN s : s[i].id = x

(* That is so of every link that has sent data, that may, that has been     *)
(* acknowledged, and of the peer.                                           *)
OrderOk(c, o, s, t) ==
  /\ Contiguous(s, o.my)
  /\ \A j \in DOMAIN s : s[j].type = "data" => First(c.peer, s, o.my, s[j].id)
  /\ o.tx = "connected" => First(c.peer, s, o.my, o.my)
  /\ \A j \in DOMAIN t : t[j].type = "conn" /\ t[j].ack # 0 => First(c.peer, s, o.my, t[j].ack)
  /\ c.peer # 0 => First(c.peer, s, o.my, c.peer)

OrderInv ==
  \A n \in Node : OrderOk(ch[n], ch[Other(n)], net[n], net[Other(n)])

(* Nothing changes that when the first packet is taken ...                  *)
LEMMA FirstTaken ==
  ASSUME NEW s \in Seq(Msg), 1 \in DOMAIN s, NEW p, NEW y
  PROVE  /\ \A x : First(p, s, y, x) => First(p, Without(s, 1), y, x)
         /\ Contiguous(s, y) => Contiguous(Without(s, 1), y)
         /\ \A j \in DOMAIN Without(s, 1) : \E i \in DOMAIN s : Without(s, 1)[j] = s[i]
<1>1. PICK u : u = Without(s, 1)
  BY Zenon
<1>2. u \in Seq(Msg) /\ \A j \in DOMAIN u : j + 1 \in DOMAIN s /\ u[j] = s[j + 1]
  BY Zenon, <1>1, WithoutOne, WithoutFirst
<1>3. DOMAIN u \subseteq Nat /\ DOMAIN s \subseteq Nat
  BY <1>2
<1>4. ASSUME NEW x, First(p, s, y, x)
      PROVE  First(p, u, y, x)
  BY <1>2, <1>3, <1>4 DEF First
<1>5. ASSUME Contiguous(s, y)
      PROVE  Contiguous(u, y)
  <2>1. ASSUME NEW i \in DOMAIN u, NEW j \in DOMAIN u, i < j, u[i].id = y
        PROVE  u[j].id = y
    <3>1. i + 1 \in DOMAIN s /\ j + 1 \in DOMAIN s /\ i + 1 < j + 1 /\ s[i + 1].id = y
      BY SMTT(30), <1>2, <1>3, <2>1
    <3> QED
      BY <1>2, <1>5, <3>1 DEF Contiguous
  <2>2. ASSUME NEW i \in DOMAIN u, NEW j \in DOMAIN u, NEW k \in DOMAIN u, i < j, j < k,
               u[i].id = u[k].id
        PROVE  u[j].id = u[i].id
    <3>1. /\ i + 1 \in DOMAIN s /\ j + 1 \in DOMAIN s /\ k + 1 \in DOMAIN s
          /\ u[i] = s[i + 1] /\ u[j] = s[j + 1] /\ u[k] = s[k + 1]
      BY Zenon, <1>2
    <3>2. i + 1 < j + 1 /\ j + 1 < k + 1
      BY <1>3, <2>2
    <3>3. s[j + 1].id = s[i + 1].id
      BY <1>5, <2>2, <3>1, <3>2 DEF Contiguous
    <3> QED
      BY Zenon, <3>1, <3>3
  <2> QED
    BY Zenon, <2>1, <2>2 DEF Contiguous
<1> QED
  BY Zenon, <1>1, <1>2, <1>4, <1>5

(* ... and recorded as the peer's first ...                                 *)
LEMMA FirstLearned ==
  ASSUME NEW s \in Seq(Msg), 1 \in DOMAIN s, NEW y
  PROVE  /\ \A x : First(0, s, y, x) => First(s[1].id, Without(s, 1), y, x)
         /\ Contiguous(s, y) => First(s[1].id, Without(s, 1), y, s[1].id)
<1>1. PICK u : u = Without(s, 1)
  OBVIOUS
<1>2. u \in Seq(Msg) /\ \A j \in DOMAIN u : j + 1 \in DOMAIN s /\ u[j] = s[j + 1]
  BY <1>1, WithoutOne, WithoutFirst
<1>3. /\ DOMAIN u \subseteq Nat /\ DOMAIN s \subseteq Nat
      /\ \A j \in DOMAIN u : 1 < j + 1
  BY <1>2
<1>4. ASSUME NEW x, First(0, s, y, x)
      PROVE  First(s[1].id, u, y, x)
  BY <1>2, <1>3, <1>4 DEF First
<1>5. ASSUME Contiguous(s, y)
      PROVE  First(s[1].id, u, y, s[1].id)
  <2>1. PICK x : x = s[1].id
    BY Zenon
  <2>2. ASSUME NEW j \in DOMAIN u, u[j].id = x, NEW i \in DOMAIN u, i < j
        PROVE  u[i].id = x
    <3>1. /\ i + 1 \in DOMAIN s /\ j + 1 \in DOMAIN s /\ 1 < i + 1 /\ i + 1 < j + 1
          /\ s[j + 1].id = s[1].id
      BY SMTT(30), <1>2, <1>3, <2>1, <2>2
    <3>2. s[i + 1].id = s[1].id
      BY Zenon, <1>5, <3>1 DEF Contiguous
    <3> QED
      BY Zenon, <1>2, <2>1, <3>2
  <2>3. ASSUME y = x, NEW i \in DOMAIN u
        PROVE  u[i].id = x
    BY <1>2, <1>3, <1>5, <2>1, <2>3 DEF Contiguous
  <2> QED
    BY Zenon, <2>1, <2>2, <2>3 DEF First
<1> QED
  BY Zenon, <1>1, <1>4, <1>5

(* ... or when the other end sends one more.                                *)
LEMMA FirstSent ==
  ASSUME NEW s \in Seq(Msg), NEW m \in Msg, NEW p, NEW y, m.id = y
  PROVE  /\ \A x : First(p, s, y, x) => First(p, Append(s, m), y, x)
         /\ Contiguous(s, y) => Contiguous(Append(s, m), y)
<1>1. PICK u : u = Append(s, m)
  BY Zenon
<1>2. PICK l \in Nat : l = Len(s)
  OBVIOUS
<1>3. /\ DOMAIN s = 1 .. l /\ DOMAIN u = 1 .. (l + 1)
      /\ \A j \in 1 .. l : u[j] = s[j]
      /\ u[l + 1] = m
  BY <1>1, <1>2
<1>4. ASSUME NEW x, First(p, s, y, x)
      PROVE  First(p, u, y, x)
  BY <1>3, <1>4 DEF First
<1>5. ASSUME Contiguous(s, y)
      PROVE  Contiguous(u, y)
  BY <1>3, <1>5 DEF Contiguous
<1> QED
  BY Zenon, <1>1, <1>4, <1>5
-----------------------------------------------------------------------------
(* The end that has taken the packet of position 1, and whose peer stays.   *)
LEMMA OrderTaken ==
  ASSUME NEW c, NEW d, NEW o, NEW s \in Seq(Msg), NEW t, 1 \in DOMAIN s,
         OrderOk(c, o, s, t), d.peer = c.peer
  PROVE  OrderOk(d, o, Without(s, 1), t)
<1>1. PICK u, p, y : u = Without(s, 1) /\ p = c.peer /\ y = o.my
  BY Zenon
<1>2. /\ \A x : First(p, s, y, x) => First(p, u, y, x)
      /\ Contiguous(u, y)
      /\ \A j \in DOMAIN u : \E i \in DOMAIN s : u[j] = s[i]
  BY Zenon, <1>1, FirstTaken DEF OrderOk
<1>3. \A j \in DOMAIN u : u[j].type = "data" => First(p, u, y, u[j].id)
  BY Zenon, <1>1, <1>2 DEF OrderOk
<1> QED
  BY Zenon, <1>1, <1>2, <1>3 DEF OrderOk

(* The end that has recorded it.                                            *)
LEMMA OrderLearned ==
  ASSUME NEW c, NEW d, NEW o, NEW s \in Seq(Msg), NEW t, 1 \in DOMAIN s,
         OrderOk(c, o, s, t), c.peer = 0, d.peer = s[1].id
  PROVE  OrderOk(d, o, Without(s, 1), t)
<1>1. PICK u, p, y : u = Without(s, 1) /\ p = s[1].id /\ y = o.my
  BY Zenon
<1>2. /\ Contiguous(u, y)
      /\ \A j \in DOMAIN u : \E i \in DOMAIN s : u[j] = s[i]
  BY Zenon, <1>1, FirstTaken DEF OrderOk
<1>3. /\ \A x : First(0, s, y, x) => First(p, u, y, x)
      /\ First(p, u, y, p)
  BY Zenon, <1>1, FirstLearned DEF OrderOk
<1>4. \A j \in DOMAIN u : u[j].type = "data" => First(p, u, y, u[j].id)
  BY <1>1, <1>2, <1>3 DEF OrderOk
<1> QED
  BY Zenon, <1>1, <1>2, <1>3, <1>4 DEF OrderOk

(* The end that forgets its peer, or only reads.                            *)
LEMMA OrderForgotten ==
  ASSUME NEW c, NEW d, NEW o, NEW s, NEW t, OrderOk(c, o, s, t), d.peer \in {0, c.peer}
  PROVE  OrderOk(d, o, s, t)
<1>1. CASE d.peer = c.peer
  BY Zenon, <1>1 DEF OrderOk
<1>2. CASE d.peer = 0
  <2>1. PICK p, y : p = c.peer /\ y = o.my
    BY Zenon
  <2>2. \A x : First(p, s, y, x) => First(0, s, y, x)
    BY Zenon DEF First
  <2> QED
    BY Zenon, <1>2, <2>1, <2>2 DEF OrderOk
<1> QED
  BY Zenon, <1>1, <1>2

(* The end o that a step of the other has no packet for.  The other keeps   *)
(* its id ...                                                               *)
LEMMA OrderSameId ==
  ASSUME NEW o, NEW c, NEW d, NEW t, NEW s, NEW u, OrderOk(o, c, t, s), d.my = c.my,
         \A j \in DOMAIN u : \E i \in DOMAIN s : u[j] = s[i],
         d.tx = "connected" => c.tx = "connected" \/ First(o.peer, t, c.my, c.my)
  PROVE  OrderOk(o, d, t, u)
<1>1. \A j \in DOMAIN u : u[j].type = "conn" /\ u[j].ack # 0 => First(o.peer, t, c.my, u[j].ack)
  BY Zenon DEF OrderOk
<1> QED
  BY Zenon, <1>1 DEF OrderOk

(* ... or gives it up, or for one that o cannot know.                       *)
LEMMA OrderOtherId ==
  ASSUME NEW o, NEW c, NEW d, NEW t, NEW s, NEW u, OrderOk(o, c, t, s),
         d.tx # "connected",
         \A j \in DOMAIN u : \E i \in DOMAIN s : u[j] = s[i],
         \A j \in DOMAIN t : t[j].id # d.my,
         \A j \in DOMAIN s : s[j].type = "conn" /\ s[j].ack # 0 => s[j].ack # d.my,
         o.peer # 0 => o.peer # d.my
  PROVE  OrderOk(o, d, t, u)
<1>1. PICK p, y, z : p = o.peer /\ y = c.my /\ z = d.my
  BY Zenon
<1>2. \A x : First(p, t, y, x) /\ x # z => First(p, t, z, x)
  BY Zenon DEF First
<1>3. Contiguous(t, z)
  BY Zenon, <1>1 DEF OrderOk, Contiguous
<1>4. \A j \in DOMAIN u : u[j].type = "conn" /\ u[j].ack # 0 => First(p, t, z, u[j].ack)
  BY Zenon, <1>1, <1>2 DEF OrderOk
<1>5. \A j \in DOMAIN t : t[j].type = "data" => First(p, t, z, t[j].id)
  BY Zenon, <1>1, <1>2 DEF OrderOk
<1>6. p # 0 => First(p, t, z, p)
  BY Zenon, <1>1, <1>2 DEF OrderOk
<1> QED
  BY Zenon, <1>1, <1>3, <1>4, <1>5, <1>6 DEF OrderOk

(* A packet m has been sent: the end it is sent to ...                      *)
LEMMA OrderSentTo ==
  ASSUME NEW o, NEW c, NEW d, NEW t \in Seq(Msg), NEW s, NEW m \in Msg, OrderOk(o, c, t, s),
         d.my = c.my, d.tx = c.tx, m.id = c.my, m.type = "data" => c.tx = "connected"
  PROVE  OrderOk(o, d, Append(t, m), s)
<1>1. PICK u, p, y : u = Append(t, m) /\ p = o.peer /\ y = c.my
  BY Zenon
<1>2. /\ \A x : First(p, t, y, x) => First(p, u, y, x)
      /\ Contiguous(u, y)
  BY Zenon, <1>1, FirstSent DEF OrderOk
<1>3. \A j \in DOMAIN u : (j \in DOMAIN t /\ u[j] = t[j]) \/ u[j] = m
  BY Zenon, <1>1, AppendOne
<1>4. \A j \in DOMAIN u : u[j].type = "data" => First(p, u, y, u[j].id)
  BY Zenon, <1>1, <1>2, <1>3 DEF OrderOk
<1> QED
  BY Zenon, <1>1, <1>2, <1>4 DEF OrderOk

(* ... and the one that sent it.                                            *)
LEMMA OrderSentBy ==
  ASSUME NEW c, NEW d, NEW o, NEW s, NEW t \in Seq(Msg), NEW m \in Msg, OrderOk(c, o, s, t),
         d.peer = c.peer, m.type = "conn" => m.ack = c.peer
  PROVE  OrderOk(d, o, s, Append(t, m))
<1>1. PICK u : u = Append(t, m)
  BY Zenon
<1>2. \A j \in DOMAIN u : (j \in DOMAIN t /\ u[j] = t[j]) \/ u[j] = m
  BY Zenon, <1>1, AppendOne
<1>3. \A j \in DOMAIN u : u[j].type = "conn" /\ u[j].ack # 0 => First(c.peer, s, o.my, u[j].ack)
  BY Zenon, <1>2 DEF OrderOk
<1> QED
  BY Zenon, <1>1, <1>3 DEF OrderOk
-----------------------------------------------------------------------------
(* The goal at n and at the other end.                                      *)
LEMMA OrderAt ==
  ASSUME NEW n \in Node, NEW d, Moves(n, d), NEW o, o = ch[Other(n)],
         NEW s, s = net'[n], NEW t, t = net'[Other(n)],
         OrderOk(d, o, s, t), OrderOk(o, d, t, s)
  PROVE  OrderInv'
<1>1. PICK p \in Node : p = Other(n) /\ p # n /\ Other(p) = n /\ \A q \in Node : q \in {n, p}
  BY Zenon, Others
<1>2. ch'[n] = d /\ ch'[p] = o /\ s = net'[n] /\ t = net'[p]
  BY Zenon, <1>1 DEF Moves
<1>3. \A q \in Node : OrderOk(ch'[q], ch'[Other(q)], net'[q], net'[Other(q)])
  BY Zenon, <1>1, <1>2
<1> QED
  BY Zenon, <1>3 DEF OrderInv, OrderOk, First, Contiguous

(* The channels and packets before a step.                                  *)
Before(n, c, o, s, t) ==
  /\ c = ch[n] /\ o = ch[Other(n)] /\ s = net[n] /\ t = net[Other(n)]
  /\ OrderOk(c, o, s, t) /\ OrderOk(o, c, t, s)
  /\ s \in Seq(Msg) /\ t \in Seq(Msg)
  /\ \A j \in DOMAIN s : MsgOk(s[j]) /\ PacketOk(s[j], o, drawn[Other(n)], drawn[n])
  /\ \A j \in DOMAIN t : MsgOk(t[j]) /\ PacketOk(t[j], c, drawn[n], drawn[Other(n)])
  /\ LinkOk(c, drawn[n], drawn[Other(n)]) /\ LinkOk(o, drawn[Other(n)], drawn[n])
  /\ EndOk(c) /\ EndOk(o) /\ Deaf(c, o, s)

(* With the invariants, all of it holds.                                    *)
LEMMA BeforeStep ==
  ASSUME HandshakeInv, SettledInv, OrderInv, NEW n \in Node
  PROVE  \E c, o, s, t : Before(n, c, o, s, t)
<1>1. PICK p \in Node : p = Other(n) /\ Other(p) = n
  BY Zenon, Others
<1>2. PICK c, o, s, t : c = ch[n] /\ o = ch[p] /\ s = net[n] /\ t = net[p]
  BY Zenon
<1>3. OrderOk(c, o, s, t) /\ OrderOk(o, c, t, s)
  BY Zenon, <1>1, <1>2 DEF OrderInv
<1>4. /\ \A j \in DOMAIN s : MsgOk(s[j])
      /\ \A j \in DOMAIN t : MsgOk(t[j])
      /\ EndOk(c) /\ EndOk(o) /\ Deaf(c, o, s)
  BY Zenon, <1>1, <1>2 DEF SettledInv
<1>5. /\ \A j \in DOMAIN s : PacketOk(s[j], o, drawn[p], drawn[n])
      /\ \A j \in DOMAIN t : PacketOk(t[j], c, drawn[n], drawn[p])
      /\ LinkOk(c, drawn[n], drawn[p]) /\ LinkOk(o, drawn[p], drawn[n])
      /\ s \in Seq(Msg) /\ t \in Seq(Msg)
  BY Zenon, <1>1, <1>2 DEF HandshakeInv, HandshakeType
<1>6. Before(n, c, o, s, t)
  BY Zenon, <1>1, <1>2, <1>3, <1>4, <1>5 DEF Before
<1> QED
  BY Zenon, <1>6

(* The other end knows nothing of an id that is 0 or new.                   *)
LEMMA IdUnknown ==
  ASSUME NEW n \in Node, NEW c, NEW o, NEW s, NEW t, Before(n, c, o, s, t),
         NEW z, z = 0 \/ z \notin {0} \cup drawn[n]
  PROVE  /\ \A j \in DOMAIN t : t[j].id # z
         /\ \A j \in DOMAIN s : s[j].type = "conn" /\ s[j].ack # 0 => s[j].ack # z
         /\ o.peer # 0 => o.peer # z
<1>1. \A j \in DOMAIN t : t[j].id # 0 /\ t[j].id \in {0} \cup drawn[n]
  BY Zenon DEF Before, MsgOk, PacketOk
<1>2. \A j \in DOMAIN s : s[j].type = "conn" => s[j].ack \in {0} \cup drawn[n]
  BY Zenon DEF Before, PacketOk
<1>3. o.peer \in {0} \cup drawn[n]
  BY Zenon DEF Before, LinkOk
<1> QED
  BY Zenon, <1>1, <1>2, <1>3

(* A link is opened or closed.                                              *)
LEMMA OpensOrdered ==
  ASSUME HandshakeInv, SettledInv, OrderInv, NEW n \in Node, NEW d, Moves(n, d),
         Opens(n, d) \/ Closes(n, d)
  PROVE  OrderInv'
<1>1. PICK c, o, s, t : Before(n, c, o, s, t)
  BY Zenon, BeforeStep
<1>2. /\ d.tx # "connected" /\ d.peer = 0 /\ net' = net
      /\ d.my = 0 \/ d.my \notin {0} \cup drawn[n]
  BY Zenon, IdsPositive DEF Opens, Closes, Opened, Shut
<1>3. OrderOk(d, o, s, t)
  BY Zenon, <1>1, <1>2, OrderForgotten DEF Before
<1>4. OrderOk(o, d, t, s)
  <2>1. /\ \A j \in DOMAIN t : t[j].id # d.my
        /\ \A j \in DOMAIN s : s[j].type = "conn" /\ s[j].ack # 0 => s[j].ack # d.my
        /\ o.peer # 0 => o.peer # d.my
    BY <1>1, <1>2, IdUnknown
  <2>2. OrderOk(o, c, t, s) /\ \A j \in DOMAIN s : \E i \in DOMAIN s : s[j] = s[i]
    BY Zenon, <1>1 DEF Before
  <2> QED
    BY Zenon, <1>2, <2>1, <2>2, OrderOtherId
<1> QED
  BY Zenon, <1>1, <1>2, <1>3, <1>4, OrderAt DEF Before

(* A packet is sent.                                                        *)
LEMMA SendsOrdered ==
  ASSUME HandshakeInv, SettledInv, OrderInv, NEW n \in Node, NEW d, Moves(n, d),
         NEW m, Sends(n, d, m)
  PROVE  OrderInv'
<1>1. PICK c, o, s, t : Before(n, c, o, s, t)
  BY Zenon, BeforeStep
<1>2. PICK u : u = Append(t, m)
  BY Zenon
<1>3. /\ d.my = c.my /\ d.tx = c.tx /\ d.peer = c.peer
      /\ m \in Msg /\ m.id = c.my
      /\ m.type = "conn" => m.ack = c.peer
      /\ m.type = "data" => c.tx = "connected"
      /\ net'[n] = s /\ net'[Other(n)] = u
  BY Zenon, <1>1, <1>2 DEF Before, Sends, SameLink
<1>4. OrderOk(d, o, s, u)
  BY Zenon, <1>1, <1>2, <1>3, OrderSentBy DEF Before
<1>5. OrderOk(o, d, u, s)
  BY Zenon, <1>1, <1>2, <1>3, OrderSentTo DEF Before
<1> QED
  BY Zenon, <1>1, <1>3, <1>4, <1>5, OrderAt DEF Before

(* A packet is taken: with InOrder, the first.                              *)
LEMMA LosesFirst ==
  ASSUME InOrder, HandshakeInv, NEW n \in Node, NEW k, Loses(n, k)
  PROVE  /\ k = 1 /\ 1 \in DOMAIN net[n] /\ net'[n] = Without(net[n], 1)
         /\ net'[Other(n)] = net[Other(n)]
         /\ \A j \in DOMAIN net'[n] : \E i \in DOMAIN net[n] : net'[n][j] = net[n][i]
<1>1. k \in {1} \cap DOMAIN net[n]
  BY Zenon DEF Loses, Arrivals
<1> QED
  BY Zenon, <1>1, LosesOne DEF Loses

(* A handshake packet is taken: what it says of the peer is no older than   *)
(* what came before it, and what follows it is no older than it is.         *)
LEMMA TakesConnOrdered ==
  ASSUME InOrder, HandshakeInv, SettledInv, OrderInv, NEW n \in Node, NEW d, Moves(n, d),
         NEW k, TakesConn(n, d, k)
  PROVE  OrderInv'
<1>1. PICK c, o, s, t : Before(n, c, o, s, t)
  BY Zenon, BeforeStep
<1>2. PICK u, m : u = Without(s, 1) /\ m = s[1]
  BY Zenon
<1>3. /\ 1 \in DOMAIN s /\ net'[n] = u /\ net'[Other(n)] = t
      /\ \A j \in DOMAIN u : \E i \in DOMAIN s : u[j] = s[i]
      /\ m.type = "conn"
      /\ d = c \/ GivenUp(c, d, m) \/ Recorded(c, d, m) \/ Heard(c, d, m)
  BY <1>1, <1>2, LosesFirst DEF Before, TakesConn, Took
<1>4. ASSUME m.ack # 0, m.ack = c.my
      PROVE  First(o.peer, t, c.my, c.my)
  BY Zenon, <1>1, <1>2, <1>3, <1>4 DEF Before, OrderOk
<1>5. OrderOk(d, o, u, t) /\ OrderOk(o, d, t, u)
  <2>1. CASE d = c
    <3>1. OrderOk(d, o, u, t)
      BY Zenon, <1>1, <1>2, <1>3, <2>1, OrderTaken DEF Before
    <3>2. OrderOk(o, d, t, u)
      BY <1>1, <1>3, <2>1, OrderSameId DEF Before
    <3> QED
      BY Zenon, <3>1, <3>2
  <2>2. CASE GivenUp(c, d, m)
    <3>1. d.peer = c.peer /\ d.my = 0 /\ d.tx # "connected"
      BY Zenon, <2>2 DEF GivenUp
    <3>2. OrderOk(d, o, u, t)
      BY Zenon, <1>1, <1>2, <1>3, <3>1, OrderTaken DEF Before
    <3>3. OrderOk(o, d, t, u)
      <4>1. /\ \A j \in DOMAIN t : t[j].id # d.my
            /\ \A j \in DOMAIN s : s[j].type = "conn" /\ s[j].ack # 0 => s[j].ack # d.my
            /\ o.peer # 0 => o.peer # d.my
        BY <1>1, <3>1, IdUnknown
      <4>2. OrderOk(o, c, t, s)
        BY Zenon, <1>1 DEF Before
      <4> QED
        BY <1>3, <3>1, <4>1, <4>2, OrderOtherId
    <3> QED
      BY <3>2, <3>3
  <2>3. CASE Recorded(c, d, m)
    <3>1. /\ d.peer = m.id /\ d.my = c.my /\ c.peer = 0 /\ c.my # 0
          /\ d.tx = "connected" => c.tx = "connected" \/ m.ack = c.my
      BY Zenon, <1>1, <2>3 DEF Recorded, Answered, LinkOk, Before
    <3>2. OrderOk(d, o, u, t)
      BY Zenon, <1>1, <1>2, <1>3, <3>1, OrderLearned DEF Before
    <3>3. d.tx = "connected" => c.tx = "connected" \/ First(o.peer, t, c.my, c.my)
      BY Zenon, <1>4, <3>1
    <3>4. OrderOk(o, d, t, u)
      BY <1>1, <1>3, <3>1, <3>3, OrderSameId DEF Before
    <3> QED
      BY <3>2, <3>4
  <2>4. CASE Heard(c, d, m)
    <3>1. /\ d.peer = c.peer /\ d.my = c.my /\ c.rx = "connected"
          /\ d.tx = "connected" => c.tx = "connected" \/ m.ack = c.my
      BY Zenon, <2>4 DEF Heard, Answered, AcksUs
    <3>2. ASSUME m.ack = c.my
          PROVE  c.my # 0
      <4>1. SUFFICES ASSUME m.ack = 0, c.my = 0
                     PROVE  FALSE
        BY Zenon, <3>2
      <4>2. MsgOk(m) /\ Deaf(c, o, s) /\ m = s[1] /\ 1 \in DOMAIN s
        BY Zenon, <1>1, <1>2, <1>3 DEF Before
      <4>3. m.id = c.peer
        BY Zenon, <1>3, <2>4, <4>1, <4>2 DEF Heard, IsNewStream, MsgOk
      <4> QED
        BY Zenon, <1>3, <3>1, <4>1, <4>2, <4>3 DEF Deaf
    <3>3. OrderOk(d, o, u, t)
      BY <1>1, <1>2, <1>3, <3>1, OrderTaken DEF Before
    <3>4. d.tx = "connected" => c.tx = "connected" \/ First(o.peer, t, c.my, c.my)
      BY Zenon, <1>4, <3>1, <3>2
    <3>5. OrderOk(o, d, t, u)
      BY <1>1, <1>3, <3>1, <3>4, OrderSameId DEF Before
    <3> QED
      BY <3>3, <3>5
  <2> QED
    BY Zenon, <1>3, <2>1, <2>2, <2>3, <2>4
<1> QED
  BY Zenon, <1>1, <1>3, <1>5, OrderAt DEF Before

(* A data packet is taken, or one is read.                                  *)
LEMMA SameLinkOrdered ==
  ASSUME InOrder, HandshakeInv, SettledInv, OrderInv, NEW n \in Node, NEW d, Moves(n, d),
         Reads(n, d) \/ \E k : TakesData(n, d, k)
  PROVE  OrderInv'
<1>1. PICK c, o, s, t : Before(n, c, o, s, t)
  BY Zenon, BeforeStep
<1>2. d.my = c.my /\ d.peer = c.peer /\ d.tx = c.tx
  BY Zenon, <1>1 DEF Before, Reads, TakesData, SameLink
<1>3. CASE Reads(n, d)
  <2>1. net' = net
    BY Zenon, <1>3 DEF Reads
  <2>2. OrderOk(d, o, s, t)
    BY Zenon, <1>1, <1>2, OrderForgotten DEF Before
  <2>3. OrderOk(o, d, t, s)
    BY Zenon, <1>1, <1>2, OrderSameId DEF Before
  <2> QED
    BY Zenon, <1>1, <2>1, <2>2, <2>3, OrderAt DEF Before
<1>4. CASE \E k : TakesData(n, d, k)
  <2>1. PICK u : u = Without(s, 1)
    BY Zenon
  <2>2. /\ 1 \in DOMAIN s /\ net'[n] = u /\ net'[Other(n)] = t
        /\ \A j \in DOMAIN u : \E i \in DOMAIN s : u[j] = s[i]
    BY <1>1, <1>4, <2>1, LosesFirst DEF Before, TakesData
  <2>3. OrderOk(d, o, u, t)
    BY Zenon, <1>1, <1>2, <2>1, <2>2, OrderTaken DEF Before
  <2>4. OrderOk(o, d, t, u)
    BY <1>1, <1>2, <2>2, OrderSameId DEF Before
  <2> QED
    BY Zenon, <1>1, <2>2, <2>3, <2>4, OrderAt DEF Before
<1> QED
  BY Zenon, <1>3, <1>4

-----------------------------------------------------------------------------
(* The packet that breaks a link is the first, so that all packets of the   *)
(* peer that it breaks with have come before.                               *)
LEMMA OrderBreaksWell ==
  ASSUME InOrder, HandshakeInv, SettledInv, OrderInv
  PROVE  BreaksWell
<1>1. SUFFICES ASSUME NEW n \in Node, NEW k \in Arrivals(n),
                      net[n][k].type = "conn", IsNewStream(ch[n], net[n][k]),
                      ch[n].rx = "connected"
               PROVE  /\ ch[Other(n)].my # ch[n].peer
                      /\ \A j \in DOMAIN net[n] : net[n][j].id # ch[n].peer
  BY Zenon DEF BreaksWell
<1>2. PICK c, o, s, t : Before(n, c, o, s, t)
  BY Zenon, BeforeStep
<1>3. 1 \in DOMAIN s /\ s[1].id # c.peer /\ c.peer # 0
  BY Zenon, <1>1, <1>2 DEF Arrivals, Before, IsNewStream, EndOk
<1>4. First(c.peer, s, o.my, c.peer)
  BY Zenon, <1>2, <1>3 DEF Before, OrderOk
<1>5. \A j \in DOMAIN s : j = 1 \/ 1 < j
  BY <1>2 DEF Before
<1>6. o.my # c.peer /\ \A j \in DOMAIN s : s[j].id # c.peer
  BY Zenon, <1>3, <1>4, <1>5 DEF First
<1> QED
  BY Zenon, <1>2, <1>6 DEF Before

(* The order is kept by every step.                                         *)
LEMMA OrderKept ==
  ASSUME InOrder, HandshakeInv, SettledInv, OrderInv, Next
  PROVE  OrderInv'
<1>1. PICK n \in Node : \/ Connect(n) \/ Disconnect(n)
                        \/ SendConn(n) \/ LoseConn(n) \/ ReceiveConn(n)
                        \/ SendData(n) \/ ReceiveData(n) \/ ReadPart(n) \/ Read(n)
  BY Zenon DEF Next
<1>2. CASE Connect(n)
  BY Zenon, <1>2, ConnectOpens, OpensOrdered
<1>3. CASE Disconnect(n)
  BY Zenon, <1>3, DisconnectCloses, OpensOrdered
<1>4. CASE SendConn(n) \/ LoseConn(n)
  BY Zenon, <1>4, SendConnSends, SendsOrdered, SameLinkOrdered
<1>5. CASE ReceiveConn(n)
  BY Zenon, <1>5, ReceiveConnTakes, TakesConnOrdered
<1>6. CASE SendData(n)
  BY Zenon, <1>6, SendDataSends, SendsOrdered
<1>7. CASE ReceiveData(n)
  BY Zenon, <1>7, ReceiveDataTakes, SameLinkOrdered
<1>8. CASE ReadPart(n) \/ Read(n)
  BY Zenon, <1>8, ReadReads, SameLinkOrdered
<1> QED
  BY Zenon, <1>1, <1>2, <1>3, <1>4, <1>5, <1>6, <1>7, <1>8

(* The invariant behind the properties that hold when the transport keeps   *)
(* the order of packets.                                                    *)
InOrderInv == HandshakeInv /\ SettledInv /\ OrderInv

(* It holds, if the transport does.                                         *)
THEOREM InOrderInvariant ==
  ASSUME InOrder
  PROVE  Spec => []InOrderInv
<1>1. Init => InOrderInv
  <2>1. SUFFICES ASSUME Init
                 PROVE  OrderInv
    BY Zenon, HandshakeInitially, SettledInitially DEF InOrderInv
  <2>2. PICK c : c = Closed
    BY Zenon
  <2>3. c.peer = 0 /\ c.tx = "idle"
    BY Zenon, <2>2 DEF Closed
  <2>4. \A n \in Node : ch[n] = c /\ net[n] = <<>>
    BY Zenon, <2>1, <2>2 DEF Init
  <2>5. OrderOk(c, c, <<>>, <<>>)
    BY <2>3 DEF OrderOk, Contiguous
  <2> QED
    BY Zenon, <2>4, <2>5, Others DEF OrderInv
<1>2. InOrderInv /\ [Next]_vars => InOrderInv'
  <2>1. SUFFICES ASSUME InOrderInv, [Next]_vars
                 PROVE  InOrderInv'
    BY Zenon
  <2>2. HandshakeInv'
    BY Zenon, <2>1, HandshakeKept DEF InOrderInv
  <2>3. CASE Next
    BY Zenon, <2>1, <2>2, <2>3, OrderBreaksWell, SettledKept, OrderKept DEF InOrderInv
  <2>4. CASE UNCHANGED vars
    <3>1. SettledInv'
      BY ZenonT(40), <2>1, <2>4 DEF InOrderInv, vars, SettledInv, EndOk, Deaf, MsgOk
    <3>2. OrderInv'
      BY <2>1, <2>4 DEF InOrderInv, vars, OrderInv, OrderOk, Contiguous, First
    <3> QED
      BY Zenon, <2>2, <3>1, <3>2 DEF InOrderInv
  <2> QED
    BY Zenon, <2>1, <2>3, <2>4
<1> QED
  BY <1>1, <1>2, PTL DEF Spec
-----------------------------------------------------------------------------
(* Two channels that are linked to each other agree.                        *)
LEMMA SettledPairs ==
  ASSUME HandshakeInv, SettledInv
  PROVE  PairAgrees
<1>1. SUFFICES ASSUME NEW n \in Node, Paired(n), ch[n].tx = "connected"
               PROVE  LET o == Other(n) IN
                      /\ ch[o].rx = "connected" => ch[o].rxSeq = ch[n].txSeq /\ ch[o].rxCtl # ch[n].txCtl
                      /\ ch[o].tx = "connected" => ch[o].txCtl # ch[n].txCtl
  BY Zenon DEF PairAgrees
<1>2. PICK p \in Node : p = Other(n) /\ Other(p) = n
  BY Zenon, Others
<1>3. PICK c, o : c = ch[n] /\ o = ch[p]
  BY Zenon
<1>4. /\ c \in Channel /\ o \in Channel
      /\ LinkOk(c, drawn[n], drawn[p]) /\ LinkOk(o, drawn[p], drawn[n]) /\ SeqOk(o, c)
      /\ EndOk(c)
  BY Zenon, <1>2, <1>3 DEF HandshakeInv, HandshakeType, SettledInv
<1>5. c.my \in Nat /\ c.peer \in Nat /\ c.my # 0 /\ c.peer # 0 /\ o.peer = c.my /\ o.my = c.peer
  BY Zenon, <1>1, <1>2, <1>3, <1>4 DEF Paired, EndOk, Channel
<1>6. c.txCtl = (c.my > c.peer) /\ c.my # c.peer /\ o.rxCtl = (o.my > o.peer)
  BY Zenon, <1>1, <1>3, <1>4, <1>5 DEF LinkOk
<1>7. o.tx = "connected" => o.txCtl = (o.my > o.peer)
  BY Zenon, <1>4 DEF LinkOk
<1>8. (c.my > c.peer) # (c.peer > c.my)
  BY <1>5, <1>6
<1>9. o.rx = "connected" => o.rxSeq = c.txSeq
  BY Zenon, <1>4, <1>5 DEF SeqOk
<1> QED
  BY Zenon, <1>2, <1>3, <1>5, <1>6, <1>7, <1>8, <1>9

(* The CHECKs of handleHandshakePacket hold.                                *)
LEMMA SettledChecks ==
  ASSUME HandshakeInv, SettledInv
  PROVE  ChecksHold
<1>1. SUFFICES ASSUME NEW n \in Node, NEW k \in Arrivals(n), net[n][k].type = "conn"
               PROVE  /\ ch[n].rx = "connecting" => ch[n].ring = <<>>
                      /\ ch[n].rx = "connected" /\ ~IsNewStream(ch[n], net[n][k])
                         /\ AcksUs(ch[n], net[n][k]) => ch[n].my # 0
  BY Zenon DEF ChecksHold
<1>2. PICK c, m : c = ch[n] /\ m = net[n][k]
  BY Zenon
<1>3. k \in DOMAIN net[n]
  BY Zenon DEF Arrivals
<1>4. LinkOk(c, drawn[n], drawn[Other(n)]) /\ MsgOk(m) /\ Deaf(c, ch[Other(n)], net[n])
  BY Zenon, <1>2, <1>3 DEF HandshakeInv, SettledInv
<1>5. ASSUME c.rx = "connected", ~IsNewStream(c, m), AcksUs(c, m), c.my = 0
      PROVE  FALSE
  <2>1. m.id = c.peer
    BY Zenon, <1>1, <1>2, <1>4, <1>5 DEF AcksUs, IsNewStream, MsgOk
  <2> QED
    BY Zenon, <1>1, <1>2, <1>3, <1>4, <1>5, <2>1 DEF Deaf
<1> QED
  BY Zenon, <1>2, <1>4, <1>5 DEF LinkOk
-----------------------------------------------------------------------------
(* What an end with channel c keeps is its peer's.                          *)
KeptOk(c) ==
  /\ c.rx = "connecting" => c.cur = 0
  /\ c.rx = "connected" => /\ c.cur \in {0, c.peer}
                           /\ \A k \in DOMAIN c.ring : c.ring[k] = c.peer

KeptInv == \A n \in Node : KeptOk(ch[n])

(* It is enough to show that of the end that moves.                         *)
LEMMA KeptAt ==
  ASSUME KeptInv, NEW n \in Node, NEW d, Moves(n, d), KeptOk(d)
  PROVE  KeptInv'
<1>1. PICK p \in Node : p = Other(n) /\ \A q \in Node : q \in {n, p}
  BY Zenon, Others
<1>2. KeptOk(ch'[n]) /\ KeptOk(ch'[p])
  BY Zenon, <1>1 DEF Moves, KeptInv
<1>3. \A q \in Node : KeptOk(ch'[q])
  BY Zenon, <1>1, <1>2
<1> QED
  BY Zenon, <1>3 DEF KeptInv, KeptOk

(* A link is opened while no packet is being read, or closed.               *)
LEMMA OpensKept ==
  ASSUME ~Abandon, KeptInv, NEW n \in Node, NEW d, Moves(n, d), Opens(n, d) \/ Closes(n, d)
  PROVE  KeptInv'
<1>1. KeptOk(d)
  BY Zenon DEF KeptOk, Opens, Opened, Closes, Shut
<1> QED
  BY Zenon, <1>1, KeptAt

(* A packet is sent.                                                        *)
LEMMA SendsKept ==
  ASSUME KeptInv, NEW n \in Node, NEW d, Moves(n, d), NEW m, Sends(n, d, m)
  PROVE  KeptInv'
<1>1. KeptOk(d)
  BY DEF KeptInv, KeptOk, Sends, SameLink
<1> QED
  BY Zenon, <1>1, KeptAt

(* A handshake packet is taken.                                             *)
LEMMA TakesConnKept ==
  ASSUME HandshakeInv, KeptInv, NEW n \in Node, NEW d, Moves(n, d), NEW k, TakesConn(n, d, k)
  PROVE  KeptInv'
<1>1. PICK c, m : c = ch[n] /\ m = net[n][k]
  BY Zenon
<1>2. KeptOk(c) /\ LinkOk(c, drawn[n], drawn[Other(n)])
  BY Zenon, <1>1 DEF KeptInv, HandshakeInv
<1>3. CASE d = c
  BY Zenon, <1>2, <1>3, KeptAt
<1>4. CASE GivenUp(c, d, m)
  <2>1. KeptOk(d)
    BY Zenon, <1>2, <1>4 DEF KeptOk, GivenUp
  <2> QED
    BY Zenon, <2>1, KeptAt
<1>5. CASE Recorded(c, d, m)
  <2>1. d.rx = "connected" /\ d.cur = 0 /\ d.ring = <<>>
    BY Zenon, <1>2, <1>5 DEF KeptOk, Recorded, LinkOk
  <2>2. KeptOk(d)
    BY <2>1 DEF KeptOk
  <2> QED
    BY <2>2, KeptAt
<1>6. CASE Heard(c, d, m)
  <2>1. KeptOk(d)
    BY Zenon, <1>2, <1>6 DEF KeptOk, Heard
  <2> QED
    BY <2>1, KeptAt
<1> QED
  BY Zenon, <1>1, <1>3, <1>4, <1>5, <1>6 DEF TakesConn, Took

(* A data packet is taken: it is the first, and so the peer's.              *)
LEMMA TakesDataKept ==
  ASSUME InOrder, HandshakeInv, SettledInv, OrderInv, KeptInv,
         NEW n \in Node, NEW d, Moves(n, d), NEW k, TakesData(n, d, k)
  PROVE  KeptInv'
<1>1. PICK c, o, s, t : Before(n, c, o, s, t)
  BY Zenon, BeforeStep
<1>2. PICK m : m = s[1]
  BY Zenon
<1>3. /\ 1 \in DOMAIN s /\ m.type = "data" /\ SameLink(c, d) /\ d.cur = c.cur
      /\ \/ d.ring = c.ring
         \/ c.rx = "connected" /\ d.ring = Append(c.ring, m.id)
  BY Zenon, <1>1, <1>2, LosesFirst DEF Before, TakesData
<1>4. KeptOk(c) /\ c \in Channel
  BY Zenon, <1>1 DEF KeptInv, Before, HandshakeInv, HandshakeType
<1>5. CASE d.ring = c.ring
  <2>1. KeptOk(d)
    BY Zenon, <1>3, <1>4, <1>5 DEF KeptOk, SameLink
  <2> QED
    BY Zenon, <2>1, KeptAt
<1>6. CASE c.rx = "connected" /\ d.ring = Append(c.ring, m.id)
  <2>1. First(c.peer, s, o.my, m.id)
    BY Zenon, <1>1, <1>2, <1>3 DEF Before, OrderOk
  <2>2. m.id = c.peer
    BY Zenon, <1>1, <1>2, <1>3, <1>6, <2>1 DEF First, Before, EndOk
  <2>3. \A j \in DOMAIN d.ring : d.ring[j] = c.peer
    <3>1. PICK r, i : r = c.ring /\ i = c.peer
      BY Zenon
    <3>2. r \in Seq(Nat) /\ i \in Nat /\ \A j \in DOMAIN r : r[j] = i
      BY Zenon, <1>4, <1>6, <3>1 DEF KeptOk, Channel
    <3>3. \A j \in DOMAIN Append(r, i) : Append(r, i)[j] = i
      BY Zenon, <3>2, AppendOne
    <3> QED
      BY Zenon, <1>6, <2>2, <3>1, <3>3
  <2>4. KeptOk(d)
    BY Zenon, <1>3, <1>4, <1>6, <2>3 DEF KeptOk, SameLink
  <2> QED
    BY <2>4, KeptAt
<1> QED
  BY Zenon, <1>3, <1>5, <1>6

(* A packet is read.                                                        *)
LEMMA ReadsKept ==
  ASSUME HandshakeInv, KeptInv, NEW n \in Node, NEW d, Moves(n, d), Reads(n, d)
  PROVE  KeptInv'
<1>1. PICK c, r : c = ch[n] /\ r = c.ring
  BY Zenon
<1>2. KeptOk(c) /\ r \in Seq(Nat) /\ SameLink(c, d)
  BY Zenon, <1>1 DEF KeptInv, HandshakeInv, HandshakeType, Channel, Reads
<1>3. CASE d.ring = r /\ d.cur = c.cur
  <2>1. KeptOk(d)
    BY <1>1, <1>2, <1>3 DEF KeptOk, SameLink
  <2> QED
    BY Zenon, <2>1, KeptAt
<1>4. CASE c.rx = "connected" /\ r # <<>> /\ d.ring = r /\ d.cur = Head(r)
  <2>1. 1 \in DOMAIN r /\ Head(r) = r[1]
    BY <1>2, <1>4
  <2>2. KeptOk(d)
    BY <1>1, <1>2, <1>4, <2>1 DEF KeptOk, SameLink
  <2> QED
    BY <2>2, KeptAt
<1>5. CASE c.rx = "connected" /\ r # <<>> /\ d.ring = Tail(r) /\ d.cur = 0
  <2>1. \A j \in DOMAIN Tail(r) : j + 1 \in DOMAIN r /\ Tail(r)[j] = r[j + 1]
    BY <1>2, <1>5
  <2>2. KeptOk(d)
    BY <1>1, <1>2, <1>5, <2>1 DEF KeptOk, SameLink
  <2> QED
    BY <2>2, KeptAt
<1> QED
  BY Zenon, <1>1, <1>3, <1>4, <1>5 DEF Reads

(* The reader of a link is only given data of its peer's, over a transport  *)
(* that keeps the order, if no link is opened in the middle of a packet.    *)
THEOREM DataOnlyFromPeer ==
  ASSUME InOrder, ~Abandon
  PROVE  Spec => []DataFromPeer
<1>1. Init => KeptInv
  <2>1. SUFFICES ASSUME Init
                 PROVE  KeptInv
    BY Zenon
  <2>2. PICK c : c = Closed
    BY Zenon
  <2>3. c.rx = "idle" /\ \A n \in Node : ch[n] = c
    BY Zenon, <2>1, <2>2 DEF Closed, Init
  <2>4. KeptOk(c)
    BY Zenon, <2>3 DEF KeptOk
  <2> QED
    BY Zenon, <2>3, <2>4 DEF KeptInv
<1>2. InOrderInv /\ KeptInv /\ [Next]_vars => KeptInv'
  <2>1. SUFFICES ASSUME InOrderInv, KeptInv, [Next]_vars
                 PROVE  KeptInv'
    BY Zenon
  <2>2. HandshakeInv /\ SettledInv /\ OrderInv
    BY Zenon, <2>1 DEF InOrderInv
  <2>3. CASE UNCHANGED vars
    BY Zenon, <2>1, <2>3 DEF vars, KeptInv, KeptOk
  <2>4. ASSUME NEW n \in Node, Connect(n) \/ Disconnect(n)
        PROVE  KeptInv'
    BY Zenon, <2>1, <2>2, <2>4, ConnectOpens, DisconnectCloses, OpensKept
  <2>5. ASSUME NEW n \in Node, SendConn(n) \/ LoseConn(n)
        PROVE  KeptInv'
    BY Zenon, <2>1, <2>2, <2>5, SendConnSends, SendsKept, ReadsKept
  <2>6. ASSUME NEW n \in Node, ReceiveConn(n)
        PROVE  KeptInv'
    BY Zenon, <2>1, <2>2, <2>6, ReceiveConnTakes, TakesConnKept
  <2>7. ASSUME NEW n \in Node, SendData(n)
        PROVE  KeptInv'
    BY Zenon, <2>1, <2>2, <2>7, SendDataSends, SendsKept
  <2>8. ASSUME NEW n \in Node, ReceiveData(n)
        PROVE  KeptInv'
    BY Zenon, <2>1, <2>2, <2>8, ReceiveDataTakes, TakesDataKept
  <2>9. ASSUME NEW n \in Node, Read(n) \/ ReadPart(n)
        PROVE  KeptInv'
    BY Zenon, <2>1, <2>2, <2>9, ReadReads, ReadsKept
  <2> QED
    BY Zenon, <2>1, <2>3, <2>4, <2>5, <2>6, <2>7, <2>8, <2>9 DEF Next
<1>3. KeptInv => DataFromPeer
  BY Zenon DEF KeptInv, KeptOk, DataFromPeer
<1> QED
  BY <1>1, <1>2, <1>3, InOrderInvariant, PTL DEF Spec

-----------------------------------------------------------------------------
(* Applications that wait for old handshake packets to drain before they    *)
(* open a link again (Quiet), over any transport.  A handshake packet m on  *)
(* its way to c from the other end's channel o, where M are the links that  *)
(* have met ...                                                             *)
FromOk(m, c, o, M) ==
  /\ m.ack # 0 => <<m.id, m.ack>> \in M
  /\ o.my \in {0, m.id}
  /\ m.id = o.my /\ m.ack # 0 => m.ack = o.peer
  /\ m.ack # 0 /\ m.ack = c.my /\ c.peer # 0 => m.id = c.peer
  /\ m.ack = 0 /\ m.id = o.my /\ c.my # 0 => o.peer \in {0, c.my}

(* ... and the channels themselves, with the packets s on their way to c.   *)
LinksOk(c, o, M) ==
  /\ c.my # 0 /\ c.peer # 0 => <<c.my, c.peer>> \in M
  /\ c.my # 0 /\ c.peer # 0 /\ c.acked => <<c.peer, c.my>> \in M
  /\ c.my # 0 /\ o.my # 0 /\ o.peer = c.my /\ c.peer # 0 => c.peer = o.my

MutualOk(c, o, s, M) ==
  /\ LinksOk(c, o, M)
  /\ \A k \in DOMAIN s : s[k].type = "conn" => FromOk(s[k], c, o, M)
  /\ \A j, k \in DOMAIN s : s[j].type = "conn" /\ s[k].type = "conn" => s[j].id = s[k].id

MutualInv == \A n \in Node : MutualOk(ch[n], ch[Other(n)], net[n], met)

(* The goal at n and at the other end.                                      *)
LEMMA MutualAt ==
  ASSUME NEW n \in Node, NEW d, Moves(n, d), NEW o, o = ch[Other(n)],
         NEW s, s = net'[n], NEW t, t = net'[Other(n)],
         MutualOk(d, o, s, met'), MutualOk(o, d, t, met')
  PROVE  MutualInv'
<1>1. PICK p \in Node : p = Other(n) /\ p # n /\ Other(p) = n /\ \A q \in Node : q \in {n, p}
  BY Zenon, Others
<1>2. ch'[n] = d /\ ch'[p] = o /\ s = net'[n] /\ t = net'[p]
  BY Zenon, <1>1 DEF Moves
<1>3. \A q \in Node : MutualOk(ch'[q], ch'[Other(q)], net'[q], met')
  BY Zenon, <1>1, <1>2
<1> QED
  BY Zenon, <1>3 DEF MutualInv, MutualOk, LinksOk, FromOk

(* The channels and packets before a step.                                  *)
Prior(n, c, o, s, t) ==
  /\ c = ch[n] /\ o = ch[Other(n)] /\ s = net[n] /\ t = net[Other(n)]
  /\ MutualOk(c, o, s, met) /\ MutualOk(o, c, t, met)
  /\ s \in Seq(Msg) /\ t \in Seq(Msg)
  /\ \A j \in DOMAIN s : MsgOk(s[j])
  /\ \A j \in DOMAIN t : MsgOk(t[j])
  /\ LinkOk(c, drawn[n], drawn[Other(n)]) /\ LinkOk(o, drawn[Other(n)], drawn[n])
  /\ EndOk(c) /\ EndOk(o) /\ Deaf(c, o, s)

(* With the invariants, all of it holds.                                    *)
LEMMA PriorStep ==
  ASSUME HandshakeInv, SettledInv, MutualInv, NEW n \in Node
  PROVE  \E c, o, s, t : Prior(n, c, o, s, t)
<1>1. PICK p \in Node : p = Other(n) /\ Other(p) = n
  BY Zenon, Others
<1>2. PICK c, o, s, t : c = ch[n] /\ o = ch[p] /\ s = net[n] /\ t = net[p]
  BY Zenon
<1>3. MutualOk(c, o, s, met) /\ MutualOk(o, c, t, met)
  BY Zenon, <1>1, <1>2 DEF MutualInv
<1>4. /\ \A j \in DOMAIN s : MsgOk(s[j])
      /\ \A j \in DOMAIN t : MsgOk(t[j])
      /\ EndOk(c) /\ EndOk(o) /\ Deaf(c, o, s)
  BY Zenon, <1>1, <1>2 DEF SettledInv
<1>5. /\ LinkOk(c, drawn[n], drawn[p]) /\ LinkOk(o, drawn[p], drawn[n])
      /\ s \in Seq(Msg) /\ t \in Seq(Msg)
  BY Zenon, <1>1, <1>2 DEF HandshakeInv, HandshakeType
<1>6. Prior(n, c, o, s, t)
  BY Zenon, <1>1, <1>2, <1>3, <1>4, <1>5 DEF Prior
<1> QED
  BY Zenon, <1>6

(* An end that gives up its id: nothing is left to be said of it.           *)
LEMMA MutualNoId ==
  ASSUME NEW c, NEW o, NEW d, NEW s, NEW t, NEW u, NEW M, MutualOk(c, o, s, M),
         MutualOk(o, c, t, M), d.my = 0,
         \A j \in DOMAIN t : MsgOk(t[j]),
         \A j \in DOMAIN u : \E i \in DOMAIN s : u[j] = s[i]
  PROVE  MutualOk(d, o, u, M) /\ MutualOk(o, d, t, M)
<1>1. LinksOk(d, o, M) /\ LinksOk(o, d, M)
  BY Zenon DEF MutualOk, LinksOk
<1>2. ASSUME NEW j \in DOMAIN u, u[j].type = "conn"
      PROVE  FromOk(u[j], d, o, M)
  <2>1. PICK m : m = u[j] /\ FromOk(m, c, o, M)
    BY <1>2 DEF MutualOk
  <2>2. FromOk(m, d, o, M)
    BY Zenon, <2>1 DEF FromOk
  <2> QED
    BY Zenon, <2>1, <2>2
<1>3. \A i, j \in DOMAIN u : u[i].type = "conn" /\ u[j].type = "conn" => u[i].id = u[j].id
  BY DEF MutualOk
<1>4. ASSUME NEW j \in DOMAIN t, t[j].type = "conn"
      PROVE  FromOk(t[j], o, d, M)
  <2>1. PICK m : m = t[j] /\ FromOk(m, o, c, M) /\ m.id # 0
    BY Zenon, <1>4 DEF MutualOk, MsgOk
  <2>2. FromOk(m, o, d, M)
    BY Zenon, <2>1 DEF FromOk
  <2> QED
    BY Zenon, <2>1, <2>2
<1> QED
  BY Zenon, <1>1, <1>2, <1>3, <1>4 DEF MutualOk

(* An end whose link stays as it is.                                        *)
LEMMA MutualSame ==
  ASSUME NEW c, NEW o, NEW d, NEW s, NEW t, NEW u, NEW M, MutualOk(c, o, s, M),
         MutualOk(o, c, t, M), d.my = c.my, d.peer = c.peer, d.acked = c.acked,
         \A j \in DOMAIN u : \E i \in DOMAIN s : u[j] = s[i]
  PROVE  MutualOk(d, o, u, M) /\ MutualOk(o, d, t, M)
<1>1. LinksOk(d, o, M) /\ LinksOk(o, d, M)
  BY Zenon DEF MutualOk, LinksOk
<1>2. \A m : FromOk(m, c, o, M) => FromOk(m, d, o, M)
  BY Zenon DEF FromOk
<1>3. \A m : FromOk(m, o, c, M) => FromOk(m, o, d, M)
  BY Zenon DEF FromOk
<1>4. \A j \in DOMAIN u : u[j].type = "conn" => FromOk(u[j], d, o, M)
  BY <1>2 DEF MutualOk
<1>5. \A j \in DOMAIN t : t[j].type = "conn" => FromOk(t[j], o, d, M)
  BY Zenon, <1>3 DEF MutualOk
<1>6. \A i, j \in DOMAIN u : u[i].type = "conn" /\ u[j].type = "conn" => u[i].id = u[j].id
  BY DEF MutualOk
<1> QED
  BY Zenon, <1>1, <1>4, <1>5, <1>6 DEF MutualOk

(* What has met goes on having met.                                         *)
LEMMA MutualMore ==
  ASSUME NEW c, NEW o, NEW s, NEW M, NEW N, M \subseteq N, MutualOk(c, o, s, M)
  PROVE  MutualOk(c, o, s, N)
<1>1. LinksOk(c, o, N)
  BY Zenon DEF MutualOk, LinksOk
<1>2. \A m : FromOk(m, c, o, M) => FromOk(m, c, o, N)
  BY Zenon DEF FromOk
<1> QED
  BY Zenon, <1>1, <1>2 DEF MutualOk
-----------------------------------------------------------------------------
(* A link is opened: no handshake packet is under way but ones that the     *)
(* other end could have sent just now.                                      *)
LEMMA OpensMutual ==
  ASSUME Quiet, HandshakeInv, SettledInv, MutualInv, NEW n \in Node, NEW d, Moves(n, d), Opens(n, d)
  PROVE  MutualInv'
<1>1. PICK c, o, s, t : Prior(n, c, o, s, t)
  BY Zenon, PriorStep
<1>2. /\ d.my \notin drawn[n] /\ d.my # 0 /\ d.peer = 0 /\ net' = net /\ met' = met
      /\ ~Stale(n)
  BY Zenon, IdsPositive DEF Opens, Opened
<1>3. /\ \A k \in DOMAIN t : t[k].type # "conn"
      /\ \A k \in DOMAIN s : s[k].type = "conn" => s[k].id = o.my /\ s[k].ack = o.peer
  BY Zenon, <1>1, <1>2 DEF Stale, Prior
<1>4. LinksOk(d, o, met) /\ LinksOk(o, d, met)
  BY Zenon, <1>1, <1>2 DEF LinksOk, Prior, MutualOk
<1>5. ASSUME NEW k \in DOMAIN s, s[k].type = "conn"
      PROVE  FromOk(s[k], d, o, met)
  <2>1. PICK m : m = s[k] /\ FromOk(m, c, o, met) /\ m.id = o.my /\ m.ack = o.peer
    BY <1>1, <1>3, <1>5 DEF Prior, MutualOk
  <2>2. FromOk(m, d, o, met)
    BY Zenon, <1>2, <2>1 DEF FromOk
  <2> QED
    BY Zenon, <2>1, <2>2
<1>6. MutualOk(d, o, s, met)
  BY Zenon, <1>1, <1>4, <1>5 DEF Prior, MutualOk
<1>7. MutualOk(o, d, t, met)
  BY Zenon, <1>3, <1>4 DEF MutualOk
<1> QED
  BY Zenon, <1>1, <1>2, <1>6, <1>7, MutualAt DEF Prior

(* A link is closed.                                                        *)
LEMMA ClosesMutual ==
  ASSUME HandshakeInv, SettledInv, MutualInv, NEW n \in Node, NEW d, Moves(n, d), Closes(n, d)
  PROVE  MutualInv'
<1>1. PICK c, o, s, t : Prior(n, c, o, s, t)
  BY Zenon, PriorStep
<1>2. d.my = 0 /\ net' = net /\ met' = met
  BY Zenon DEF Closes, Shut
<1>3. MutualOk(c, o, s, met) /\ MutualOk(o, c, t, met) /\ \A j \in DOMAIN t : MsgOk(t[j])
  BY Zenon, <1>1 DEF Prior
<1>4. MutualOk(d, o, s, met) /\ MutualOk(o, d, t, met)
  BY <1>2, <1>3, MutualNoId
<1> QED
  BY Zenon, <1>1, <1>2, <1>4, MutualAt DEF Prior

(* A packet is sent.                                                        *)
LEMMA SendsMutual ==
  ASSUME HandshakeInv, SettledInv, MutualInv, NEW n \in Node, NEW d, Moves(n, d), NEW m, Sends(n, d, m)
  PROVE  MutualInv'
<1>1. PICK c, o, s, t : Prior(n, c, o, s, t)
  BY Zenon, PriorStep
<1>2. PICK u : u = Append(t, m)
  BY Zenon
<1>3. /\ d.my = c.my /\ d.peer = c.peer /\ d.acked = c.acked
      /\ m \in Msg /\ m.id = c.my /\ m.id # 0
      /\ m.type = "conn" => m.ack = c.peer
      /\ net'[n] = s /\ net'[Other(n)] = u /\ met' = met
  BY Zenon, <1>1, <1>2 DEF Prior, Sends, SameLink, LinkOk, EndOk
<1>4. MutualOk(c, o, s, met) /\ MutualOk(o, c, t, met) /\ t \in Seq(Msg)
  BY Zenon, <1>1 DEF Prior
<1>5. MutualOk(d, o, s, met) /\ MutualOk(o, d, t, met)
  BY SMTT(30), <1>3, <1>4, MutualSame
<1>6. \A j \in DOMAIN u : (j \in DOMAIN t /\ u[j] = t[j]) \/ u[j] = m
  BY <1>2, <1>3, <1>4, AppendOne
<1>7. m.type = "conn" => FromOk(m, o, d, met)
  BY <1>3, <1>5 DEF MutualOk, LinksOk, FromOk
<1>8. \A j \in DOMAIN t : t[j].type = "conn" => t[j].id = c.my
  BY Zenon, <1>3, <1>4 DEF MutualOk, FromOk
<1>9. MutualOk(o, d, u, met)
  BY <1>3, <1>5, <1>6, <1>7, <1>8 DEF MutualOk
<1> QED
  BY Zenon, <1>1, <1>3, <1>5, <1>9, MutualAt DEF Prior

(* A data packet is taken, or one is read.                                  *)
LEMMA SameLinkMutual ==
  ASSUME HandshakeInv, SettledInv, MutualInv, NEW n \in Node, NEW d, Moves(n, d),
         Reads(n, d) \/ \E k : TakesData(n, d, k)
  PROVE  MutualInv'
<1>1. PICK c, o, s, t : Prior(n, c, o, s, t)
  BY Zenon, PriorStep
<1>2. PICK u : u = net'[n]
  BY Zenon
<1>3. /\ d.my = c.my /\ d.peer = c.peer /\ d.acked = c.acked /\ met' = met
      /\ t = net'[Other(n)]
      /\ \A j \in DOMAIN u : \E i \in DOMAIN s : u[j] = s[i]
  BY Zenon, <1>1, <1>2, LosesOne DEF Prior, Reads, TakesData, SameLink, Loses
<1>4. MutualOk(c, o, s, met) /\ MutualOk(o, c, t, met)
  BY Zenon, <1>1 DEF Prior
<1>5. MutualOk(d, o, u, met) /\ MutualOk(o, d, t, met)
  BY <1>3, <1>4, MutualSame
<1> QED
  BY Zenon, <1>1, <1>2, <1>3, <1>5, MutualAt DEF Prior

(* A link that has not recorded a peer.                                     *)
Unmet(c) == c.my # 0 /\ c.peer = 0 /\ c.acked = FALSE

(* A handshake packet is recorded as the peer's first.                      *)
LEMMA MutualLearned ==
  ASSUME NEW c, NEW o, NEW d, NEW s, NEW t, NEW u, NEW M, NEW m, MutualOk(c, o, s, M),
         MutualOk(o, c, t, M), NEW k \in DOMAIN s, m = s[k], m.type = "conn", m.id # 0,
         Unmet(c), Recorded(c, d, m), <<c.my, m.id>> \in M,
         \A j \in DOMAIN u : \E i \in DOMAIN s : u[j] = s[i]
  PROVE  MutualOk(d, o, u, M) /\ MutualOk(o, d, t, M)
<1>1. /\ d.my = c.my /\ d.peer = m.id /\ m.ack \in {0, c.my}
      /\ d.acked => m.ack = c.my
      /\ c.my # 0 /\ c.peer = 0
  BY Zenon DEF Recorded, Answered, Unmet
<1>2. FromOk(m, c, o, M)
  BY Zenon DEF MutualOk
<1>3. LinksOk(d, o, M)
  BY Zenon, <1>1, <1>2 DEF LinksOk, FromOk
<1>4. LinksOk(o, d, M)
  BY Zenon, <1>1, <1>2 DEF LinksOk, FromOk, MutualOk
<1>5. \A i \in DOMAIN s : s[i].type = "conn" => FromOk(s[i], c, o, M) /\ s[i].id = m.id
  BY Zenon DEF MutualOk
<1>6. ASSUME NEW j \in DOMAIN u, u[j].type = "conn"
      PROVE  FromOk(u[j], d, o, M)
  <2>1. PICK q : q = u[j] /\ FromOk(q, c, o, M) /\ q.id = m.id
    BY Zenon, <1>5, <1>6
  <2>2. FromOk(q, d, o, M)
    BY Zenon, <1>1, <2>1 DEF FromOk
  <2> QED
    BY Zenon, <2>1, <2>2
<1>7. ASSUME NEW j \in DOMAIN t, t[j].type = "conn"
      PROVE  FromOk(t[j], o, d, M)
  <2>1. PICK q : q = t[j] /\ FromOk(q, o, c, M)
    BY Zenon, <1>7 DEF MutualOk
  <2>2. FromOk(q, o, d, M)
    BY Zenon, <1>1, <1>2, <2>1 DEF FromOk
  <2> QED
    BY Zenon, <2>1, <2>2
<1>8. \A i, j \in DOMAIN u : u[i].type = "conn" /\ u[j].type = "conn" => u[i].id = u[j].id
  BY Zenon, <1>5
<1> QED
  BY Zenon, <1>3, <1>4, <1>6, <1>7, <1>8 DEF MutualOk

(* A later one acknowledges the link.                                       *)
LEMMA MutualHeard ==
  ASSUME NEW c, NEW o, NEW d, NEW s, NEW t, NEW u, NEW M, NEW m, MutualOk(c, o, s, M),
         MutualOk(o, c, t, M), NEW k \in DOMAIN s, m = s[k], m.type = "conn",
         c.peer # 0, AcksUs(c, m) => c.my # 0, Heard(c, d, m),
         \A j \in DOMAIN u : \E i \in DOMAIN s : u[j] = s[i]
  PROVE  MutualOk(d, o, u, M) /\ MutualOk(o, d, t, M)
<1>1. d.my = c.my /\ d.peer = c.peer /\ FromOk(m, c, o, M)
  BY Zenon DEF Heard, MutualOk
<1>2. CASE ~AcksUs(c, m)
  <2>1. d.acked = c.acked
    BY Zenon, <1>2 DEF Heard, Answered
  <2> QED
    BY <1>1, <2>1, MutualSame
<1>3. CASE AcksUs(c, m)
  <2>1. <<c.peer, c.my>> \in M
    BY Zenon, <1>1, <1>3 DEF AcksUs, FromOk
  <2>2. LinksOk(d, o, M) /\ LinksOk(o, d, M)
    BY Zenon, <1>1, <2>1 DEF MutualOk, LinksOk
  <2>3. \A q : FromOk(q, c, o, M) => FromOk(q, d, o, M)
    BY Zenon, <1>1 DEF FromOk
  <2>4. \A q : FromOk(q, o, c, M) => FromOk(q, o, d, M)
    BY Zenon, <1>1 DEF FromOk
  <2>5. \A j \in DOMAIN u : u[j].type = "conn" => FromOk(u[j], d, o, M)
    BY <2>3 DEF MutualOk
  <2>6. \A j \in DOMAIN t : t[j].type = "conn" => FromOk(t[j], o, d, M)
    BY Zenon, <2>4 DEF MutualOk
  <2>7. \A i, j \in DOMAIN u : u[i].type = "conn" /\ u[j].type = "conn" => u[i].id = u[j].id
    BY DEF MutualOk
  <2> QED
    BY Zenon, <2>2, <2>5, <2>6, <2>7 DEF MutualOk
<1> QED
  BY Zenon, <1>2, <1>3

(* A handshake packet is taken.                                             *)
LEMMA TakesConnMutual ==
  ASSUME HandshakeInv, SettledInv, MutualInv, NEW n \in Node, NEW d, Moves(n, d),
         NEW k, TakesConn(n, d, k)
  PROVE  MutualInv'
<1>1. PICK c, o, s, t : Prior(n, c, o, s, t)
  BY PriorStep
<1>2. PICK u, m, M : u = net'[n] /\ m = s[k] /\ M = met'
  BY Zenon
<1>3. /\ k \in DOMAIN s /\ m.type = "conn" /\ t = net'[Other(n)]
      /\ \A j \in DOMAIN u : \E i \in DOMAIN s : u[j] = s[i]
      /\ d = c \/ GivenUp(c, d, m) \/ Recorded(c, d, m) \/ Heard(c, d, m)
      /\ M = IF d.my # 0 /\ d.peer # 0 THEN met \cup {<<d.my, d.peer>>} ELSE met
  BY Zenon, <1>1, <1>2, LosesOne DEF Prior, TakesConn, Took, Loses
<1>4. met \subseteq M
  BY Zenon, <1>3
<1>5. MutualOk(c, o, s, met) /\ MutualOk(o, c, t, met)
  BY Zenon, <1>1 DEF Prior
<1>6. MutualOk(c, o, s, M) /\ MutualOk(o, c, t, M)
  BY Zenon, <1>4, <1>5, MutualMore
<1>7. /\ MsgOk(m) /\ LinkOk(c, drawn[n], drawn[Other(n)]) /\ EndOk(c) /\ Deaf(c, o, s)
      /\ \A j \in DOMAIN t : MsgOk(t[j])
  BY Zenon, <1>1, <1>2, <1>3 DEF Prior
<1>8. MutualOk(d, o, u, M) /\ MutualOk(o, d, t, M)
  <2>1. CASE d = c
    BY SMTT(30), <1>3, <1>6, <2>1, MutualSame
  <2>2. CASE GivenUp(c, d, m)
    <3>1. d.my = 0
      BY Zenon, <2>2 DEF GivenUp
    <3> QED
      BY <1>3, <1>6, <1>7, <3>1, MutualNoId
  <2>3. CASE Recorded(c, d, m)
    <3>1. /\ c.my # 0 /\ c.peer = 0 /\ c.acked = FALSE /\ m.id # 0
          /\ d.my = c.my /\ d.peer = m.id
      BY Zenon, <1>7, <2>3 DEF Recorded, LinkOk, MsgOk
    <3>2. <<c.my, m.id>> \in M
      BY Zenon, <1>3, <3>1
    <3>3. /\ k \in DOMAIN s /\ m = s[k] /\ m.type = "conn"
          /\ \A j \in DOMAIN u : \E i \in DOMAIN s : u[j] = s[i]
      BY Zenon, <1>2, <1>3
    <3>4. Unmet(c) /\ m.id # 0
      BY Zenon, <3>1 DEF Unmet
    <3> QED
      BY Zenon, <1>6, <2>3, <3>2, <3>3, <3>4, MutualLearned
  <2>4. CASE Heard(c, d, m)
    <3>1. c.peer # 0 /\ c.rx = "connected"
      BY Zenon, <1>7, <2>4 DEF Heard, EndOk
    <3>2. AcksUs(c, m) => c.my # 0
      <4>1. SUFFICES ASSUME m.ack = 0, c.my = 0
                     PROVE  FALSE
        BY Zenon DEF AcksUs
      <4>2. m.id = c.peer
        BY Zenon, <1>3, <1>7, <2>4, <4>1 DEF Heard, IsNewStream, MsgOk
      <4> QED
        BY Zenon, <1>2, <1>3, <1>7, <3>1, <4>1, <4>2 DEF Deaf
    <3> QED
      BY SMTT(30), <1>2, <1>3, <1>6, <2>4, <3>1, <3>2, MutualHeard
  <2> QED
    BY Zenon, <1>3, <2>1, <2>2, <2>3, <2>4
<1>9. MutualOk(d, o, u, met') /\ MutualOk(o, d, t, met')
  BY Zenon, <1>2, <1>8
<1>10. o = ch[Other(n)] /\ u = net'[n] /\ t = net'[Other(n)]
  BY Zenon, <1>1, <1>2, <1>3 DEF Prior
<1> QED
  BY Zenon, <1>9, <1>10, MutualAt
-----------------------------------------------------------------------------
(* The packets that are under way when a link breaks are all of the stream  *)
(* that breaks it.                                                          *)
LEMMA MutualBreaksWell ==
  ASSUME HandshakeInv, SettledInv, MutualInv
  PROVE  BreaksWell
<1>1. SUFFICES ASSUME NEW n \in Node, NEW k \in Arrivals(n),
                      net[n][k].type = "conn", IsNewStream(ch[n], net[n][k]),
                      ch[n].rx = "connected"
               PROVE  /\ ch[Other(n)].my # ch[n].peer
                      /\ \A j \in DOMAIN net[n] :
                           net[n][j].type = "conn" => net[n][j].id # ch[n].peer
  BY Zenon DEF BreaksWell
<1>2. PICK c, o, s, t : Prior(n, c, o, s, t)
  BY Zenon, PriorStep
<1>3. PICK m : m = s[k]
  BY Zenon
<1>4. k \in DOMAIN s /\ m.type = "conn" /\ m.id # c.peer /\ c.peer # 0
  BY Zenon, <1>1, <1>2, <1>3 DEF Arrivals, Prior, IsNewStream, EndOk
<1>5. o.my \in {0, m.id} /\ \A j \in DOMAIN s : s[j].type = "conn" => s[j].id = m.id
  BY Zenon, <1>2, <1>3, <1>4 DEF Prior, MutualOk, FromOk
<1> QED
  BY Zenon, <1>2, <1>4, <1>5 DEF Prior

(* Every step keeps the invariant ...                                       *)
LEMMA MutualKept ==
  ASSUME Quiet, HandshakeInv, SettledInv, MutualInv, Next
  PROVE  MutualInv'
<1>1. PICK n \in Node : \/ Connect(n) \/ Disconnect(n)
                        \/ SendConn(n) \/ LoseConn(n) \/ ReceiveConn(n)
                        \/ SendData(n) \/ ReceiveData(n) \/ ReadPart(n) \/ Read(n)
  BY Zenon DEF Next
<1>2. CASE Connect(n)
  BY Zenon, <1>2, ConnectOpens, OpensMutual
<1>3. CASE Disconnect(n)
  BY Zenon, <1>3, DisconnectCloses, ClosesMutual
<1>4. CASE SendConn(n) \/ LoseConn(n)
  BY Zenon, <1>4, SendConnSends, SendsMutual, SameLinkMutual
<1>5. CASE ReceiveConn(n)
  BY Zenon, <1>5, ReceiveConnTakes, TakesConnMutual
<1>6. CASE SendData(n)
  BY Zenon, <1>6, SendDataSends, SendsMutual
<1>7. CASE ReceiveData(n)
  BY Zenon, <1>7, ReceiveDataTakes, SameLinkMutual
<1>8. CASE ReadPart(n) \/ Read(n)
  BY Zenon, <1>8, ReadReads, SameLinkMutual
<1> QED
  BY SMTT(30), <1>1, <1>2, <1>3, <1>4, <1>5, <1>6, <1>7, <1>8

(* ... and so does an application that waits for old packets to drain.      *)
QuietInv == HandshakeInv /\ SettledInv /\ MutualInv

(* The invariant holds, over any transport, if the application waits.       *)
THEOREM QuietInvariant ==
  ASSUME Quiet
  PROVE  Spec => []QuietInv
<1>1. Init => QuietInv
  <2>1. SUFFICES ASSUME Init
                 PROVE  MutualInv
    BY Zenon, HandshakeInitially, SettledInitially DEF QuietInv
  <2>2. PICK c : c = Closed
    BY Zenon
  <2>3. c.peer = 0 /\ c.my = 0
    BY Zenon, <2>2 DEF Closed
  <2>4. \A n \in Node : ch[n] = c /\ net[n] = <<>>
    BY Zenon, <2>1, <2>2 DEF Init
  <2>5. MutualOk(c, c, <<>>, met)
    BY SMTT(30), <2>3 DEF MutualOk, LinksOk
  <2> QED
    BY Zenon, <2>4, <2>5, Others DEF MutualInv
<1>2. QuietInv /\ [Next]_vars => QuietInv'
  <2>1. SUFFICES ASSUME QuietInv, [Next]_vars
                 PROVE  QuietInv'
    BY Zenon
  <2>2. HandshakeInv'
    BY Zenon, <2>1, HandshakeKept DEF QuietInv
  <2>3. CASE Next
    BY ZenonT(40), <2>1, <2>2, <2>3, MutualBreaksWell, SettledKept, MutualKept DEF QuietInv
  <2>4. CASE UNCHANGED vars
    <3>1. SettledInv'
      BY Zenon, <2>1, <2>4 DEF QuietInv, vars, SettledInv, EndOk, Deaf, MsgOk
    <3>2. MutualInv'
      BY <2>1, <2>4 DEF QuietInv, vars, MutualInv, MutualOk, LinksOk, FromOk
    <3> QED
      BY Zenon, <2>2, <3>1, <3>2 DEF QuietInv
  <2> QED
    BY Zenon, <2>1, <2>3, <2>4
<1> QED
  BY <1>1, <1>2, PTL DEF Spec

(* A channel that reports kConnected has been recorded by the very link it  *)
(* reports to be connected to, over any transport, if links are not opened  *)
(* while handshake packets of older ones are under way.                     *)
THEOREM ConnectedIsAlwaysMutual ==
  ASSUME Quiet
  PROVE  Spec => []ConnectedIsMutual
<1>1. QuietInv => ConnectedIsMutual
  BY Zenon DEF QuietInv, MutualInv, MutualOk, LinksOk, ConnectedIsMutual, Connected
<1> QED
  BY <1>1, QuietInvariant, PTL

(* Channels that are linked to each other agree on where the streams start  *)
(* and on the control bits, if the transport keeps the order of packets or  *)
(* the application waits for the old ones to drain.                         *)
THEOREM LinkedPairsAgree ==
  ASSUME InOrder \/ Quiet
  PROVE  Spec => []PairAgrees
<1>1. CASE InOrder
  <2>1. InOrderInv => PairAgrees
    BY Zenon, SettledPairs DEF InOrderInv
  <2> QED
    BY <1>1, <2>1, InOrderInvariant, PTL
<1>2. CASE Quiet
  <2>1. QuietInv => PairAgrees
    BY Zenon, SettledPairs DEF QuietInv
  <2> QED
    BY <1>2, <2>1, QuietInvariant, PTL
<1> QED
  BY Zenon, <1>1, <1>2

(* Under the same conditions the CHECKs of handleHandshakePacket hold.      *)
THEOREM HandshakeChecksHold ==
  ASSUME InOrder \/ Quiet
  PROVE  Spec => []ChecksHold
<1>1. CASE InOrder
  <2>1. InOrderInv => ChecksHold
    BY SettledChecks DEF InOrderInv
  <2> QED
    BY <1>1, <2>1, InOrderInvariant, PTL
<1>2. CASE Quiet
  <2>1. QuietInv => ChecksHold
    BY SettledChecks DEF QuietInv
  <2> QED
    BY <1>2, <2>1, QuietInvariant, PTL
<1> QED
  BY <1>1, <1>2

=============================================================================
