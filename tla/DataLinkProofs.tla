---------------------------- MODULE DataLinkProofs ----------------------------
(***************************************************************************)
(* A link whose packets arrive in order or not at all is a stream of       *)
(* bytes.  First the invariant of such a link, and that the sender's half  *)
(* keeps it: the writer's calls, what send() puts on the way, the          *)
(* acknowledgements and high-water marks that come back, and the           *)
(* receiver's sending of them.  Then that the reader's half keeps it, and  *)
(* with it every step; the safety properties of DataLink follow from it,   *)
(* and so does that DataLink implements ByteStream.                        *)
(***************************************************************************)
EXTENDS DataLink, EndpointProofs

(***************************************************************************)
(* What is under way, and the two ends.                                    *)
(***************************************************************************)
(* A packet that was sent is not changed any more.                          *)
IsPacket(p, lo, n, fin) ==
  /\ p \in 1 .. N /\ outBuf[p].finished
  /\ outBuf[p].lo = lo /\ outBuf[p].n = n /\ outBuf[p].fin = fin

Sent(m) == m.seq = Wire(m.pos) /\ IsPacket(m.pos, m.lo, m.n, m.fin)

DataTyped == toRx \in Seq(DataMsg) /\ \A i \in 1 .. Len(toRx) : Sent(toRx[i])

(* No packet under way is older than the ones before it by a ring.          *)
DataOrdered ==
  /\ \A i \in 1 .. Len(toRx) : rxEnd <= toRx[i].pos + SendCap
  /\ \A i, j \in 1 .. Len(toRx) : i < j => toRx[i].pos < toRx[j].pos + SendCap

CtlMsg ==
  [type: {"ack"}, pos: Nat, seq: Int, ctl: BOOLEAN, bits: SUBSET Nat]
  \cup [type: {"himark"}, pos: Nat, seq: Int, ctl: BOOLEAN]

CtlTyped ==
  /\ toTx \in Seq(CtlMsg)
  /\ \A i \in 1 .. Len(toTx) : toTx[i].seq = Wire(toTx[i].pos)

(* What an acknowledgement or a high-water mark says is true for good.      *)
Truthful(m) ==
  /\ txBegin <= m.pos
  /\ m.type = "ack" => m.pos <= unack /\ \A k \in m.bits : Received(m.pos + k)
  /\ m.type = "himark" => m.pos <= rxBegin + RecvCap

(* Acknowledgements under way do not get smaller.                           *)
CtlOrdered ==
  \A i \in 1 .. Len(toTx) :
    /\ Truthful(toTx[i])
    /\ toTx[i].type = "ack" => \A j \in i + 1 .. Len(toTx) : toTx[i].pos <= toTx[j].pos

Windows ==
  /\ rxEnd <= N + 1 /\ txBegin <= unack /\ txHimark <= rxBegin + RecvCap
  /\ \A p \in 1 .. unack - 1 : outBuf[p].finished

RingIsLog ==
  \A p \in rxBegin .. rxEnd - 1 :
    Set(p) => IsPacket(p, inBuf[p].lo, inBuf[p].n, inBuf[p].type = "fin")

Delivery ==
  /\ delivered = [i \in 1 .. Len(delivered) |-> i]
  /\ Len(delivered) <= Written
  /\ ~selfClosed => /\ Len(delivered) = Lo(rxBegin) + rxPos
                    /\ rxPos > 0 => rxBegin < rxEnd /\ Set(rxBegin) /\ rxPos < inBuf[rxBegin].n
  /\ rxEos => Len(delivered) = Written /\ (txEos \/ txState = "idle")

LinkInv ==
  /\ TxInv /\ RxInv
  /\ DataTyped /\ DataOrdered /\ CtlTyped /\ CtlOrdered
  /\ Windows /\ RingIsLog /\ Delivery /\ AckedWasReceived
-----------------------------------------------------------------------------
(* The two ends.  First what the invariant says about the numbers: where    *)
(* the packets under way are, relative to the ring they are read against.   *)
LEMMA HimarkCoversLog ==
  ASSUME TxInv
  PROVE  N <= txHimark /\ (~Closed => N < txHimark)
<1> USE DEF TxInv
<1>1. N \in Nat /\ txHimark \in Nat /\ 1 <= txHimark
  BY Zenon, LogFacts DEF TxTyped, WithinHimark
<1>2. CASE N <= 1
  BY <1>1, <1>2 DEF WithinHimark, FinIsLast, Closed
<1>3. CASE N > 1
  <2>1. N - 1 \in 1 .. N /\ N \in 1 .. N /\ N - 1 # N
    BY <1>1, <1>3
  <2>2. ~outBuf[N - 1].fin
    BY Zenon, <2>1 DEF FinIsLast
  <2>3. N - 1 < txHimark
    BY Zenon, <2>1, <2>2 DEF WithinHimark
  <2>4. ~Closed => N < txHimark
    BY Zenon, <2>1 DEF WithinHimark, FinIsLast, Closed
  <2> QED
    BY <1>1, <2>3, <2>4
<1> QED
  BY <1>1, <1>2, <1>3

(* The numbers of packets under way are restored to their positions.        *)
LEMMA DataInReach ==
  ASSUME LinkInv, NEW i \in 1 .. Len(toRx)
  PROVE  /\ toRx[i] \in DataMsg /\ toRx[i].pos \in Nat
         /\ rxBegin <= toRx[i].pos + SendCap
         /\ toRx[i].pos <= rxBegin + RecvCap
         /\ ~toRx[i].fin => toRx[i].pos < rxBegin + RecvCap
         /\ Restore(rxBegin, toRx[i].seq) = toRx[i].pos
<1> USE DEF LinkInv
<1>1. PICK p : p = toRx[i].pos
  BY Zenon
<1>2. toRx[i] \in DataMsg /\ p \in Nat /\ toRx[i].seq = Wire(p)
  <2>1. toRx[i] \in DataMsg
    BY DEF DataTyped
  <2> QED
    BY SMTT(30), <1>1, <2>1 DEF DataTyped, DataMsg, Sent
<1>3. p \in 1 .. N /\ outBuf[p].fin = toRx[i].fin
  BY Zenon, <1>1 DEF DataTyped, Sent, IsPacket
<1>4. rxBegin \in Nat /\ txHimark \in Nat /\ rxEnd \in Nat /\ N \in Nat
  BY Zenon, LogFacts DEF RxInv, RxTyped, TxInv, TxTyped
<1>5. rxBegin <= p + SendCap
  <2>1. rxBegin <= rxEnd
    BY Zenon DEF RxInv, RxWindow
  <2>2. rxEnd <= p + SendCap
    BY Zenon, <1>1 DEF DataOrdered
  <2> QED
    BY <1>2, <1>4, <2>1, <2>2, Sizes
<1>6. p <= rxBegin + RecvCap /\ (~toRx[i].fin => p < rxBegin + RecvCap)
  <2>1. N <= txHimark /\ txHimark <= rxBegin + RecvCap
    BY Zenon, HimarkCoversLog DEF Windows
  <2>2. ~toRx[i].fin => p < txHimark
    BY Zenon, <1>3 DEF TxInv, WithinHimark
  <2> QED
    BY SMTT(30), <1>2, <1>3, <1>4, <2>1, <2>2, Sizes
<1>7. Restore(rxBegin, Wire(p)) = p
  <2>1. rxBegin \in Int /\ p \in Int /\ rxBegin - Half <= p /\ p < rxBegin + Half
    BY <1>2, <1>4, <1>5, <1>6, Sizes
  <2> QED
    BY Zenon, <2>1, RestoreExact
<1> QED
  BY Zenon, <1>1, <1>2, <1>5, <1>6, <1>7

(* So are those of acknowledgements and high-water marks.                   *)
LEMMA CtlInReach ==
  ASSUME LinkInv, NEW i \in 1 .. Len(toTx)
  PROVE  /\ toTx[i].pos \in Nat /\ txBegin <= toTx[i].pos
         /\ toTx[i].type = "ack" =>
              /\ toTx[i].pos <= N + 1 /\ toTx[i].pos <= unack
              /\ Restore(txBegin, toTx[i].seq) = toTx[i].pos
         /\ toTx[i].type = "himark" =>
              /\ toTx[i].pos <= rxBegin + RecvCap
              /\ \/ Restore(txBegin, toTx[i].seq) = toTx[i].pos
                 \/ /\ Restore(txBegin, toTx[i].seq) \in Int
                    /\ Restore(txBegin, toTx[i].seq) < txHimark
         /\ toTx[i].type \in {"ack", "himark"}
<1> USE DEF LinkInv
<1>1. PICK p : p = toTx[i].pos
  OBVIOUS
<1>2. p \in Nat /\ toTx[i].seq = Wire(p) /\ toTx[i].type \in {"ack", "himark"}
  <2>1. toTx[i] \in CtlMsg
    BY DEF CtlTyped
  <2>2. toTx[i].pos \in Nat /\ toTx[i].type \in {"ack", "himark"}
    BY Zenon, <2>1 DEF CtlMsg
  <2> QED
    BY Zenon, <1>1, <2>2 DEF CtlTyped
<1>3. /\ txBegin <= p /\ (toTx[i].type = "ack" => p <= unack)
      /\ toTx[i].type = "himark" => p <= rxBegin + RecvCap
  BY Zenon, <1>1 DEF CtlOrdered, Truthful
<1>4. /\ rxBegin \in Nat /\ rxEnd \in Nat /\ unack \in Nat /\ txBegin \in Nat /\ N \in Nat
      /\ txHimark \in Nat /\ rxBegin <= rxEnd /\ unack <= rxEnd /\ rxEnd <= N + 1
      /\ N + 1 <= txBegin + SendCap /\ txBegin <= N + 1
  BY Zenon, LogFacts DEF RxInv, RxTyped, RxWindow, TxInv, TxTyped, TxWindow, Windows
<1>5. txBegin \in Int /\ p \in Int
  BY <1>2, <1>4
<1>6. p < txBegin + Half => Restore(txBegin, Wire(p)) = p
  <2>1. txBegin - Half <= p
    BY <1>2, <1>3, <1>4, Sizes
  <2> QED
    BY Zenon, <1>5, <2>1, RestoreExact
<1>7. ASSUME toTx[i].type = "ack"
      PROVE  p <= N + 1 /\ Restore(txBegin, Wire(p)) = p
  <2>1. p <= N + 1 /\ p < txBegin + Half
    BY <1>2, <1>3, <1>4, <1>7, Sizes
  <2> QED
    BY Zenon, <1>6, <2>1
<1>8. ASSUME toTx[i].type = "himark"
      PROVE  \/ Restore(txBegin, Wire(p)) = p
             \/ /\ Restore(txBegin, Wire(p)) \in Int
                /\ Restore(txBegin, Wire(p)) < txHimark
  <2>1. p <= txBegin + Half
    BY <1>2, <1>3, <1>4, <1>8, Sizes
  <2>2. CASE p < txBegin + Half
    BY Zenon, <1>6, <2>2
  <2>3. CASE p = txBegin + Half
    <3>1. Restore(txBegin, Wire(p)) = txBegin - Half
      BY Zenon, <1>5, <2>3, RestoreAbove
    <3>2. N <= txHimark
      BY Zenon, HimarkCoversLog
    <3> QED
      BY <1>4, <3>1, <3>2, Sizes
  <2> QED
    BY SMTT(30), <1>2, <1>4, <2>1, <2>2, <2>3, Sizes
<1> QED
  BY Zenon, <1>1, <1>2, <1>3, <1>7, <1>8

(* A finished packet stays what it is.                                      *)
LEMMA PacketStays ==
  ASSUME TxInv, TxInv', LogGrows, NEW p, NEW lo, NEW n, NEW fin, IsPacket(p, lo, n, fin)
  PROVE  IsPacket(p, lo, n, fin)'
<1>1. N \in Nat /\ N' \in Nat /\ N <= N' /\ p \in 1 .. N
  BY LogFacts DEF TxInv, TxTyped, LogGrows, IsPacket, N
<1>2. p \in 1 .. N'
  BY <1>1
<1> QED
  BY Zenon, <1>1, <1>2 DEF LogGrows, IsPacket

(* A step of the transmitter leaves intact what the receiver has.           *)
RxQuiet == UNCHANGED <<inBuf, rxBegin, rxEnd, rxPos, unack, selfClosed, rxEos, delivered>>

(* The sender's steps keep what the receiver's half of the invariant says.  *)
LEMMA TxFrame ==
  ASSUME LinkInv, TxInv', LogGrows, RxQuiet, txBegin' <= unack,
         txHimark' <= rxBegin + RecvCap
  PROVE  RxInv' /\ RingIsLog' /\ Delivery' /\ Windows'
<1> USE DEF LinkInv
<1>1. /\ inBuf' = inBuf /\ rxBegin' = rxBegin /\ rxEnd' = rxEnd /\ rxPos' = rxPos
      /\ unack' = unack /\ selfClosed' = selfClosed /\ rxEos' = rxEos
      /\ delivered' = delivered
  BY Zenon DEF RxQuiet
<1>2. /\ N \in Nat /\ N' \in Nat /\ N <= N' /\ N' <= N + 1
      /\ Written \in Nat /\ Written' \in Nat /\ Written <= Written'
      /\ TxTyped /\ TxTyped'
      /\ rxBegin \in Nat /\ rxEnd \in Nat /\ unack \in Nat /\ rxPos \in Nat
      /\ rxBegin <= rxEnd /\ rxEnd <= N + 1 /\ unack <= rxEnd
  <2>1. TxTyped /\ TxTyped'
    BY Zenon DEF TxInv
  <2>2. N \in Nat /\ Written \in Nat
    BY Zenon, <2>1, LogFacts
  <2>3. N' \in Nat
    BY <2>1 DEF TxTyped, N
  <2>4. Written' \in Nat
    <3>1. CASE N' = 0
      BY <2>1, <3>1 DEF TxTyped, N, Written
    <3>2. CASE N' > 0
      <4>1. N' \in 1 .. N' /\ outBuf' # <<>>
        BY <2>3, <3>2 DEF N
      <4>2. outBuf'[N'] \in OutBuffer
        BY <2>1, <4>1 DEF TxTyped, N
      <4>3. Written' = outBuf'[N'].lo + outBuf'[N'].n
        BY Zenon, <4>1 DEF Written, N
      <4> QED
        BY <4>2, <4>3, TransmitterAssumption DEF OutBuffer
    <3> QED
      BY <2>3, <3>1, <3>2
  <2> QED
    BY Zenon, <2>1, <2>2, <2>3, <2>4 DEF RxInv, RxTyped, RxWindow, Windows, LogGrows
<1>3. RxInv'
  BY Zenon, <1>1 DEF RxInv, RxTyped, RxWindow, Set
<1>4. RingIsLog'
  <2> SUFFICES ASSUME NEW p \in rxBegin .. rxEnd - 1, Set(p)
               PROVE  IsPacket(p, inBuf[p].lo, inBuf[p].n, inBuf[p].type = "fin")'
    BY Zenon, <1>1 DEF RingIsLog, Set
  <2>1. PICK lo, n, fin : lo = inBuf[p].lo /\ n = inBuf[p].n /\ fin = (inBuf[p].type = "fin")
    BY Zenon
  <2>2. IsPacket(p, lo, n, fin)
    BY Zenon, <2>1 DEF RingIsLog
  <2>3. IsPacket(p, lo, n, fin)'
    BY Zenon, <2>2, PacketStays
  <2> QED
    BY Zenon, <1>1, <2>1, <2>3 DEF IsPacket
<1>5. Windows'
  <2>1. \A p \in 1 .. unack - 1 : outBuf'[p].finished
    BY <1>2 DEF Windows, LogGrows
  <2>2. PICK M \in Nat : M = N' /\ N <= M
    BY Zenon, <1>2
  <2>3. rxEnd <= M + 1
    <3>1. rxEnd <= N + 1 /\ N \in Nat /\ rxEnd \in Nat
      BY Zenon, <1>2
    <3>2. N <= M
      BY Zenon, <2>2
    <3> QED
      BY <3>1, <3>2
  <2> QED
    BY Zenon, <1>1, <2>1, <2>2, <2>3 DEF Windows
<1>6. Delivery'
  <2>1. ASSUME ~selfClosed PROVE Lo(rxBegin)' = Lo(rxBegin)
    <3>1. CASE rxBegin <= N
      <4>1. rxBegin \in 1 .. N
        BY <1>2, <3>1 DEF RxInv, RxWindow
      <4> QED
        BY <1>1, <1>2, <3>1, <4>1 DEF Lo, LogGrows
    <3>2. CASE rxBegin > N
      <4>1. rxBegin = N + 1 /\ N < unack
        BY <1>2, <2>1, <3>2 DEF RxInv, RxWindow
      <4>2. N > 0 => outBuf[N].finished
        BY <1>2, <4>1 DEF Windows
      <4>3. CASE N' = N
        BY <1>1, <1>2, <4>1, <4>2, <4>3 DEF Lo, LogGrows
      <4>4. CASE N' = N + 1
        BY <1>1, <1>2, <4>1, <4>4 DEF Lo, LogGrows
      <4> QED
        BY <1>2, <4>3, <4>4
    <3> QED
      BY <1>2, <3>1, <3>2
  <2>2. rxEos => Written' = Written /\ (txEos \/ txState = "idle")'
    BY Zenon DEF Delivery, LogGrows, Closed
  <2>3. Len(delivered) \in Nat /\ Len(delivered) <= Written
    BY DEF Delivery, RxInv, RxTyped
  <2>4. Len(delivered) <= Written'
    BY <1>2, <2>3
  <2> QED
    BY Zenon, <1>1, <2>1, <2>2, <2>4 DEF Delivery, Set
<1> QED
  BY Zenon, <1>3, <1>4, <1>5, <1>6

(* A step of the receiver leaves intact what the transmitter believes.      *)
LEMMA RxFrame ==
  ASSUME LinkInv, RxInv', RxGrows, UNCHANGED txVars
  PROVE  /\ TxInv' /\ AckedWasReceived'
         /\ txBegin' <= unack' /\ txHimark' <= rxBegin' + RecvCap
         /\ \A m \in CtlMsg : Truthful(m) => Truthful(m)'
<1> USE DEF LinkInv
<1>1. /\ outBuf' = outBuf /\ N' = N /\ txBegin' = txBegin /\ txHimark' = txHimark
      /\ TxInv' /\ txBegin \in Nat /\ txHimark \in Nat
      /\ unack \in Nat /\ unack' \in Nat /\ unack <= unack'
      /\ rxBegin \in Nat /\ rxBegin' \in Nat /\ rxBegin <= rxBegin'
  BY Zenon, TxUnchangedStep DEF txVars, N, TxInv, TxTyped, RxInv, RxTyped, RxGrows
<1>2. AckedWasReceived'
  <2> SUFFICES ASSUME NEW p \in DOMAIN outBuf, p < txBegin \/ outBuf[p].acked
               PROVE  Received(p)'
    BY Zenon, <1>1 DEF AckedWasReceived
  <2>1. p \in Nat
    BY DEF TxInv, TxTyped
  <2> QED
    BY Zenon, <2>1 DEF AckedWasReceived, RxGrows
<1>3. PICK B \in Nat : B = rxBegin' /\ rxBegin <= B
  BY Zenon, <1>1
<1>4. txBegin' <= unack' /\ txHimark' <= rxBegin' + RecvCap
  <2>1. txHimark <= rxBegin + RecvCap /\ txBegin <= unack /\ RecvCap \in Nat
    BY Zenon, Sizes DEF Windows
  <2>2. txHimark <= B + RecvCap
    <3>1. rxBegin <= B /\ rxBegin \in Nat /\ txHimark \in Nat
      BY Zenon, <1>1, <1>3
    <3> QED
      BY <2>1, <3>1
  <2>3. txBegin <= unack'
    BY <1>1, <2>1
  <2> QED
    BY Zenon, <1>1, <1>3, <2>2, <2>3
<1>5. ASSUME NEW m \in CtlMsg, Truthful(m) PROVE Truthful(m)'
  <2>1. m.pos \in Nat /\ (m.type = "ack" => m.bits \subseteq Nat)
    BY Zenon DEF CtlMsg
  <2>2. ASSUME m.type = "ack", NEW k \in m.bits PROVE Received(m.pos + k)'
    <3>1. m.pos + k \in Nat
      BY <2>1, <2>2
    <3> QED
      BY Zenon, <1>5, <2>2, <3>1 DEF Truthful, RxGrows
  <2>3. m.type = "himark" => m.pos <= B + RecvCap
    BY <1>1, <1>3, <1>5, <2>1, Sizes DEF Truthful
  <2>4. m.type = "ack" => m.pos <= unack'
    BY SMTT(30), <1>1, <1>5, <2>1 DEF Truthful
  <2> QED
    BY Zenon, <1>1, <1>3, <1>5, <2>2, <2>3, <2>4 DEF Truthful
<1> QED
  BY Zenon, <1>1, <1>2, <1>4, <1>5

(* The first of the packets under way is taken out.                         *)
LEMMA WithoutFirst ==
  ASSUME NEW S, NEW s \in Seq(S), 1 \in DOMAIN s
  PROVE  /\ Without(s, 1) \in Seq(S) /\ Len(s) \in Nat /\ Len(Without(s, 1)) = Len(s) - 1
         /\ 1 \in 1 .. Len(s)
         /\ \A i \in 1 .. Len(Without(s, 1)) :
              i + 1 \in 1 .. Len(s) /\ i + 1 > 1 /\ Without(s, 1)[i] = s[i + 1]
<1>1. Len(s) \in Nat /\ Len(s) >= 1
  OBVIOUS
<1>2. Without(s, 1) = SubSeq(s, 1, 0) \o SubSeq(s, 2, Len(s))
  BY DEF Without
<1>3. SubSeq(s, 1, 0) = <<>>
  OBVIOUS
<1>4. SubSeq(s, 2, Len(s)) = Tail(s)
  BY <1>1
<1>5. Tail(s) \in Seq(S) /\ Len(Tail(s)) = Len(s) - 1
  BY <1>1
<1>6. \A i \in 1 .. Len(s) - 1 : Tail(s)[i] = s[i + 1]
  BY <1>1
<1>7. Without(s, 1) = Tail(s)
  BY <1>2, <1>3, <1>4, <1>5
<1>8. 1 \in 1 .. Len(s) /\ \A i \in 1 .. Len(s) - 1 : i + 1 \in 1 .. Len(s) /\ i + 1 > 1
  BY <1>1
<1>9. Without(s, 1) \in Seq(S) /\ Len(Without(s, 1)) = Len(s) - 1
  BY Zenon, <1>5, <1>7
<1> QED
  BY Zenon, <1>1, <1>6, <1>7, <1>8, <1>9

(* In order: what is taken from the channel is its first packet.            *)
LEMMA ArrivesFirst ==
  ASSUME InOrder, NEW net, NEW i \in Arrivals(net)
  PROVE  i = 1 /\ 1 \in DOMAIN net
BY Zenon DEF Arrivals

(* A packet that was sent stays what it was.                                *)
LEMMA SentStays ==
  ASSUME TxInv, TxInv', LogGrows, NEW m, Sent(m)
  PROVE  Sent(m)'
<1>1. IsPacket(m.pos, m.lo, m.n, m.fin)'
  BY Zenon, PacketStays DEF Sent
<1> QED
  BY Zenon, <1>1 DEF Sent

(* A packet that has arrived has arrived for good.                          *)
LEMMA ReceivedStays ==
  ASSUME RxQuiet
  PROVE  \A p : Received(p) <=> Received(p)'
BY Zenon DEF RxQuiet, Received

(* A step of the transmitter that acknowledges nothing.                     *)
LEMMA TxQuietStep ==
  ASSUME LinkInv, TxInv', LogGrows, MarksKept, RxQuiet, txHimark' <= rxBegin + RecvCap
  PROVE  /\ RxInv' /\ RingIsLog' /\ Delivery' /\ Windows' /\ AckedWasReceived'
         /\ toTx' = toTx => CtlTyped' /\ CtlOrdered'
         /\ toRx' = toRx => DataTyped' /\ DataOrdered'
<1> USE DEF LinkInv
<1>1. txBegin' = txBegin /\ rxEnd' = rxEnd /\ unack' = unack /\ rxBegin' = rxBegin
  BY Zenon DEF MarksKept, RxQuiet
<1>2. RxInv' /\ RingIsLog' /\ Delivery' /\ Windows'
  BY Zenon, <1>1, TxFrame DEF Windows
<1>3. AckedWasReceived'
  <2> SUFFICES ASSUME NEW p \in DOMAIN outBuf', p < txBegin \/ outBuf'[p].acked
               PROVE  Received(p)
    BY Zenon, <1>1, ReceivedStays DEF AckedWasReceived
  <2>1. /\ N \in Nat /\ N' \in Nat /\ txBegin \in Nat /\ txBegin <= N + 1
        /\ DOMAIN outBuf = 1 .. N /\ DOMAIN outBuf' = 1 .. N'
    BY LogFacts DEF TxInv, TxTyped, TxWindow, N
  <2>2. p \in 1 .. N /\ (p < txBegin \/ outBuf[p].acked)
    BY <2>1 DEF MarksKept
  <2> QED
    BY Zenon, <2>1, <2>2 DEF AckedWasReceived
<1>4. ASSUME toTx' = toTx PROVE CtlTyped' /\ CtlOrdered'
  <2>1. \A m : Truthful(m) => Truthful(m)'
    BY Zenon, <1>1, ReceivedStays DEF Truthful
  <2> QED
    BY Zenon, <1>4, <2>1 DEF CtlTyped, CtlOrdered
<1>5. ASSUME toRx' = toRx PROVE DataTyped' /\ DataOrdered'
  <2>1. \A m : Sent(m) => Sent(m)'
    BY Zenon, SentStays
  <2> QED
    BY Zenon, <1>1, <1>5, <2>1 DEF DataTyped, DataOrdered
<1> QED
  BY Zenon, <1>2, <1>3, <1>4, <1>5

(* send() puts a packet on the channel, or it is lost.                      *)
LEMMA SendDataStep ==
  ASSUME LinkInv, NEW p \in 1 .. N, SendData(p)
  PROVE  LinkInv'
<1> USE DEF LinkInv
<1>1. /\ TxSend(p) /\ toRx' = Append(toRx, DataPacket(p)) /\ toTx' = toTx /\ RxQuiet
      /\ txHimark' = txHimark
  BY Zenon DEF SendData, RxQuiet, rxVars, TxSend
<1>2. PICK m : m = DataPacket(p)
  BY Zenon
<1>3. /\ TxInv' /\ LogGrows /\ MarksKept
      /\ p \in txBegin .. N /\ N' = N
      /\ outBuf'[p].finished /\ SameFields(outBuf'[p], outBuf[p])
      /\ m \in DataMsg /\ m.pos = p /\ m.seq = Wire(p)
      /\ SameFields(m, outBuf[p])
  BY Zenon, <1>1, <1>2, TxSendStep
<1>4. txHimark' <= rxBegin + RecvCap
  BY Zenon, <1>1 DEF Windows
<1>5. /\ RxInv' /\ RingIsLog' /\ Delivery' /\ Windows' /\ AckedWasReceived'
      /\ CtlTyped' /\ CtlOrdered'
  BY Zenon, <1>1, <1>3, <1>4, TxQuietStep
<1>6. /\ toRx' \in Seq(DataMsg) /\ Len(toRx') = Len(toRx) + 1 /\ Len(toRx) \in Nat
      /\ toRx'[Len(toRx) + 1] = m
      /\ \A i \in 1 .. Len(toRx) : toRx'[i] = toRx[i]
  BY <1>1, <1>2, <1>3 DEF DataTyped
<1>7. \A i \in 1 .. Len(toRx) + 1 : i = Len(toRx) + 1 \/ i \in 1 .. Len(toRx)
  BY SMTT(30), <1>6
<1>8. DataTyped'
  <2>1. Sent(m)'
    BY Zenon, <1>3 DEF Sent, IsPacket, SameFields
  <2>2. \A i \in 1 .. Len(toRx) : Sent(toRx[i])
    BY Zenon DEF DataTyped
  <2>3. ASSUME NEW i \in 1 .. Len(toRx) + 1 PROVE Sent(toRx'[i]) \/ toRx'[i] = m
    BY SMTT(30), <1>6, <1>7, <2>2
  <2>4. \A x : Sent(x) => Sent(x)'
    BY Zenon, <1>3, SentStays
  <2>5. \A i \in 1 .. Len(toRx) + 1 : \E x : x = toRx'[i] /\ Sent(x)'
    <3> SUFFICES ASSUME NEW i \in 1 .. Len(toRx) + 1 PROVE \E x : x = toRx'[i] /\ Sent(x)'
      BY Zenon
    <3>1. PICK x : x = toRx'[i]
      BY Zenon
    <3>2. Sent(x)'
      BY Zenon, <2>1, <2>3, <2>4, <3>1
    <3> QED
      BY Zenon, <3>1, <3>2
  <2> QED
    BY <1>6, <2>5 DEF DataTyped, Sent, IsPacket
<1>9. DataOrdered'
  <2>1. /\ rxEnd \in Nat /\ N \in Nat /\ txBegin \in Nat /\ rxEnd <= N + 1
        /\ N + 1 <= txBegin + SendCap /\ SendCap \in Nat /\ p \in Nat
    <3>1. N \in Nat
      BY Zenon, LogFacts DEF TxInv
    <3>2. rxEnd \in Nat /\ rxEnd <= N + 1
      BY Zenon DEF RxInv, RxTyped, Windows
    <3>3. txBegin \in Nat /\ N + 1 <= txBegin + SendCap
      BY Zenon DEF TxInv, TxTyped, TxWindow
    <3> QED
      BY <3>1, <3>2, <3>3, Sizes
  <2>2. rxEnd' = rxEnd /\ rxEnd <= m.pos + SendCap
    BY <1>1, <1>3, <2>1 DEF RxQuiet
  <2>3. ASSUME NEW i \in 1 .. Len(toRx) PROVE toRx[i].pos < m.pos + SendCap
    <3>1. toRx[i].pos \in 1 .. N
      BY Zenon DEF DataTyped, Sent, IsPacket
    <3> QED
      BY SMTT(30), <1>3, <2>1, <3>1
  <2>4. ASSUME NEW i \in 1 .. Len(toRx) + 1 PROVE rxEnd' <= toRx'[i].pos + SendCap
    BY Zenon, <1>6, <1>7, <2>2 DEF DataOrdered
  <2>5. ASSUME NEW i \in 1 .. Len(toRx) + 1, NEW j \in 1 .. Len(toRx) + 1, i < j
        PROVE  toRx'[i].pos < toRx'[j].pos + SendCap
    <3>1. i \in 1 .. Len(toRx)
      BY <1>6, <2>5
    <3>2. CASE j = Len(toRx) + 1
      BY Zenon, <1>6, <2>3, <3>1, <3>2
    <3>3. CASE j \in 1 .. Len(toRx)
      BY Zenon, <1>6, <2>5, <3>1, <3>3 DEF DataOrdered
    <3> QED
      BY Zenon, <1>7, <3>2, <3>3
  <2> QED
    BY Zenon, <1>6, <2>4, <2>5 DEF DataOrdered
<1> QED
  BY Zenon, <1>3, <1>5, <1>8, <1>9

(* The writer's calls, and a packet that is lost.                           *)
LEMMA WriterStep ==
  ASSUME LinkInv, \/ Write \/ WriterFlush \/ WriterClose \/ TxConnect \/ RxConnect
                  \/ \E p \in 1 .. N : LoseData(p)
  PROVE  LinkInv'
<1> USE DEF LinkInv
<1>1. RxQuiet /\ toRx' = toRx /\ toTx' = toTx
  BY Zenon DEF Write, WriterFlush, WriterClose, TxConnect, RxConnect, RxSetConnected, LoseData,
         RxQuiet, rxVars, netVars
<1>2. TxInv' /\ LogGrows /\ MarksKept /\ txHimark' <= rxBegin + RecvCap
  <2>1. txHimark <= rxBegin + RecvCap
    BY Zenon DEF Windows
  <2>2. ASSUME NEW k \in 1 .. Payload, TryWriteAppend(k)
        PROVE  TxInv' /\ LogGrows /\ MarksKept /\ txHimark' = txHimark
    BY Zenon, <2>2, TryWriteAppendStep DEF TryWriteAppend
  <2>3. ASSUME NEW k \in 1 .. Payload, TryWritePush(k)
        PROVE  TxInv' /\ LogGrows /\ MarksKept /\ txHimark' = txHimark
    BY Zenon, <2>3, TryWritePushStep DEF TryWritePush
  <2>4. CASE TryWriteBlocked
    BY Zenon, <2>1, <2>4, TryWriteBlockedStep DEF TryWriteBlocked
  <2>5. CASE Write
    BY Zenon, <2>1, <2>2, <2>3, <2>4, <2>5 DEF Write
  <2>6. CASE WriterFlush
    BY Zenon, <2>1, <2>6, FlushStep DEF WriterFlush, Flush
  <2>7. CASE WriterClose
    BY Zenon, <2>1, <2>7, CloseStep DEF WriterClose, Close
  <2>8. CASE TxConnect
    <3>1. TxInv' /\ LogGrows /\ MarksKept /\ txHimark' = 1 + RecvCap
      BY Zenon, <2>8, TxSetConnectedStep, DataLinkAssumption DEF TxConnect
    <3>2. 1 + RecvCap <= rxBegin + RecvCap
      BY Sizes DEF RxInv, RxTyped, RxWindow
    <3> QED
      BY Zenon, <3>1, <3>2
  <2>9. CASE RxConnect
    BY Zenon, <2>1, <2>9, TxUnchangedStep DEF RxConnect, txVars
  <2>10. ASSUME NEW p \in 1 .. N, LoseData(p)
         PROVE  TxInv' /\ LogGrows /\ MarksKept /\ txHimark' = txHimark
    BY Zenon, <2>10, TxSendStep DEF LoseData, TxSend
  <2> QED
    BY Zenon, <2>1, <2>5, <2>6, <2>7, <2>8, <2>9, <2>10
<1> QED
  BY SMTT(30), <1>1, <1>2, TxQuietStep

(* The messages that are left when the first one is handled.                *)
LEMMA CtlRest ==
  ASSUME LinkInv, 1 \in DOMAIN toTx, toTx' = Without(toTx, 1), NEW b,
         \A i \in 1 .. Len(toTx) : i > 1 => b <= toTx[i].pos,
         \A m : Truthful(m) /\ b <= m.pos => Truthful(m)'
  PROVE  CtlTyped' /\ CtlOrdered'
<1> USE DEF LinkInv
<1>1. toTx \in Seq(CtlMsg)
  BY Zenon DEF CtlTyped
<1>2. PICK s : s = toTx'
  BY Zenon
<1>3. /\ s \in Seq(CtlMsg) /\ Len(toTx) \in Nat /\ Len(s) = Len(toTx) - 1
      /\ \A i \in 1 .. Len(s) : i + 1 \in 1 .. Len(toTx) /\ i + 1 > 1 /\ s[i] = toTx[i + 1]
  <2>1. s = Without(toTx, 1)
    BY Zenon, <1>2
  <2> QED
    BY Zenon, <1>1, <2>1, WithoutFirst
<1>4. ASSUME NEW i \in 1 .. Len(s)
      PROVE  /\ s[i].seq = Wire(s[i].pos) /\ Truthful(s[i]) /\ b <= s[i].pos
             /\ s[i].type = "ack" => \A j \in i + 1 .. Len(s) : s[i].pos <= s[j].pos
  <2>1. i + 1 \in 1 .. Len(toTx) /\ i + 1 > 1 /\ s[i] = toTx[i + 1]
    BY Zenon, <1>3
  <2>2. s[i].seq = Wire(s[i].pos) /\ Truthful(s[i]) /\ b <= s[i].pos
    BY Zenon, <2>1 DEF CtlTyped, CtlOrdered
  <2>3. ASSUME s[i].type = "ack", NEW j \in i + 1 .. Len(s)
        PROVE  s[i].pos <= s[j].pos
    <3>1. j \in 1 .. Len(s) /\ j + 1 \in (i + 1) + 1 .. Len(toTx)
      BY <1>3
    <3>2. s[j] = toTx[j + 1]
      BY Zenon, <1>3, <3>1
    <3> QED
      BY Zenon, <2>1, <2>3, <3>1, <3>2 DEF CtlOrdered
  <2> QED
    BY Zenon, <2>2, <2>3
<1>5. ASSUME NEW i \in 1 .. Len(s) PROVE \E m : m = s[i] /\ Truthful(m)'
  <2>1. PICK m : m = s[i]
    BY SMTT(30)
  <2>2. Truthful(m)'
    BY SMTT(30), <1>4, <2>1
  <2> QED
    BY Zenon, <2>1, <2>2
<1>6. CtlTyped'
  BY SMTT(30), <1>2, <1>3, <1>4 DEF CtlTyped
<1>7. CtlOrdered'
  <2> SUFFICES ASSUME NEW i \in 1 .. Len(s)
               PROVE  /\ Truthful(toTx[i])'
                      /\ s[i].type = "ack" => \A j \in i + 1 .. Len(s) : s[i].pos <= s[j].pos
    BY Zenon, <1>2 DEF CtlOrdered
  <2>1. PICK m : m = toTx'[i] /\ Truthful(m)'
    BY SMTT(30), <1>2, <1>5
  <2>2. Truthful(toTx[i])'
    BY Zenon, <2>1 DEF Truthful, Received
  <2> QED
    BY Zenon, <1>4, <2>2
<1> QED
  BY Zenon, <1>6, <1>7

(* A high-water mark arrives.                                               *)
LEMMA ReceiveHimarkStep ==
  ASSUME LinkInv, InOrder, ReceiveHimark
  PROVE  LinkInv' /\ Written' = Written
<1> USE DEF LinkInv
<1>1. /\ 1 \in DOMAIN toTx /\ toTx[1].type = "himark" /\ TxUpdateRecvHimark(toTx[1])
      /\ toTx' = Without(toTx, 1) /\ RxQuiet /\ toRx' = toRx
  BY Zenon, ArrivesFirst DEF ReceiveHimark, RxQuiet, rxVars
<1>2. 1 \in 1 .. Len(toTx)
  BY <1>1 DEF CtlTyped
<1>3. PICK m, h : m = toTx[1] /\ h = Restore(txBegin, m.seq)
  BY SMTT(30)
<1>4. /\ m.pos \in Nat /\ m.pos <= rxBegin + RecvCap
      /\ h = m.pos \/ (h \in Int /\ h < txHimark)
  BY Zenon, <1>1, <1>2, <1>3, CtlInReach
<1>5. h \in Int
  BY <1>4
<1>6. /\ TxInv' /\ LogGrows /\ MarksKept /\ Written' = Written
      /\ txHimark' = txHimark \/ (txHimark' = h /\ txHimark' >= txHimark)
  BY Zenon, <1>1, <1>3, <1>5, TxUpdateRecvHimarkStep
<1>7. txHimark' <= rxBegin + RecvCap
  <2>1. txHimark \in Nat /\ txHimark <= rxBegin + RecvCap
    BY SMTT(30) DEF TxInv, TxTyped, Windows
  <2> QED
    BY <1>4, <1>6, <2>1
<1>8. /\ RxInv' /\ RingIsLog' /\ Delivery' /\ Windows' /\ AckedWasReceived'
      /\ DataTyped' /\ DataOrdered'
  BY SMTT(30), <1>1, <1>6, <1>7, TxQuietStep
<1>9. \A x : Truthful(x) => Truthful(x)'
  BY SMTT(30), <1>1, <1>6, ReceivedStays DEF Truthful, MarksKept, RxQuiet
<1>10. \A i \in 1 .. Len(toTx) : txBegin <= toTx[i].pos
  BY SMTT(30) DEF CtlOrdered, Truthful
<1>11. CtlTyped' /\ CtlOrdered'
  BY SMTT(30), <1>1, <1>9, <1>10, CtlRest
<1> QED
  BY SMTT(30), <1>6, <1>8, <1>11

(* An acknowledgement arrives.                                              *)
LEMMA ReceiveAckStep ==
  ASSUME LinkInv, InOrder, ReceiveAck
  PROVE  LinkInv' /\ Written' = Written
<1> USE DEF LinkInv
<1>1. /\ 1 \in DOMAIN toTx /\ toTx[1].type = "ack" /\ TxAck(toTx[1])
      /\ toTx' = Without(toTx, 1) /\ RxQuiet /\ toRx' = toRx
  BY Zenon, ArrivesFirst DEF ReceiveAck, RxQuiet, rxVars
<1>2. 1 \in 1 .. Len(toTx) /\ Len(toTx) \in Nat
  BY <1>1 DEF CtlTyped
<1>3. PICK m, q : m = toTx[1] /\ q = m.pos
  BY SMTT(30)
<1>4. /\ q \in Nat /\ txBegin <= q /\ q <= N + 1 /\ q <= unack
      /\ q = Restore(txBegin, m.seq)
  BY Zenon, <1>1, <1>2, <1>3, CtlInReach
<1>5. /\ N \in Nat /\ txBegin \in Nat /\ unack \in Nat /\ txBegin <= N + 1
      /\ unack <= N + 1 /\ rxEnd \in Nat
  <2>1. txBegin \in Nat /\ txBegin <= N + 1
    BY Zenon DEF TxInv, TxTyped, TxWindow
  <2>2. rxEnd \in Nat /\ unack \in Nat /\ unack <= rxEnd
    BY Zenon DEF RxInv, RxTyped, RxWindow
  <2>3. N \in Nat
    BY Zenon, LogFacts DEF TxInv
  <2>4. rxEnd <= N + 1
    BY Zenon DEF Windows
  <2> QED
    BY <2>1, <2>2, <2>3, <2>4
<1>6. \A p \in 1 .. N : p < q => outBuf[p].finished
  BY <1>4, <1>5 DEF Windows
<1>7. TxInv' /\ LogGrows /\ AckMarks(m, q) /\ txHimark' = txHimark /\ Written' = Written
  BY Zenon, <1>1, <1>3, <1>4, <1>6, TxAckStep
<1>8. txBegin' \in {txBegin, q} /\ txBegin' <= unack
  BY SMTT(30), <1>4, <1>7 DEF AckMarks, Windows
<1>9. RxInv' /\ RingIsLog' /\ Delivery' /\ Windows'
  BY Zenon, ZenonT(30), <1>1, <1>7, <1>8, TxFrame DEF Windows
<1>10. \A k \in m.bits : Received(q + k)
  BY Zenon, <1>1, <1>2, <1>3 DEF CtlOrdered, Truthful
<1>11. AckedWasReceived'
  <2> SUFFICES ASSUME NEW p \in DOMAIN outBuf', p < txBegin' \/ outBuf'[p].acked
               PROVE  Received(p)
    BY Zenon, <1>1, ReceivedStays DEF AckedWasReceived
  <2>1. DOMAIN outBuf = 1 .. N /\ DOMAIN outBuf' = 1 .. N' /\ N' \in Nat
    BY <1>7 DEF TxInv, TxTyped, N
  <2>2. p \in Nat /\ p \in 1 .. N'
    BY <2>1
  <2>3. CASE p < txBegin'
    BY SMTT(30), <1>4, <1>5, <1>8, <2>2, <2>3 DEF Received, Windows
  <2>4. CASE outBuf'[p].acked
    <3>1. (p <= N /\ outBuf[p].acked) \/ (q <= p /\ p - q \in m.bits)
      BY SMTT(30), <1>7, <2>2, <2>4 DEF AckMarks
    <3>2. CASE p <= N /\ outBuf[p].acked
      BY SMTT(30), <1>5, <2>1, <2>2, <3>2 DEF AckedWasReceived
    <3>3. CASE q <= p /\ p - q \in m.bits
      <4>1. q + (p - q) = p
        BY SMTT(30), <1>4, <2>2
      <4> QED
        BY Zenon, <1>10, <3>3, <4>1
    <3> QED
      BY SMTT(30), <3>1, <3>2, <3>3
  <2> QED
    BY SMTT(30), <2>3, <2>4
<1>12. \A i \in 1 .. Len(toTx) : i > 1 => q <= toTx[i].pos
  <2> SUFFICES ASSUME NEW i \in 1 .. Len(toTx), i > 1 PROVE q <= toTx[i].pos
    BY Zenon
  <2>1. i \in 1 + 1 .. Len(toTx)
    BY SMTT(30), <1>2
  <2> QED
    BY SMTT(30), <1>1, <1>2, <1>3, <2>1 DEF CtlOrdered
<1>13. \A x : Truthful(x) /\ q <= x.pos => Truthful(x)'
  <2> SUFFICES ASSUME NEW x, Truthful(x), q <= x.pos PROVE Truthful(x)'
    BY Zenon
  <2>1. txBegin' <= x.pos
    BY SMTT(30), <1>8 DEF Truthful
  <2> QED
    BY Zenon, <1>1, <2>1, ReceivedStays DEF Truthful, RxQuiet
<1>14. CtlTyped' /\ CtlOrdered'
  BY SMTT(30), <1>1, <1>12, <1>13, CtlRest
<1>15. DataTyped' /\ DataOrdered'
  <2>1. \A x : Sent(x) => Sent(x)'
    BY SMTT(30), <1>7, SentStays
  <2> QED
    BY Zenon, <1>1, <2>1 DEF DataTyped, DataOrdered, RxQuiet
<1> QED
  BY SMTT(30), <1>7, <1>9, <1>11, <1>14, <1>15

(* Acknowledgements and high-water marks that are sent.                     *)
LEMMA CtlAppend ==
  ASSUME LinkInv, NEW m \in CtlMsg, m.seq = Wire(m.pos), Truthful(m),
         \A i \in 1 .. Len(toTx) : toTx[i].type = "ack" => toTx[i].pos <= m.pos,
         toTx' = Append(toTx, m), txBegin' = txBegin, RxQuiet
  PROVE  CtlTyped' /\ CtlOrdered'
<1> USE DEF LinkInv
<1>1. /\ toTx' \in Seq(CtlMsg) /\ Len(toTx') = Len(toTx) + 1 /\ Len(toTx) \in Nat
      /\ toTx'[Len(toTx) + 1] = m
      /\ \A i \in 1 .. Len(toTx) : toTx'[i] = toTx[i]
  BY DEF CtlTyped
<1>2. PICK s, k : s = toTx' /\ k = Len(toTx)
  BY Zenon, ZenonT(30)
<1>3. /\ s \in Seq(CtlMsg) /\ Len(s) = k + 1 /\ k \in Nat /\ s[k + 1] = m
      /\ \A i \in 1 .. k : s[i] = toTx[i]
  BY Zenon, <1>1, <1>2
<1>4. \A i \in 1 .. k + 1 : i = k + 1 \/ i \in 1 .. k
  BY SMTT(30), <1>3
<1>5. ASSUME NEW i \in 1 .. k + 1 PROVE s[i].seq = Wire(s[i].pos) /\ Truthful(s[i])
  BY SMTT(30), <1>2, <1>3, <1>4 DEF CtlTyped, CtlOrdered
<1>6. ASSUME NEW i \in 1 .. k + 1, s[i].type = "ack", NEW j \in i + 1 .. k + 1
      PROVE  s[i].pos <= s[j].pos
  <2>1. i \in 1 .. k /\ s[i] = toTx[i]
    BY SMTT(30), <1>3, <1>6
  <2>2. CASE j = k + 1
    BY SMTT(30), <1>2, <1>3, <1>6, <2>1, <2>2
  <2>3. CASE j # k + 1
    <3>1. j \in i + 1 .. k /\ j \in 1 .. k
      BY SMTT(30), <1>3, <2>3
    <3> QED
      BY SMTT(30), <1>2, <1>3, <1>6, <2>1, <3>1 DEF CtlOrdered
  <2> QED
    BY SMTT(30), <2>2, <2>3
<1>7. CtlTyped'
  BY SMTT(30), <1>2, <1>3, <1>5 DEF CtlTyped
<1>8. CtlOrdered'
  <2> SUFFICES ASSUME NEW i \in 1 .. k + 1
               PROVE  /\ Truthful(toTx[i])'
                      /\ s[i].type = "ack" => \A j \in i + 1 .. k + 1 : s[i].pos <= s[j].pos
    BY SMTT(30), <1>2, <1>3 DEF CtlOrdered
  <2>1. Truthful(toTx[i])'
    <3>1. Truthful(s[i])
      BY Zenon, <1>5
    <3> QED
      BY Zenon, <1>2, <3>1 DEF Truthful, Received, RxQuiet
  <2> QED
    BY SMTT(30), <1>6, <2>1
<1> QED
  BY SMTT(30), <1>7, <1>8

(* The receiver sends an acknowledgement or a high-water mark.              *)
LEMMA SendCtlStep ==
  ASSUME LinkInv, rxCtl \in BOOLEAN, SendAck \/ LoseAck \/ SendHimark
  PROVE  LinkInv'
<1> USE DEF LinkInv
<1>1. RxQuiet /\ UNCHANGED txVars /\ toRx' = toRx
  BY Zenon DEF SendAck, LoseAck, SendHimark, RxAck, RxUpdateRecvHimark, RxQuiet, rxVars, netVars
<1>2. TxInv' /\ LogGrows /\ MarksKept /\ txHimark' = txHimark /\ txBegin' = txBegin
  BY Zenon, <1>1, TxUnchangedStep DEF txVars
<1>3. txHimark' <= rxBegin + RecvCap
  BY Zenon, <1>2 DEF Windows
<1>4. /\ RxInv' /\ RingIsLog' /\ Delivery' /\ Windows' /\ AckedWasReceived'
      /\ DataTyped' /\ DataOrdered'
  BY Zenon, <1>1, <1>2, <1>3, TxQuietStep
<1>5. /\ rxBegin \in Nat /\ rxEnd \in Nat /\ unack \in Nat /\ txBegin \in Nat /\ RecvCap \in Nat
      /\ txBegin <= unack /\ unack <= rxEnd /\ rxEnd <= rxBegin + RecvCap
  BY SMTT(30), Sizes DEF RxInv, RxTyped, RxWindow, Windows, TxInv, TxTyped
<1>6. \A i \in 1 .. Len(toTx) :
        toTx[i].type = "ack" => toTx[i].pos \in Nat /\ toTx[i].pos <= unack
  BY Zenon, CtlInReach
<1>7. CASE LoseAck
  <2>1. toTx' = toTx
    BY Zenon, <1>7 DEF LoseAck, netVars
  <2> QED
    BY Zenon, <1>1, <1>2, <1>3, <1>4, <2>1, TxQuietStep
<1>8. CASE SendAck
  <2>1. PICK S : S = {i \in 1 .. AckBits : /\ unack + 1 \in RxRing /\ unack + i \in RxRing
                                           /\ inBuf[unack + i].type # "unset"}
    BY Zenon
  <2>2. PICK m : m = AckPacket
    BY SMTT(30)
  <2>3. m = [type |-> "ack", pos |-> unack, seq |-> Wire(unack), ctl |-> rxCtl, bits |-> S]
    BY Zenon, <2>1, <2>2 DEF AckPacket
  <2>4. S \in SUBSET Nat /\ \A k \in S : Received(unack + k)
    <3>1. \A k \in S : k \in Nat
      BY <2>1, ReceiverAssumption
    <3>2. \A k \in S : unack + k \in rxBegin .. rxEnd - 1 /\ inBuf[unack + k].type # "unset"
      BY Zenon, <2>1 DEF RxRing
    <3>3. \A k \in S : unack + k < rxEnd
      BY <1>5, <3>1, <3>2
    <3> QED
      BY Zenon, <3>1, <3>2, <3>3 DEF Received
  <2>5. Wire(unack) \in Int
    BY SMTT(30), <1>5, WireInt
  <2>6. /\ m \in CtlMsg /\ m.pos = unack /\ m.seq = Wire(m.pos) /\ m.type = "ack"
        /\ m.bits = S
    BY SMTT(30), <1>5, <2>3, <2>4, <2>5 DEF CtlMsg
  <2>7. Truthful(m)
    <3>1. txBegin <= m.pos /\ m.pos <= unack
      BY <1>5, <2>6
    <3>2. \A k \in m.bits : Received(m.pos + k)
      BY Zenon, <2>4, <2>6
    <3> QED
      BY Zenon, <2>6, <3>1, <3>2 DEF Truthful
  <2>8. toTx' = Append(toTx, m)
    BY SMTT(30), <1>8, <2>2 DEF SendAck
  <2>9. CtlTyped' /\ CtlOrdered'
    BY SMTT(30), <1>1, <1>2, <1>6, <2>6, <2>7, <2>8, CtlAppend
  <2> QED
    BY Zenon, <1>2, <1>4, <2>9
<1>9. CASE SendHimark
  <2>1. PICK p \in Nat : p = rxBegin + RecvCap
    BY <1>5
  <2>2. PICK m : m = [type |-> "himark", pos |-> p, seq |-> Wire(p), ctl |-> rxCtl]
    BY Zenon
  <2>3. Wire(p) \in Int
    BY SMTT(30), <2>1, WireInt
  <2>4. m \in CtlMsg /\ m.pos = p /\ m.seq = Wire(m.pos) /\ m.type = "himark"
    BY SMTT(30), <2>1, <2>2, <2>3 DEF CtlMsg
  <2>5. Truthful(m)
    <3>1. txBegin <= p /\ p <= rxBegin + RecvCap
      BY SMTT(30), <1>5, <2>1
    <3> QED
      BY Zenon, <2>4, <3>1 DEF Truthful
  <2>6. toTx' = Append(toTx, m)
    BY SMTT(30), <1>9, <2>1, <2>2 DEF SendHimark, HimarkPacket
  <2>7. \A i \in 1 .. Len(toTx) : toTx[i].type = "ack" => toTx[i].pos <= m.pos
    BY SMTT(30), <1>5, <1>6, <2>1, <2>4
  <2>8. CtlTyped' /\ CtlOrdered'
    BY Zenon, ZenonT(30), <1>1, <1>2, <2>4, <2>5, <2>6, <2>7, CtlAppend
  <2> QED
    BY Zenon, <1>2, <1>4, <2>8
<1> QED
  BY SMTT(30), <1>7, <1>8, <1>9
-----------------------------------------------------------------------------

(* The reader's calls leave what is under way alone.                        *)
LEMMA RxQuietNet ==
  ASSUME LinkInv, RxInv', RxGrows, UNCHANGED txVars, UNCHANGED netVars, rxEnd' = rxEnd
  PROVE  /\ TxInv' /\ AckedWasReceived' /\ DataTyped' /\ DataOrdered' /\ CtlTyped' /\ CtlOrdered'
         /\ txBegin' <= unack' /\ txHimark' <= rxBegin' + RecvCap
         /\ outBuf' = outBuf /\ N' = N /\ Written' = Written
         /\ txEos' = txEos /\ txState' = txState
<1> USE DEF LinkInv
<1>1. /\ toRx' = toRx /\ toTx' = toTx /\ outBuf' = outBuf /\ N' = N /\ Written' = Written
      /\ txEos' = txEos /\ txState' = txState
  BY Zenon DEF netVars, txVars, N, Written
<1>2. /\ TxInv' /\ AckedWasReceived'
      /\ txBegin' <= unack' /\ txHimark' <= rxBegin' + RecvCap
      /\ \A m \in CtlMsg : Truthful(m) => Truthful(m)'
  BY Zenon, RxFrame
<1>3. DataTyped' /\ DataOrdered'
  BY Zenon, <1>1 DEF DataTyped, DataOrdered, Sent, IsPacket
<1>4. CtlTyped' /\ CtlOrdered'
  <2>1. \A i \in 1 .. Len(toTx) : \E m \in CtlMsg : m = toTx[i] /\ Truthful(m)'
    BY <1>2 DEF CtlTyped, CtlOrdered
  <2>2. \A i \in 1 .. Len(toTx) : Truthful(toTx[i])'
    BY Zenon, ZenonT(30), <1>1, <2>1 DEF Truthful, Received
  <2> QED
    BY Zenon, <1>1, <2>2 DEF CtlTyped, CtlOrdered
<1> QED
  BY Zenon, <1>1, <1>2, <1>3, <1>4

(* The reader closes its end.                                               *)
LEMMA CloseInputStep ==
  ASSUME LinkInv, CloseInput
  PROVE  LinkInv'
<1> USE DEF LinkInv
<1>1. UNCHANGED txVars /\ UNCHANGED netVars /\ MarkInputClosed
  BY Zenon DEF CloseInput
<1>2. /\ RxInv' /\ RxGrows
      /\ UNCHANGED <<rxEnd, unack, rxEos, delivered>>
      /\ selfClosed' /\ rxBegin' = rxEnd
  BY Zenon, <1>1, MarkInputClosedStep
<1>3. /\ TxInv' /\ AckedWasReceived' /\ DataTyped' /\ DataOrdered' /\ CtlTyped' /\ CtlOrdered'
      /\ txBegin' <= unack' /\ txHimark' <= rxBegin' + RecvCap
      /\ outBuf' = outBuf /\ N' = N /\ Written' = Written
      /\ txEos' = txEos /\ txState' = txState
  BY Zenon, <1>1, <1>2, RxQuietNet
<1>4. Windows'
  BY Zenon, <1>2, <1>3 DEF Windows
<1>5. RingIsLog'
  <2>1. rxEnd .. rxEnd - 1 = {}
    BY DEF RxInv, RxTyped
  <2> QED
    BY Zenon, <1>2, <2>1 DEF RingIsLog
<1>6. Delivery'
  BY Zenon, <1>2, <1>3 DEF Delivery
<1> QED
  BY Zenon, <1>2, <1>3, <1>4, <1>5, <1>6

(* The bytes of the packet that is read are the ones that come next.        *)
LEMMA FirstPacket ==
  ASSUME LinkInv, ~selfClosed, rxBegin < rxEnd, Set(rxBegin)
  PROVE  /\ rxBegin \in 1 .. N
         /\ inBuf[rxBegin].lo = outBuf[rxBegin].lo /\ inBuf[rxBegin].n = outBuf[rxBegin].n
         /\ outBuf[rxBegin].fin = (inBuf[rxBegin].type = "fin")
         /\ inBuf[rxBegin].lo \in Nat /\ inBuf[rxBegin].n \in Nat
         /\ Len(delivered) = inBuf[rxBegin].lo + rxPos
         /\ rxPos \in Nat /\ rxPos <= inBuf[rxBegin].n
         /\ inBuf[rxBegin].lo + inBuf[rxBegin].n <= Written
<1> USE DEF LinkInv
<1>1. rxBegin \in Nat /\ rxEnd \in Nat /\ rxBegin \in rxBegin .. rxEnd - 1 /\ rxPos \in Nat
  BY DEF RxInv, RxTyped
<1>2. IsPacket(rxBegin, inBuf[rxBegin].lo, inBuf[rxBegin].n, inBuf[rxBegin].type = "fin")
  BY Zenon, <1>1 DEF RingIsLog
<1>3. inBuf[rxBegin].lo \in Nat /\ inBuf[rxBegin].n \in Nat
  <2>1. inBuf[rxBegin] \in InBuffer
    BY Zenon, <1>1 DEF RxInv, RxTyped
  <2> QED
    BY Zenon, <2>1 DEF InBuffer
<1>4. Lo(rxBegin) = outBuf[rxBegin].lo /\ rxBegin \in 1 .. N
  BY <1>2, LogFacts DEF Lo, IsPacket, TxInv
<1>5. rxPos <= inBuf[rxBegin].n
  BY <1>1, <1>3 DEF Delivery
<1>6. inBuf[rxBegin].lo + inBuf[rxBegin].n <= Written
  BY Zenon, <1>2 DEF IsPacket, TxInv, WithinWritten
<1> QED
  BY Zenon, <1>1, <1>2, <1>3, <1>4, <1>5, <1>6 DEF IsPacket, Delivery

(* The bytes handed on are numbered on from the last.                       *)
LEMMA DeliversNext ==
  ASSUME LinkInv, ~selfClosed, rxBegin < rxEnd, Set(rxBegin), NEW k \in Nat, Deliver(k)
  PROVE  /\ Len(delivered') \in Nat /\ Len(delivered') = inBuf[rxBegin].lo + rxPos + k
         /\ delivered' = [i \in 1 .. Len(delivered') |-> i]
<1> USE DEF LinkInv
<1>1. /\ delivered \in Seq(Nat) /\ rxPos \in Nat /\ inBuf[rxBegin].lo \in Nat
      /\ Len(delivered) = inBuf[rxBegin].lo + rxPos
  BY Zenon, FirstPacket DEF RxInv, RxTyped
<1>2. PICK s : s = delivered'
  BY Zenon
<1>3. /\ s \in Seq(Nat) /\ Len(s) = Len(delivered) + k
      /\ \A i \in 1 .. Len(s) : s[i] = IF i <= Len(delivered) THEN delivered[i]
                                       ELSE inBuf[rxBegin].lo + rxPos + (i - Len(delivered))
  BY Zenon, <1>1, <1>2, DeliverFacts
<1>4. ASSUME NEW i \in 1 .. Len(s) PROVE s[i] = i
  <2>1. CASE i <= Len(delivered)
    <3>1. i \in 1 .. Len(delivered)
      BY <1>1, <2>1
    <3>2. PICK l : l = Len(delivered)
      BY Zenon
    <3>3. delivered = [j \in 1 .. l |-> j]
      BY Zenon, <3>2 DEF Delivery
    <3>4. delivered[i] = i
      BY Zenon, <3>1, <3>2, <3>3
    <3> QED
      BY Zenon, <1>3, <2>1, <3>4
  <2>2. CASE i > Len(delivered)
    <3>1. s[i] = inBuf[rxBegin].lo + rxPos + (i - Len(delivered))
      BY SMTT(30), <1>1, <1>3, <2>2
    <3> QED
      BY <1>1, <3>1
  <2> QED
    BY SMTT(30), <1>1, <2>1, <2>2
<1>5. s = [i \in 1 .. Len(s) |-> i]
  BY <1>3, <1>4
<1>6. Len(s) \in Nat /\ Len(s) = inBuf[rxBegin].lo + rxPos + k
  BY <1>1, <1>3
<1> QED
  BY Zenon, <1>2, <1>5, <1>6

(* The reader reads.                                                        *)
LEMMA ReadStep ==
  ASSUME LinkInv, Read
  PROVE  LinkInv' /\ Len(delivered) <= Len(delivered') /\ ~rxEos
<1> USE DEF LinkInv
<1>1. UNCHANGED txVars /\ UNCHANGED netVars
  BY Zenon DEF Read
<1>2. ASSUME NEW k \in 1 .. Payload, TryReadPart(k)
      PROVE  LinkInv' /\ Len(delivered) <= Len(delivered') /\ ~rxEos
  <2>1. /\ RxInv' /\ RxGrows
        /\ UNCHANGED <<inBuf, rxBegin, rxEnd, unack, selfClosed, rxEos>>
        /\ ~rxEos /\ ~selfClosed /\ rxBegin < rxEnd /\ Set(rxBegin)
        /\ rxPos' = rxPos + k /\ rxPos' < inBuf[rxBegin].n
        /\ Deliver(k) /\ k \in Nat
    BY Zenon, <1>2, TryReadPartStep
  <2>2. /\ TxInv' /\ AckedWasReceived' /\ DataTyped' /\ DataOrdered' /\ CtlTyped' /\ CtlOrdered'
        /\ txBegin' <= unack' /\ txHimark' <= rxBegin' + RecvCap
        /\ outBuf' = outBuf /\ N' = N /\ Written' = Written
        /\ txEos' = txEos /\ txState' = txState
    BY Zenon, <1>1, <2>1, RxQuietNet
  <2>3. Windows' /\ RingIsLog'
    BY Zenon, <2>1, <2>2 DEF Windows, RingIsLog, Set, IsPacket
  <2>4. /\ rxBegin \in 1 .. N /\ inBuf[rxBegin].lo = outBuf[rxBegin].lo
        /\ inBuf[rxBegin].lo \in Nat /\ inBuf[rxBegin].n \in Nat
        /\ Len(delivered) = inBuf[rxBegin].lo + rxPos /\ rxPos \in Nat
        /\ inBuf[rxBegin].lo + inBuf[rxBegin].n <= Written /\ Written \in Nat
    BY Zenon, <2>1, FirstPacket, LogFacts DEF TxInv
  <2>5. /\ Len(delivered') \in Nat /\ Len(delivered') = inBuf[rxBegin].lo + rxPos + k
        /\ delivered' = [i \in 1 .. Len(delivered') |-> i]
    BY Zenon, <2>1, DeliversNext
  <2>6. Delivery'
    <3>1. Len(delivered') <= Written'
      <4>1. rxPos + k < inBuf[rxBegin].n
        BY Zenon, <2>1
      <4>2. Len(delivered') <= Written
        <5>1. PICK lo \in Nat, n \in Nat : lo = inBuf[rxBegin].lo /\ n = inBuf[rxBegin].n
          BY Zenon, <2>4
        <5>2. k \in Nat /\ rxPos \in Nat /\ Written \in Nat
          BY Zenon, <2>1, <2>4
        <5>3. rxPos + k < n /\ lo + n <= Written
          BY Zenon, <2>4, <4>1, <5>1
        <5>4. lo + rxPos + k <= Written
          BY SMTT(30), <5>2, <5>3
        <5> QED
          BY Zenon, <2>5, <5>1, <5>4
      <4> QED
        BY Zenon, <2>2, <4>2
    <3>2. Lo(rxBegin)' = inBuf[rxBegin].lo
      BY SMTT(30), <2>1, <2>2, <2>4, LogFacts DEF Lo, TxInv
    <3>3. Len(delivered') = Lo(rxBegin)' + rxPos'
      BY <2>1, <2>4, <2>5, <3>2, SMTT(30)
    <3> QED
      BY Zenon, <2>1, <2>5, <3>1, <3>3 DEF Delivery, Set
  <2> QED
    BY <2>1, <2>2, <2>3, <2>4, <2>5, <2>6
<1>3. CASE TryReadRest
  <2>1. ~rxEos /\ ~selfClosed /\ rxBegin < rxEnd /\ Set(rxBegin)
    BY Zenon, <1>3 DEF TryReadRest, Readable, Set
  <2>2. /\ rxBegin \in 1 .. N /\ inBuf[rxBegin].lo = outBuf[rxBegin].lo
        /\ inBuf[rxBegin].n = outBuf[rxBegin].n
        /\ outBuf[rxBegin].fin = (inBuf[rxBegin].type = "fin")
        /\ inBuf[rxBegin].lo \in Nat /\ inBuf[rxBegin].n \in Nat
        /\ Len(delivered) = inBuf[rxBegin].lo + rxPos
        /\ rxPos \in Nat /\ rxPos <= inBuf[rxBegin].n
        /\ inBuf[rxBegin].lo + inBuf[rxBegin].n <= Written /\ Written \in Nat /\ N \in Nat
    BY Zenon, <2>1, FirstPacket, LogFacts DEF TxInv
  <2>3. /\ RxInv' /\ RxGrows /\ SlotsKept
        /\ \A p \in rxBegin' .. rxEnd' - 1 : inBuf'[p] = inBuf[p]
        /\ UNCHANGED <<rxEnd, unack, selfClosed>>
        /\ rxPos' = 0 /\ rxBegin' = rxBegin + 1
        /\ rxEos' = (inBuf[rxBegin].type = "fin")
        /\ inBuf[rxBegin].n - rxPos \in Nat /\ Deliver(inBuf[rxBegin].n - rxPos)
    BY Zenon, ZenonT(30), <1>3, <2>2, TryReadRestStep
  <2>4. /\ TxInv' /\ AckedWasReceived' /\ DataTyped' /\ DataOrdered' /\ CtlTyped' /\ CtlOrdered'
        /\ txBegin' <= unack' /\ txHimark' <= rxBegin' + RecvCap
        /\ outBuf' = outBuf /\ N' = N /\ Written' = Written
        /\ txEos' = txEos /\ txState' = txState
    BY Zenon, <1>1, <2>3, RxQuietNet
  <2>5. Windows'
    BY ZenonT(40), <2>3, <2>4 DEF Windows
  <2>6. RingIsLog'
    <3>1. \A p \in rxBegin + 1 .. rxEnd - 1 : p \in rxBegin .. rxEnd - 1 /\ inBuf'[p] = inBuf[p]
      BY <2>3 DEF RxInv, RxTyped
    <3> QED
      BY SMTT(30), <2>3, <2>4, <3>1 DEF RingIsLog, Set, IsPacket
  <2>7. /\ Len(delivered') \in Nat
        /\ Len(delivered') = inBuf[rxBegin].lo + rxPos + (inBuf[rxBegin].n - rxPos)
        /\ delivered' = [i \in 1 .. Len(delivered') |-> i]
    BY Zenon, <2>1, <2>3, DeliversNext
  <2>8. Len(delivered') = inBuf[rxBegin].lo + inBuf[rxBegin].n
    BY <2>2, <2>7, SMTT(30)
  <2>9. Lo(rxBegin)' = inBuf[rxBegin].lo + inBuf[rxBegin].n
    <3>1. Lo(rxBegin)' = IF rxBegin + 1 <= N THEN outBuf[rxBegin + 1].lo ELSE Written
      BY Zenon, <2>3, <2>4 DEF Lo
    <3>2. CASE rxBegin + 1 <= N
      <4>1. rxBegin + 1 \in 1 .. N /\ rxBegin + 1 # 1 /\ (rxBegin + 1) - 1 = rxBegin
        BY <2>2, <3>2
      <4>2. outBuf[rxBegin + 1].lo = outBuf[rxBegin].lo + outBuf[rxBegin].n
        BY Zenon, <4>1 DEF TxInv, LogContiguous
      <4> QED
        BY Zenon, <2>2, <3>1, <3>2, <4>2
    <3>3. CASE ~(rxBegin + 1 <= N)
      <4>1. rxBegin = N /\ N > 0
        BY <2>2, <3>3
      <4>2. Written = outBuf[rxBegin].lo + outBuf[rxBegin].n
        BY Zenon, <4>1, LogFacts DEF TxInv
      <4> QED
        BY Zenon, <2>2, <3>1, <3>3, <4>2
    <3> QED
      BY Zenon, <3>2, <3>3
  <2>10. rxEos' => Len(delivered') = Written /\ (txEos \/ txState = "idle")
    <3> SUFFICES ASSUME rxEos' PROVE Len(delivered') = Written /\ (txEos \/ txState = "idle")
      BY Zenon
    <3>1. outBuf[rxBegin].fin
      BY Zenon, <2>2, <2>3
    <3>2. rxBegin = N /\ N > 0 /\ (txEos \/ txState = "idle")
      BY SMTT(30), <2>2, <3>1 DEF TxInv, FinIsLast
    <3> QED
      BY Zenon, <2>2, <2>8, <3>2, LogFacts DEF TxInv
  <2>11. Delivery'
    <3>1. Len(delivered') <= Written'
      BY ZenonT(40), <2>2, <2>4, <2>8
    <3>2. Len(delivered') = Lo(rxBegin)' + rxPos'
      BY SMTT(30), <2>2, <2>3, <2>8, <2>9
    <3>3. ~(rxPos' > 0)
      BY SMTT(30), <2>3
    <3> QED
      BY SMTT(30), <2>3, <2>4, <2>7, <2>10, <3>1, <3>2, <3>3 DEF Delivery
  <2>12. Len(delivered) <= Len(delivered')
    BY SMTT(30), <2>2, <2>8
  <2> QED
    BY SMTT(30), <2>1, <2>3, <2>4, <2>5, <2>6, <2>11, <2>12
<1> QED
  BY Zenon, <1>2, <1>3 DEF Read

(* A data packet arrives, and is put into the ring or turned away.          *)
LEMMA ReceiveDataStep ==
  ASSUME LinkInv, InOrder, ReceiveData
  PROVE  LinkInv' /\ UNCHANGED <<delivered, rxEos>>
<1> USE DEF LinkInv
<1>1. /\ 1 \in DOMAIN toRx /\ HandleDataPacket(toRx[1]) /\ toRx' = Without(toRx, 1)
      /\ UNCHANGED txVars /\ toTx' = toTx
  BY Zenon, ArrivesFirst DEF ReceiveData
<1>2. PICK m, P, s : m = toRx[1] /\ P = m.pos /\ s = toRx'
  BY Zenon
<1>3. /\ s \in Seq(DataMsg) /\ Len(toRx) \in Nat /\ Len(s) = Len(toRx) - 1 /\ 1 \in 1 .. Len(toRx)
      /\ \A i \in 1 .. Len(s) : i + 1 \in 1 .. Len(toRx) /\ i + 1 > 1 /\ s[i] = toRx[i + 1]
  BY Zenon, <1>1, <1>2, WithoutFirst DEF DataTyped
<1>4. /\ m \in DataMsg /\ P \in Nat /\ P = Position(m) /\ Sent(m)
  BY Zenon, <1>2, <1>3, DataInReach DEF Position, DataTyped
<1>5. m.fin \in BOOLEAN /\ m.lo \in Nat /\ m.n \in Nat
  BY Zenon, <1>4 DEF DataMsg
<1>6. P \in 1 .. N /\ IsPacket(P, m.lo, m.n, m.fin)
  BY Zenon, <1>2, <1>4 DEF Sent, IsPacket
<1>7. /\ outBuf' = outBuf /\ N' = N /\ Written' = Written /\ txEos' = txEos /\ txState' = txState
      /\ N \in Nat
  BY Zenon, <1>1, LogFacts DEF txVars, N, Written, TxInv
<1>8. ASSUME RxInv', RxGrows,
             rxEnd' = rxEnd \/ rxEnd' = P + 1
      PROVE  /\ TxInv' /\ AckedWasReceived' /\ CtlTyped' /\ CtlOrdered'
             /\ txBegin' <= unack' /\ txHimark' <= rxBegin' + RecvCap
             /\ DataTyped' /\ DataOrdered'
  <2>1. /\ TxInv' /\ AckedWasReceived'
        /\ txBegin' <= unack' /\ txHimark' <= rxBegin' + RecvCap
        /\ \A x \in CtlMsg : Truthful(x) => Truthful(x)'
    BY Zenon, <1>1, <1>8, RxFrame
  <2>2. CtlTyped' /\ CtlOrdered'
    <3>1. \A i \in 1 .. Len(toTx) : \E x \in CtlMsg : x = toTx[i] /\ Truthful(x)'
      BY <2>1 DEF CtlTyped, CtlOrdered
    <3>2. \A i \in 1 .. Len(toTx) : Truthful(toTx[i])'
      BY Zenon, ZenonT(30), <1>1, <3>1 DEF Truthful, Received
    <3> QED
      BY SMTT(30), <1>1, <3>2 DEF CtlTyped, CtlOrdered
  <2>3. DataTyped'
    <3>1. \A i \in 1 .. Len(s) : Sent(s[i])
      BY Zenon, <1>3 DEF DataTyped
    <3>2. \A i \in 1 .. Len(s) : Sent(toRx[i])'
      BY Zenon, <1>2, <1>7, <3>1 DEF Sent, IsPacket
    <3> QED
      BY Zenon, <1>2, <1>3, <3>2 DEF DataTyped
  <2>4. DataOrdered'
    <3>1. ASSUME NEW i \in 1 .. Len(s) PROVE rxEnd' <= s[i].pos + SendCap
      <4>1. i + 1 \in 1 .. Len(toRx) /\ 1 < i + 1 /\ s[i] = toRx[i + 1] /\ 1 \in 1 .. Len(toRx)
        BY Zenon, <1>3
      <4>2. rxEnd <= s[i].pos + SendCap /\ P < s[i].pos + SendCap
        BY Zenon, <1>2, <4>1 DEF DataOrdered
      <4>3. s[i].pos \in Nat
        BY Zenon, <4>1, DataInReach
      <4>4. P + 1 <= s[i].pos + SendCap
        BY SMTT(30), <1>4, <4>2, <4>3, Sizes
      <4> QED
        BY Zenon, <1>8, <4>2, <4>4
    <3>2. ASSUME NEW i \in 1 .. Len(s), NEW j \in 1 .. Len(s), i < j
          PROVE  s[i].pos < s[j].pos + SendCap
      <4>1. /\ i + 1 \in 1 .. Len(toRx) /\ j + 1 \in 1 .. Len(toRx) /\ i + 1 < j + 1
            /\ s[i] = toRx[i + 1] /\ s[j] = toRx[j + 1]
        BY <1>3, <3>2
      <4> QED
        BY Zenon, <4>1 DEF DataOrdered
    <3> QED
      BY Zenon, <1>2, <3>1, <3>2 DEF DataOrdered
  <2> QED
    BY Zenon, <2>1, <2>2, <2>3, <2>4
<1>9. CASE RxQuiet
  <2>1. RxInv' /\ RxGrows /\ rxEnd' = rxEnd
    BY SMTT(30), <1>9, RxUnchangedStep DEF RxQuiet
  <2>2. RingIsLog' /\ Delivery'
    BY Zenon, <1>7, <1>9 DEF RxQuiet, RingIsLog, Delivery, Set, IsPacket, Lo
  <2>3. Windows'
    BY Zenon, <1>7, <1>8, <1>9, <2>1 DEF Windows, RxQuiet
  <2> QED
    BY Zenon, <1>8, <1>9, <2>1, <2>2, <2>3 DEF RxQuiet
<1>10. CASE Accept(m)
  <2>1. /\ RxInv' /\ RxGrows /\ SlotsKept
        /\ rxBegin <= P /\ P < rxBegin + RecvCap
        /\ rxEnd' = IF P >= rxEnd THEN P + 1 ELSE rxEnd
        /\ UNCHANGED <<rxPos, selfClosed, rxEos, delivered>>
        /\ ~selfClosed => rxBegin' = rxBegin
    BY SMTT(30), <1>4, <1>5, <1>10, AcceptStep
  <2>2. /\ \A p \in rxBegin' .. rxEnd' - 1 :
             \/ p \in rxBegin .. rxEnd - 1 /\ inBuf'[p] = inBuf[p]
             \/ /\ p = P /\ inBuf'[p].lo = m.lo /\ inBuf'[p].n = m.n
                /\ inBuf'[p].type = "fin" <=> m.fin
             \/ ~Set(p)'
        /\ \A p \in Nat :
             unack <= p /\ p < unack' => p = P \/ (p \in rxBegin .. rxEnd - 1 /\ Set(p))
    BY <1>4, <1>5, <1>10, AcceptStep
  <2>3. /\ rxEnd \in Nat /\ unack \in Nat /\ rxBegin \in Nat /\ rxBegin <= rxEnd /\ rxEnd <= N + 1
        /\ rxEnd' \in Nat /\ unack' \in Nat /\ rxBegin' \in Nat
    BY Zenon, <2>1 DEF RxInv, RxTyped, RxWindow, Windows
  <2>4. /\ TxInv' /\ AckedWasReceived' /\ CtlTyped' /\ CtlOrdered'
        /\ txBegin' <= unack' /\ txHimark' <= rxBegin' + RecvCap
        /\ DataTyped' /\ DataOrdered'
    BY SMTT(30), <1>8, <2>1
  <2>5. RingIsLog'
    <3> SUFFICES ASSUME NEW p \in rxBegin' .. rxEnd' - 1, Set(p)'
                 PROVE  IsPacket(p, inBuf'[p].lo, inBuf'[p].n, inBuf'[p].type = "fin")
      BY Zenon, <1>7 DEF RingIsLog, IsPacket
    <3>1. CASE p \in rxBegin .. rxEnd - 1 /\ inBuf'[p] = inBuf[p]
      BY Zenon, <3>1 DEF RingIsLog, Set
    <3>2. CASE /\ p = P /\ inBuf'[p].lo = m.lo /\ inBuf'[p].n = m.n
               /\ inBuf'[p].type = "fin" <=> m.fin
      <4>1. m.fin = (inBuf'[p].type = "fin")
        BY Zenon, <1>5, <3>2
      <4> QED
        BY Zenon, <1>6, <3>2, <4>1
    <3> QED
      BY SMTT(30), <2>2, <3>1, <3>2
  <2>6. Windows'
    <3>1. rxEnd' <= N + 1
      BY <1>6, <1>7, <2>1, <2>3
    <3>2. PICK U \in Nat : U = unack'
      BY Zenon, <2>3
    <3>3. ASSUME NEW p \in 1 .. U - 1 PROVE outBuf[p].finished
      <4>1. CASE p < unack
        BY <2>3, <4>1 DEF Windows
      <4>2. CASE unack <= p
        <5>1. p \in Nat /\ p < U
          <6>1. U \in Nat
            BY <3>2
          <6> QED
            BY <6>1
        <5>2. p = P \/ (p \in rxBegin .. rxEnd - 1 /\ Set(p))
          BY SMTT(30), <2>2, <3>2, <4>2, <5>1
        <5> QED
          BY Zenon, <1>6, <5>2 DEF RingIsLog, IsPacket
      <4> QED
        BY <2>3, <4>1, <4>2
    <3> QED
      BY Zenon, ZenonT(30), <1>7, <2>4, <3>1, <3>2, <3>3 DEF Windows
  <2>7. Delivery'
    <3>1. Lo(rxBegin)' = Lo(rxBegin) \/ selfClosed
      BY Zenon, <1>7, <2>1 DEF Lo
    <3>2. ASSUME ~selfClosed, rxPos > 0
          PROVE  rxBegin' < rxEnd' /\ inBuf'[rxBegin'] = inBuf[rxBegin] /\ Set(rxBegin)
      <4>1. /\ rxBegin < rxEnd /\ Set(rxBegin) /\ rxBegin \in rxBegin .. rxEnd - 1
            /\ rxBegin' = rxBegin
        BY SMTT(30), <2>1, <2>3, <3>2 DEF Delivery
      <4>2. inBuf'[rxBegin] = inBuf[rxBegin]
        BY <2>3, <4>1, <2>1 DEF SlotsKept
      <4>3. rxEnd <= rxEnd'
        BY Zenon, <2>1 DEF RxGrows
      <4> QED
        BY SMTT(30), <2>3, <4>1, <4>2, <4>3
    <3> QED
      BY Zenon, <1>7, <2>1, <3>1, <3>2 DEF Delivery, Set
  <2> QED
    BY SMTT(30), <2>1, <2>4, <2>5, <2>6, <2>7
<1>11. RxQuiet \/ Accept(m)
  BY Zenon, <1>1, <1>2 DEF HandleDataPacket, RxQuiet, rxVars
<1> QED
  BY Zenon, <1>9, <1>10, <1>11

-----------------------------------------------------------------------------
(* The invariant holds at the start ...                                     *)
LEMMA LinkInit == Init => LinkInv /\ rxCtl \in BOOLEAN
<1> SUFFICES ASSUME Init PROVE LinkInv /\ rxCtl \in BOOLEAN
  BY Zenon
<1>1. /\ TxInit /\ RxInit /\ toRx = <<>> /\ toTx = <<>> /\ outBuf = <<>> /\ N = 0 /\ Written = 0
  BY Zenon DEF Init, TxInit, N, Written
<1>2. TxInv
  <2>1. TxTyped
    <3>1. outBuf \in Seq(OutBuffer)
      BY <1>1
    <3>2. txState \in TxStates
      BY Zenon, <1>1 DEF TxInit, TxStates
    <3>3. txBegin \in Nat /\ txHimark \in Nat /\ txCur \in 0 .. N
      BY <1>1 DEF TxInit
    <3>4. txEos \in BOOLEAN /\ txPendingEof \in BOOLEAN /\ txCtl \in BOOLEAN
      BY Zenon, <1>1 DEF TxInit
    <3> QED
      BY Zenon, <3>1, <3>2, <3>3, <3>4 DEF TxTyped
  <2>2. TxWindow
    BY <1>1, Sizes DEF TxInit, TxWindow
  <2>3. LogContiguous /\ WithinWritten /\ OpenIsLast
    BY <1>1 DEF LogContiguous, WithinWritten, OpenIsLast
  <2>4. FinIsLast /\ WithinHimark
    BY <1>1 DEF TxInit, FinIsLast, WithinHimark
  <2> QED
    BY Zenon, <2>1, <2>2, <2>3, <2>4 DEF TxInv
<1>3. RxInv
  <2>1. RxTyped
    <3>1. inBuf \in [rxBegin .. rxEnd - 1 -> InBuffer]
      BY <1>1 DEF RxInit
    <3>2. delivered \in Seq(Nat)
      BY <1>1 DEF RxInit
    <3> QED
      BY Zenon, <1>1, <3>1, <3>2 DEF RxInit, RxTyped
  <2>2. RxWindow
    BY <1>1, Sizes DEF RxInit, RxWindow
  <2> QED
    BY Zenon, <2>1, <2>2 DEF RxInv
<1>4. DataTyped /\ DataOrdered /\ CtlTyped /\ CtlOrdered
  BY <1>1 DEF DataTyped, DataOrdered, CtlTyped, CtlOrdered
<1>5. Windows /\ RingIsLog /\ AckedWasReceived
  BY <1>1, Sizes DEF RxInit, TxInit, Windows, RingIsLog, AckedWasReceived
<1>6. Delivery
  <2>1. Lo(1) = 0
    BY <1>1 DEF Lo
  <2> QED
    BY <1>1, <2>1 DEF RxInit, Delivery
<1> QED
  BY Zenon, <1>1, <1>2, <1>3, <1>4, <1>5, <1>6 DEF LinkInv, RxInit

(* The flow-control setting of the receiver has its type.                   *)
LEMMA RxCtlStep ==
  ASSUME rxCtl \in BOOLEAN, [Next]_vars
  PROVE  rxCtl' \in BOOLEAN
<1>1. CASE RxConnect
  BY Zenon, <1>1, DataLinkAssumption DEF RxConnect, RxSetConnected
<1>2. CASE ~RxConnect
  <2>1. rxCtl' = rxCtl
    BY Zenon, <1>2 DEF Next, vars, rxVars, TxConnect, Write, WriterFlush, WriterClose, Read,
                TryReadPart, TryReadRest, CloseInput, MarkInputClosed, SendData, LoseData,
                SendAck, LoseAck, RxAck, SendHimark, RxUpdateRecvHimark, ReceiveData,
                HandleDataPacket, Accept, ReceiveAck, ReceiveHimark
  <2> QED
    BY Zenon, <2>1
<1> QED
  BY Zenon, <1>1, <1>2

(* ... and every step keeps it.                                             *)
LEMMA LinkStep ==
  ASSUME InOrder, LinkInv, rxCtl \in BOOLEAN, [Next]_vars
  PROVE  LinkInv'
<1>1. CASE UNCHANGED vars
  <2>1. UNCHANGED txVars /\ UNCHANGED netVars /\ RxQuiet
    BY Zenon, <1>1 DEF vars, rxVars, RxQuiet
  <2>2. TxInv' /\ LogGrows /\ MarksKept /\ txHimark' = txHimark
    BY Zenon, <2>1, TxUnchangedStep DEF LinkInv, txVars
  <2>3. txHimark' <= rxBegin + RecvCap /\ toTx' = toTx /\ toRx' = toRx
    BY Zenon, <2>1, <2>2 DEF LinkInv, Windows, netVars
  <2> QED
    BY Zenon, <2>1, <2>2, <2>3, TxQuietStep DEF LinkInv
<1>2. CASE \/ Write \/ WriterFlush \/ WriterClose \/ TxConnect \/ RxConnect
           \/ \E p \in 1 .. N : LoseData(p)
  BY Zenon, <1>2, WriterStep
<1>3. CASE \E p \in 1 .. N : SendData(p)
  BY Zenon, <1>3, SendDataStep
<1>4. CASE Read
  BY Zenon, <1>4, ReadStep
<1>5. CASE CloseInput
  BY Zenon, <1>5, CloseInputStep
<1>6. CASE SendAck \/ LoseAck \/ SendHimark
  BY Zenon, <1>6, SendCtlStep
<1>7. CASE ReceiveData
  BY Zenon, <1>7, ReceiveDataStep
<1>8. CASE ReceiveAck
  BY Zenon, <1>8, ReceiveAckStep
<1>9. CASE ReceiveHimark
  BY Zenon, <1>9, ReceiveHimarkStep
<1> QED
  BY SMTT(30), <1>1, <1>2, <1>3, <1>4, <1>5, <1>6, <1>7, <1>8, <1>9 DEF Next, N

(* The invariant on which the theorems rest, for a transport that keeps the *)
(* order of packets and may lose any of them.                               *)
THEOREM LinkInvariant ==
  ASSUME InOrder
  PROVE  Spec => [](LinkInv /\ rxCtl \in BOOLEAN)
<1>1. Init => LinkInv /\ rxCtl \in BOOLEAN
  BY Zenon, LinkInit
<1>2. LinkInv /\ rxCtl \in BOOLEAN /\ [Next]_vars => (LinkInv /\ rxCtl \in BOOLEAN)'
  BY Zenon, LinkStep, RxCtlStep
<1> QED
  BY <1>1, <1>2, PTL DEF Spec

(* A packet that has left the sender's ring or that the sender holds for    *)
(* acknowledged has reached the receiver (Transmitter::ack), for every size *)
(* of the rings and every range of wire numbers.                            *)
THEOREM AcknowledgedIsReceived ==
  ASSUME InOrder
  PROVE  Spec => []AckedWasReceived
<1>1. LinkInv => AckedWasReceived
  BY SMTT(30) DEF LinkInv
<1> QED
  BY <1>1, LinkInvariant, PTL

(* Whatever is under way is read as the position it stands for: the rings   *)
(* are small enough for the numbers on the wire (restorePosHighBits).       *)
THEOREM WireNumbersSuffice ==
  ASSUME InOrder
  PROVE  Spec => []WireNumbersExact
<1>1. LinkInv => WireNumbersExact
  <2> SUFFICES ASSUME LinkInv PROVE WireNumbersExact
    BY Zenon
  <2>1. DOMAIN toRx = 1 .. Len(toRx) /\ DOMAIN toTx = 1 .. Len(toTx)
    BY DEF LinkInv, DataTyped, CtlTyped
  <2>2. ASSUME NEW i \in 1 .. Len(toTx)
        PROVE  toTx[i].type = "ack" \/ toTx[i].type = "himark"
    BY SMTT(30) DEF LinkInv, CtlTyped, CtlMsg
  <2> QED
    BY SMTT(30), <2>1, <2>2, DataInReach, CtlInReach DEF WireNumbersExact
<1> QED
  BY <1>1, LinkInvariant, PTL

(* The receiver has a slot for every data packet under way, so that a       *)
(* sender that respects the high-water mark never has a packet refused      *)
(* (Transmitter::tryWrite, Receiver::handleDataPacket).                     *)
THEOREM CreditIsRespected ==
  ASSUME InOrder
  PROVE  Spec => []CreditRespected
<1>1. LinkInv => CreditRespected
  <2> SUFFICES ASSUME LinkInv PROVE CreditRespected
    OBVIOUS
  <2>1. DOMAIN toRx = 1 .. Len(toRx)
    BY DEF LinkInv, DataTyped
  <2> QED
    BY Zenon, <2>1, DataInReach DEF CreditRespected
<1> QED
  BY <1>1, LinkInvariant, PTL

(* The CHECKs of tryWrite and tryRead never fail.                           *)
THEOREM LinkChecksHold ==
  ASSUME InOrder
  PROVE  Spec => []ChecksHold
<1>1. LinkInv => ChecksHold
  <2> SUFFICES ASSUME LinkInv PROVE ChecksHold
    OBVIOUS
  <2> USE DEF LinkInv
  <2>1. N \in Nat /\ txHimark \in Nat /\ rxBegin \in Nat /\ rxEnd \in Nat /\ rxEnd <= N + 1
    BY Zenon, LogFacts DEF TxInv, TxTyped, RxInv, RxTyped, Windows
  <2>2. ASSUME Writable PROVE txHimark >= TxEnd
    <3>1. ~Closed
      BY Zenon, <2>2 DEF Writable, Closed
    <3>2. N < txHimark
      BY Zenon, <3>1, HimarkCoversLog
    <3>3. TxEnd = N + 1
      BY Zenon DEF TxEnd, N
    <3> QED
      BY <2>1, <3>2, <3>3
  <2>3. ASSUME Readable, inBuf[rxBegin].type = "fin" PROVE rxEnd = rxBegin + 1
    <3>1. rxBegin < rxEnd /\ rxBegin \in rxBegin .. rxEnd - 1 /\ Set(rxBegin)
      BY SMTT(30), <2>1, <2>3 DEF Readable, Set
    <3>2. rxBegin \in 1 .. N /\ outBuf[rxBegin].fin = (inBuf[rxBegin].type = "fin")
      BY Zenon, <3>1 DEF RingIsLog, IsPacket
    <3>3. outBuf[rxBegin].fin
      BY Zenon, ZenonT(30), <2>3, <3>2
    <3>4. rxBegin = N
      BY Zenon, <3>2, <3>3 DEF TxInv, FinIsLast
    <3> QED
      BY <2>1, <3>1, <3>4
  <2> QED
    BY SMTT(30), <2>2, <2>3 DEF ChecksHold
<1> QED
  BY <1>1, LinkInvariant, PTL

(* current_out_buffer_ never designates an open packet that has left the    *)
(* ring: tryWrite cannot write into a slot that was given to another packet.*)
THEOREM OpenBufferStaysInRing ==
  ASSUME InOrder
  PROVE  Spec => []OpenBufferInRing
<1>1. LinkInv => OpenBufferInRing
  <2> SUFFICES ASSUME LinkInv, txCur # 0, txCur < txBegin PROVE outBuf[txCur].finished
    BY Zenon DEF OpenBufferInRing
  <2> USE DEF LinkInv
  <2>1. N \in Nat /\ txCur \in 0 .. N /\ txBegin \in Nat /\ unack \in Nat /\ txBegin <= unack
    BY Zenon, LogFacts DEF TxInv, TxTyped, RxInv, RxTyped, Windows
  <2>2. txCur \in 1 .. unack - 1
    BY <2>1
  <2> QED
    BY Zenon, <2>2 DEF Windows
<1> QED
  BY <1>1, LinkInvariant, PTL
-----------------------------------------------------------------------------
(* The refinement: every step is a step of the byte stream, or leaves what  *)
(* the stream shows as it is.                                               *)

(* A step that changes nothing that the stream shows.                       *)
LEMMA StutterStep ==
  ASSUME Written' = Written, Closed' = Closed, UNCHANGED <<delivered, rxEos>>
  PROVE  UNCHANGED Stream!vars
BY Zenon DEF Stream!vars, Closed

(* Whether the writer has closed, from its state.                           *)
LEMMA ClosedKept ==
  ASSUME txState' = txState, txEos' = txEos
  PROVE  Closed' = Closed
BY Zenon DEF Closed

(* tryWrite() is a write to the stream ...                                  *)
LEMMA StreamWrite ==
  ASSUME LinkInv, Write
  PROVE  [Stream!Next]_Stream!vars
<1>1. UNCHANGED <<delivered, rxEos>> /\ Closed' = Closed /\ ~Closed
  <2>1. UNCHANGED <<delivered, rxEos>>
    BY Zenon DEF Write, rxVars
  <2>2. txState' = txState /\ txEos' = txEos /\ Writable
    BY Zenon DEF Write, TryWriteAppend, TryWritePush, TryWriteBlocked
  <2> QED
    BY Zenon, <2>1, <2>2, ClosedKept DEF Writable, Closed
<1>2. Written \in Nat
  BY Zenon, LogFacts DEF LinkInv, TxInv
<1>3. ASSUME NEW k \in 1 .. Payload, Written' = Written + k PROVE Stream!Write
  <2>1. Written' \in Nat /\ Written' > Written
    BY <1>2, <1>3
  <2> QED
    BY Zenon, <1>1, <2>1 DEF Stream!Write, Closed
<1>4. ASSUME NEW k \in 1 .. Payload, TryWriteAppend(k) \/ TryWritePush(k)
      PROVE  Stream!Write
  BY Zenon, <1>3, <1>4, TryWriteAppendStep, TryWritePushStep DEF LinkInv
<1>5. CASE TryWriteBlocked
  BY Zenon, <1>1, <1>5, TryWriteBlockedStep, StutterStep DEF LinkInv
<1> QED
  BY Zenon, <1>4, <1>5 DEF Write, Stream!Next

(* ... close() closes it ...                                                *)
LEMMA StreamClose ==
  ASSUME LinkInv, WriterClose
  PROVE  Stream!Next
<1>1. Written' = Written /\ UNCHANGED <<delivered, rxEos>>
  BY Zenon, CloseStep DEF LinkInv, WriterClose, rxVars
<1>2. txEos' = TRUE
  BY Zenon DEF WriterClose, Close
<1>3. Stream!Close
  BY Zenon, <1>1, <1>2 DEF Stream!Close
<1> QED
  BY Zenon, <1>3 DEF Stream!Next

(* ... the reader reads from it ...                                         *)
LEMMA StreamRead ==
  ASSUME LinkInv, Read
  PROVE  Stream!Next
<1>1. LinkInv' /\ Len(delivered) <= Len(delivered') /\ ~rxEos
  BY Zenon, ReadStep
<1>2. UNCHANGED txVars
  BY Zenon DEF Read
<1>3. Written' = Written /\ txEos' = txEos /\ txState' = txState
  BY Zenon, <1>2 DEF Written, txVars
<1>4. /\ delivered' = [i \in 1 .. Len(delivered') |-> i]
      /\ Len(delivered') <= Written
      /\ rxEos' => Len(delivered') = Written /\ (txEos \/ txState = "idle")
  BY Zenon, <1>1, <1>3 DEF LinkInv, Delivery
<1>5. rxEos' \in BOOLEAN /\ Len(delivered') \in Nat /\ Len(delivered) \in Nat
  BY SMTT(30), <1>1 DEF LinkInv, RxInv, RxTyped
<1>6. Stream!Read
  BY Zenon, <1>1, <1>3, <1>4, <1>5 DEF Stream!Read
<1> QED
  BY Zenon, <1>6 DEF Stream!Next

(* ... and everything else, what the network does among it, is not seen.    *)
LEMMA StreamStutter ==
  ASSUME LinkInv, InOrder,
         \/ UNCHANGED vars \/ RxConnect \/ TxConnect \/ WriterFlush \/ CloseInput
         \/ \E p \in 1 .. N : SendData(p) \/ LoseData(p)
         \/ SendAck \/ LoseAck \/ SendHimark
         \/ ReceiveData \/ ReceiveAck \/ ReceiveHimark
  PROVE  UNCHANGED Stream!vars
<1>1. CASE UNCHANGED txVars
  <2>1. Written' = Written /\ Closed' = Closed
    BY Zenon, <1>1 DEF Written, Closed, txVars
  <2>2. UNCHANGED <<delivered, rxEos>>
    <3>1. CASE UNCHANGED rxVars
      BY Zenon, <3>1 DEF rxVars
    <3>2. CASE RxConnect \/ CloseInput \/ SendAck \/ LoseAck
      BY Zenon, <3>2
      DEF RxConnect, RxSetConnected, CloseInput, MarkInputClosed, SendAck, LoseAck, RxAck
    <3>3. CASE ReceiveData
      BY Zenon, <3>3, ReceiveDataStep
    <3>4. \/ UNCHANGED rxVars \/ RxConnect \/ CloseInput \/ SendAck \/ LoseAck \/ ReceiveData
      BY Zenon DEF vars, TxConnect, WriterFlush, SendData, LoseData, SendHimark,
             RxUpdateRecvHimark, ReceiveAck, ReceiveHimark
    <3> QED
      BY Zenon, <3>1, <3>2, <3>3, <3>4
  <2> QED
    BY SMTT(30), <2>1, <2>2, StutterStep
<1>2. CASE \/ TxConnect \/ WriterFlush \/ ReceiveAck \/ ReceiveHimark
           \/ \E p \in 1 .. N : SendData(p) \/ LoseData(p)
  <2>1. UNCHANGED <<delivered, rxEos>>
    BY Zenon, <1>2 DEF TxConnect, WriterFlush, SendData, LoseData, ReceiveAck, ReceiveHimark, rxVars
  <2>2. Closed' = Closed
    <3>1. ASSUME NEW m, TxAck(m) PROVE Closed' = Closed
      <4>1. CASE txState' = txState /\ txEos' = txEos
        BY Zenon, <4>1, ClosedKept
      <4>2. CASE txEos /\ txState' = "idle"
        BY Zenon, <4>2 DEF Closed
      <4> QED
        BY Zenon, <3>1, <4>1, <4>2 DEF TxAck, TxAckKeep, TxAckEmpty, txVars
    <3>2. CASE ReceiveAck
      BY Zenon, <3>1, <3>2 DEF ReceiveAck
    <3>3. CASE ~ReceiveAck
      <4>1. CASE TxConnect
        <5>1. txEos' = txEos /\ txState # "idle" /\ txState' # "idle"
          BY Zenon, <4>1 DEF TxConnect, TxSetConnected
        <5> QED
          BY Zenon, <5>1 DEF Closed
      <4>2. CASE ~TxConnect
        BY Zenon, <1>2, <3>3, <4>2, ClosedKept
           DEF WriterFlush, Flush, SendData, LoseData, TxSend, ReceiveHimark, TxUpdateRecvHimark
      <4> QED
        BY Zenon, <4>1, <4>2
    <3> QED
      BY Zenon, <3>2, <3>3
  <2>3. Written' = Written
    <3>1. CASE TxConnect
      BY Zenon, <3>1, TxSetConnectedStep, DataLinkAssumption DEF TxConnect, LinkInv
    <3>2. CASE WriterFlush
      BY Zenon, <3>2, FlushStep DEF WriterFlush, LinkInv
    <3>3. CASE ReceiveAck \/ ReceiveHimark
      BY SMTT(30), <3>3, ReceiveAckStep, ReceiveHimarkStep
    <3>4. ASSUME NEW p \in 1 .. N, SendData(p) \/ LoseData(p) PROVE Written' = Written
      BY Zenon, <3>4, TxSendStep DEF SendData, LoseData, LinkInv
    <3> QED
      BY Zenon, <1>2, <3>1, <3>2, <3>3, <3>4
  <2> QED
    BY Zenon, <2>1, <2>2, <2>3, StutterStep
<1>3. \/ UNCHANGED txVars \/ TxConnect \/ WriterFlush \/ ReceiveAck \/ ReceiveHimark
      \/ \E p \in 1 .. N : SendData(p) \/ LoseData(p)
  BY Zenon DEF vars, RxConnect, CloseInput, SendAck, LoseAck, SendHimark, ReceiveData
<1> QED
  BY Zenon, <1>1, <1>2, <1>3

(* One direction of a link is a byte stream: the reader is given the bytes  *)
(* in order, each once, and the end after the last of them, for streams of  *)
(* any length and whatever packets are lost (Receiver::tryRead against      *)
(* Transmitter::tryWrite and close).                                        *)
THEOREM LinkImplementsByteStream ==
  ASSUME InOrder
  PROVE  Spec => ImplementsByteStream
<1>1. Init => Stream!Init
  BY Zenon DEF Init, TxInit, RxInit, Stream!Init, Written
<1>2. LinkInv /\ [Next]_vars => [Stream!Next]_Stream!vars
  <2> SUFFICES ASSUME LinkInv, [Next]_vars PROVE [Stream!Next]_Stream!vars
    BY Zenon
  <2>1. \/ Write \/ WriterClose \/ Read
        \/ UNCHANGED vars \/ RxConnect \/ TxConnect \/ WriterFlush \/ CloseInput
        \/ \E p \in 1 .. N : SendData(p) \/ LoseData(p)
        \/ SendAck \/ LoseAck \/ SendHimark
        \/ ReceiveData \/ ReceiveAck \/ ReceiveHimark
    BY Zenon DEF Next, N
  <2> QED
    BY Zenon, <2>1, StreamWrite, StreamClose, StreamRead, StreamStutter
<1> QED
  BY <1>1, <1>2, LinkInvariant, PTL DEF Spec, ImplementsByteStream, Stream!Spec

=============================================================================
