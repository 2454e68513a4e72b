---------------------------- MODULE EndpointProofs ----------------------------
(***************************************************************************)
(* What each end of a link keeps by itself, whatever arrives: the          *)
(* transmitter's log and its ring (TxInv), the receiver's ring (RxInv),    *)
(* and the numbers on the wire, which stand for the positions they came    *)
(* from as long as these are within half of the range of the ring. For     *)
(* every size of the rings, range of the numbers and size of a packet that *)
(* WireAssumption allows.                                                  *)
(***************************************************************************)
EXTENDS Transmitter, Receiver, TLAPS

N == Len(outBuf)

(* The number of bytes before packet p.                                     *)
Lo(p) == IF p <= N THEN outBuf[p].lo ELSE Written

DataMsg == [type: {"data"}, pos: Nat, seq: Int, ctl: BOOLEAN, lo: Nat, n: Nat, fin: BOOLEAN]

(***************************************************************************)
(* The transmitter by itself.                                              *)
(***************************************************************************)
TxTyped ==
  /\ txState \in TxStates /\ outBuf \in Seq(OutBuffer)
  /\ txBegin \in Nat /\ txHimark \in Nat /\ txCur \in 0 .. N
  /\ txEos \in BOOLEAN /\ txPendingEof \in BOOLEAN /\ txCtl \in BOOLEAN

(* The ring is a window of the log that fits the buffer.                    *)
TxWindow == 1 <= txBegin /\ txBegin <= N + 1 /\ N + 1 <= txBegin + SendCap

(* A packet begins with the byte after the last of the packet before.       *)
LogContiguous ==
  \A p \in 1 .. N :
    outBuf[p].lo = IF p = 1 THEN 0 ELSE outBuf[p - 1].lo + outBuf[p - 1].n

WithinWritten == \A p \in 1 .. N : outBuf[p].lo + outBuf[p].n <= Written

(* The writer only ever changes the last packet.                            *)
OpenIsLast ==
  \A p \in 1 .. N : ~outBuf[p].finished => p = txCur /\ (Writable => p = N)

(* The end-of-stream packet is the last one, and empty.                     *)
FinIsLast ==
  /\ \A p \in 1 .. N :
       outBuf[p].fin => /\ p = N /\ outBuf[p].n = 0 /\ outBuf[p].finished
                        /\ txEos \/ txState = "idle"
                        /\ ~txPendingEof
  /\ txPendingEof => txEos

(* Only the end-of-stream packet is at the mark.                            *)
WithinHimark ==
  /\ 1 <= txHimark
  /\ \A p \in 1 .. N : ~outBuf[p].fin => p < txHimark
  /\ txState = "connecting" =>
       txBegin = 1 /\ txHimark = 1 /\ \A p \in 1 .. N : outBuf[p].fin

TxInv ==
  /\ TxTyped /\ TxWindow /\ LogContiguous /\ WithinWritten
  /\ OpenIsLast /\ FinIsLast /\ WithinHimark

(***************************************************************************)
(* The receiver by itself.                                                 *)
(***************************************************************************)
Set(p) == inBuf[p].type # "unset"

RxTyped ==
  /\ rxBegin \in Nat /\ rxEnd \in Nat /\ rxPos \in Nat /\ unack \in Nat
  /\ inBuf \in [rxBegin .. rxEnd - 1 -> InBuffer]
  /\ selfClosed \in BOOLEAN /\ rxEos \in BOOLEAN
  /\ delivered \in Seq(Nat)

(* Acknowledged is what has arrived without a gap.                          *)
RxWindow ==
  /\ 1 <= rxBegin /\ rxBegin <= rxEnd /\ rxEnd <= rxBegin + RecvCap
  /\ 1 <= unack /\ unack <= rxEnd
  /\ ~selfClosed => rxBegin <= unack /\ (unack < rxEnd => ~Set(unack))

RxInv == RxTyped /\ RxWindow


-----------------------------------------------------------------------------
(* Division with remainder.                                                 *)
LEMMA DivMod ==
  \A a \in Int, m \in Nat \ {0} :
    /\ a % m \in 0 .. m - 1 /\ a \div m \in Int
    /\ a = (m * (a \div m)) + (a % m)
BY SMT

(* A multiple of m that is smaller than m is 0.                             *)
LEMMA SmallMultiple ==
  \A m \in Nat \ {0}, z \in Int : m * z < m /\ m * z > -m => z = 0
<1>1. ASSUME NEW m \in Nat \ {0}, NEW z \in Int, z >= 1 PROVE m * z >= m
  BY <1>1, SMT
<1>2. ASSUME NEW m \in Nat \ {0}, NEW z \in Int, z <= -1 PROVE m * z <= -m
  BY <1>2, SMT
<1> QED
  BY <1>1, <1>2, SMT

(* A multiple of m does not count for the remainder.                        *)
LEMMA Remainder ==
  ASSUME NEW m \in Nat \ {0}, NEW k \in Int, NEW r \in 0 .. m - 1
  PROVE  (r + m * k) % m = r
<1> DEFINE x == r + m * k
           q == x \div m
<1>1. m * k \in Int /\ x \in Int
  OBVIOUS
<1>2. x % m \in 0 .. m - 1 /\ q \in Int /\ x = (m * q) + (x % m)
  BY Zenon, <1>1, DivMod
<1> HIDE DEF q
<1>3. k - q \in Int /\ m * (k - q) = m * k - m * q
  BY <1>2, SMT
<1>4. m * q \in Int /\ m * (k - q) = (x % m) - r
  BY <1>1, <1>2, <1>3
<1>5. k - q = 0
  BY <1>2, <1>3, <1>4, SmallMultiple
<1>6. m * (k - q) = 0
  BY <1>5
<1> QED
  BY <1>2, <1>4, <1>6

(* What \o makes of two sequences.                                          *)
LEMMA Concatenation ==
  ASSUME NEW a \in Seq(Nat), NEW b \in Seq(Nat)
  PROVE  /\ a \o b \in Seq(Nat) /\ Len(a \o b) = Len(a) + Len(b)
         /\ \A i \in 1 .. Len(a \o b) :
              (a \o b)[i] = IF i <= Len(a) THEN a[i] ELSE b[i - Len(a)]
<1>1. a \o b \in Seq(Nat)
  BY SMTT(30)
<1>2. Len(a \o b) = Len(a) + Len(b)
  BY SMTT(30)
<1>3. \A i \in 1 .. Len(a) + Len(b) :
        (a \o b)[i] = IF i <= Len(a) THEN a[i] ELSE b[i - Len(a)]
  BY SMTT(30)
<1> QED
  BY Zenon, <1>1, <1>2, <1>3

(* Numbers on the wire.                                                     *)
LEMMA Sizes ==
  /\ WireMod \in Nat \ {0} /\ Half \in Nat /\ 2 * Half = WireMod /\ Start \in Int
  /\ SendCap \in Nat /\ 1 <= SendCap /\ 2 * SendCap <= Half
  /\ RecvCap \in Nat /\ 1 <= RecvCap /\ 2 * RecvCap <= Half
BY WireAssumption DEF Half

(* A number within Half of the start of a ring is restored.                 *)
LEMMA RestoreExact ==
  ASSUME NEW b \in Int, NEW p \in Int, b - Half <= p, p < b + Half
  PROVE  Restore(b, Wire(p)) = p
<1> DEFINE left == b - Half
           w == (Start + p) % WireMod
           q == (Start + p) \div WireMod
<1>1. left \in Int /\ Start + p \in Int /\ p - left \in 0 .. WireMod - 1
  BY Sizes
<1>2. w \in 0 .. WireMod - 1 /\ q \in Int /\ Start + p = (WireMod * q) + w
  BY Zenon, <1>1, DivMod, Sizes
<1> HIDE DEF left, w, q
<1>3. -q \in Int /\ WireMod * q \in Int /\ WireMod * (-q) = -(WireMod * q)
  BY <1>2, Sizes, SMT
<1>4. w - (Start + left) = (p - left) + WireMod * (-q)
  BY <1>1, <1>2, <1>3, Sizes
<1>5. (w - (Start + left)) % WireMod = p - left
  BY ZenonT(40), <1>1, <1>3, <1>4, Remainder, Sizes
<1>6. Restore(b, Wire(p)) = left + ((w - (Start + left)) % WireMod)
  BY Zenon DEF Restore, Wire, left, w
<1> QED
  BY <1>1, <1>5, <1>6

(* One just out of reach is taken for one of the past.                      *)
LEMMA RestoreAbove ==
  ASSUME NEW b \in Int
  PROVE  Restore(b, Wire(b + Half)) = b - Half
<1> DEFINE p == b - Half
           w == (Start + p) % WireMod
           q == (Start + p) \div WireMod
<1>1. p \in Int /\ Start + p \in Int /\ Half > 0
  BY Sizes
<1>2. w \in 0 .. WireMod - 1 /\ q \in Int /\ Start + p = (WireMod * q) + w
  BY Zenon, <1>1, DivMod, Sizes
<1>3. Start + (b + Half) = (Start + p) + WireMod
  BY Sizes
<1> HIDE DEF p, w, q
<1>4. q + 1 \in Int /\ WireMod * q \in Int /\ WireMod * (q + 1) = WireMod * q + WireMod
  BY <1>2, Sizes, SMT
<1>5. Start + (b + Half) = w + WireMod * (q + 1)
  BY <1>1, <1>2, <1>3, <1>4, Sizes
<1>6. Wire(b + Half) = w
  BY Zenon, <1>2, <1>4, <1>5, Remainder, Sizes DEF Wire
<1>7. Wire(p) = w
  BY Zenon DEF Wire, w
<1>8. p = b - Half
  BY Zenon DEF p
<1>9. Restore(b, Wire(p)) = p
  BY <1>1, <1>8, RestoreExact, Sizes
<1> QED
  BY Zenon, <1>6, <1>7, <1>8, <1>9

(* A number on the wire is a number.                                        *)
LEMMA WireInt == ASSUME NEW p \in Int PROVE Wire(p) \in Int
<1>1. Start + p \in Int
  BY Sizes
<1> QED
  BY <1>1, DivMod, Sizes DEF Wire
-----------------------------------------------------------------------------
(* The transmitter.  Its log only grows, and what is finished stays as it   *)
(* is; nothing but an acknowledgement marks a packet or moves the ring.     *)
Closed == txEos \/ txState = "idle"

LogGrows ==
  /\ N <= N' /\ N' <= N + 1 /\ Written <= Written'
  /\ \A p \in 1 .. N :
       /\ outBuf'[p].lo = outBuf[p].lo
       /\ outBuf[p].finished => /\ outBuf'[p].finished
                                /\ outBuf'[p].n = outBuf[p].n
                                /\ outBuf'[p].fin = outBuf[p].fin
  /\ N' > N => outBuf'[N + 1].lo = Written
  /\ (N > 0 => outBuf[N].finished) /\ N' = N => Written' = Written
  /\ Closed => Closed' /\ Written' = Written

MarksKept ==
  /\ txBegin' = txBegin
  /\ \A p \in 1 .. N' : outBuf'[p].acked => p <= N /\ outBuf[p].acked

(* The log by its length and its packets.                                   *)
LEMMA LogFacts ==
  ASSUME TxTyped
  PROVE  /\ N \in Nat /\ Written \in Nat
         /\ \A p \in 1 .. N : outBuf[p] \in OutBuffer
         /\ N = 0 => Written = 0
         /\ N > 0 => Written = outBuf[N].lo + outBuf[N].n
<1>1. N \in Nat /\ \A p \in 1 .. N : outBuf[p] \in OutBuffer
  BY DEF TxTyped, N
<1>2. CASE N = 0
  BY <1>1, <1>2 DEF TxTyped, N, Written
<1>3. CASE N > 0
  <2>1. N \in 1 .. N /\ outBuf # <<>>
    BY <1>1, <1>3 DEF N
  <2>2. outBuf[N] \in OutBuffer /\ Written = outBuf[N].lo + outBuf[N].n
    BY Zenon, <1>1, <2>1 DEF Written, N
  <2> QED
    BY <1>1, <1>3, <2>2 DEF OutBuffer
<1> QED
  BY <1>1, <1>2, <1>3

(* What a packet that is given more bytes, and a new packet, look like.     *)
LEMMA FilledFacts ==
  ASSUME NEW b \in OutBuffer, NEW k \in Nat, b.n + k <= Payload
  PROVE  /\ Filled(b, k) \in OutBuffer
         /\ Filled(b, k).lo = b.lo /\ Filled(b, k).n = b.n + k
         /\ Filled(b, k).fin = b.fin /\ Filled(b, k).acked = b.acked
         /\ b.finished => Filled(b, k).finished
         /\ ~b.finished => (Filled(b, k).finished <=> b.n + k = Payload)
<1>1. /\ b.n \in 0 .. Payload /\ Payload \in Nat
      /\ b.flushed \in BOOLEAN /\ b.finished \in BOOLEAN
  BY Zenon, TransmitterAssumption DEF OutBuffer
<1>2. PICK fl \in BOOLEAN, fi \in BOOLEAN :
        /\ fl = (b.flushed \/ b.n + k = Payload)
        /\ fi = (b.finished \/ b.n + k = Payload)
  BY Zenon, <1>1
<1>3. Filled(b, k) = [b EXCEPT !.n = b.n + k, !.flushed = fl, !.finished = fi]
  BY Zenon, <1>2 DEF Filled
<1>4. b.n + k \in 0 .. Payload
  BY <1>1
<1>5. /\ Filled(b, k) \in OutBuffer
      /\ Filled(b, k).lo = b.lo /\ Filled(b, k).n = b.n + k
      /\ Filled(b, k).fin = b.fin /\ Filled(b, k).acked = b.acked
      /\ Filled(b, k).finished = fi
  BY Zenon, <1>3, <1>4 DEF OutBuffer
<1> QED
  BY Zenon, <1>2, <1>5

(* The packet that push() begins.                                           *)
LEMMA NewFacts ==
  ASSUME TxTyped, NEW f \in BOOLEAN
  PROVE  /\ NewBuffer(f) \in OutBuffer
         /\ NewBuffer(f).lo = Written /\ NewBuffer(f).n = 0
         /\ NewBuffer(f).fin = f /\ NewBuffer(f).finished = f
         /\ NewBuffer(f).acked = FALSE
<1>1. Written \in Nat /\ txCtl \in BOOLEAN
  BY Zenon, LogFacts DEF TxTyped
<1> QED
  BY <1>1, TransmitterAssumption DEF NewBuffer, OutBuffer

(* tryWrite() puts bytes into the packet it writes.                         *)
LEMMA TryWriteAppendStep ==
  ASSUME TxInv, NEW k \in 1 .. Payload, TryWriteAppend(k)
  PROVE  TxInv' /\ LogGrows /\ MarksKept /\ Written' = Written + k
<1> USE DEF TxInv
<1>1. /\ Writable /\ txCur \in 1 .. N /\ ~outBuf[txCur].finished
      /\ outBuf[txCur].n + k <= Payload
  BY DEF TryWriteAppend, NoOpenBuffer, TxTyped
<1>2. txCur = N /\ N \in Nat /\ N > 0 /\ outBuf[N] \in OutBuffer
  BY <1>1, LogFacts DEF OpenIsLast
<1>3. PICK e : e = Filled(outBuf[N], k)
  BY Zenon
<1>4. /\ e \in OutBuffer /\ e.lo = outBuf[N].lo /\ e.n = outBuf[N].n + k
      /\ e.fin = outBuf[N].fin /\ e.acked = outBuf[N].acked
      /\ e.finished <=> e.n = Payload
  BY <1>1, <1>2, <1>3, FilledFacts
<1>5. outBuf' = [outBuf EXCEPT ![N] = e]
  BY Zenon, <1>2, <1>3 DEF TryWriteAppend
<1>6. /\ outBuf' \in Seq(OutBuffer) /\ N' = N /\ outBuf'[N] = e
      /\ \A p \in 1 .. N : p # N => outBuf'[p] = outBuf[p]
  BY <1>2, <1>4, <1>5 DEF TxTyped, N
<1>7. /\ txCur' = IF e.n = Payload THEN 0 ELSE N
      /\ txState' = txState /\ txBegin' = txBegin /\ txHimark' = txHimark
      /\ txEos' = txEos /\ txPendingEof' = txPendingEof /\ txCtl' = txCtl
  BY Zenon, <1>2, <1>4 DEF TryWriteAppend
<1>8. ~outBuf[N].fin /\ ~e.fin /\ ~Closed
  BY Zenon, <1>1, <1>2, <1>4 DEF FinIsLast, Closed, Writable
<1>9. TxTyped'
  BY <1>2, <1>6, <1>7 DEF TxTyped
<1>10. /\ Written = outBuf[N].lo + outBuf[N].n /\ Written' = e.lo + e.n
       /\ outBuf[N].n \in Nat /\ outBuf[N].lo \in Nat /\ e.n \in Nat /\ e.lo \in Nat
  <2>1. Written' = outBuf'[N'].lo + outBuf'[N'].n
    BY <1>2, <1>6, <1>9 DEF Written, N
  <2> QED
    BY SMTT(30), <1>2, <1>4, <1>6, <2>1, LogFacts DEF OutBuffer
<1>11. TxWindow'
  BY Zenon, <1>6, <1>7 DEF TxWindow
<1>12. LogContiguous'
  <2> SUFFICES ASSUME NEW p \in 1 .. N
               PROVE  outBuf'[p].lo = IF p = 1 THEN 0 ELSE outBuf'[p - 1].lo + outBuf'[p - 1].n
    BY Zenon, <1>6 DEF LogContiguous
  <2>1. outBuf'[p].lo = outBuf[p].lo
    BY Zenon, <1>4, <1>6
  <2>2. p # 1 => outBuf'[p - 1] = outBuf[p - 1]
    BY <1>2, <1>6
  <2> QED
    BY Zenon, <2>1, <2>2 DEF LogContiguous
<1>13. OpenIsLast'
  <2>1. ASSUME NEW p \in 1 .. N, p # N PROVE outBuf'[p].finished
    BY Zenon, <1>2, <1>6, <2>1 DEF OpenIsLast
  <2> QED
    BY Zenon, <1>2, <1>4, <1>6, <1>7, <2>1 DEF OpenIsLast
<1>14. FinIsLast'
  BY Zenon, <1>2, <1>4, <1>6, <1>7, <1>8 DEF FinIsLast
<1>15. WithinHimark'
  BY Zenon, <1>2, <1>4, <1>6, <1>7 DEF WithinHimark
<1>16. LogGrows
  <2>1. Written <= Written' /\ ~outBuf[N].finished
    BY <1>1, <1>2, <1>4, <1>10
  <2> QED
    BY <1>2, <1>4, <1>6, <1>8, <2>1 DEF LogGrows
<1>17. MarksKept
  BY <1>2, <1>4, <1>6, <1>7 DEF MarksKept
<1>18. WithinWritten'
  <2>1. Written <= Written'
    BY <1>4, <1>10
  <2>2. ASSUME NEW p \in 1 .. N PROVE outBuf'[p].lo + outBuf'[p].n <= Written'
    <3>1. CASE p = N
      BY <1>6, <1>10, <3>1
    <3>2. CASE p # N
      <4>1. outBuf[p].lo + outBuf[p].n <= Written /\ outBuf[p].lo + outBuf[p].n \in Nat
        BY LogFacts DEF WithinWritten, OutBuffer
      <4> QED
        BY SMTT(30), <1>6, <1>10, <2>1, <3>2, <4>1
    <3> QED
      BY Zenon, <3>1, <3>2
  <2> QED
    BY Zenon, <1>6, <2>2 DEF WithinWritten
<1>19. Written' = Written + k
  BY <1>4, <1>10
<1> QED
  BY Zenon, <1>9, <1>11, <1>12, <1>13, <1>14, <1>15, <1>16, <1>17, <1>18, <1>19

(* The fields of the log that only the writer changes.                      *)
SameFields(a, b) == a.lo = b.lo /\ a.n = b.n /\ a.fin = b.fin

(* The log with some of its packets sent, flushed or acknowledged.          *)
LEMMA Rewritten ==
  ASSUME TxInv, outBuf' \in Seq(OutBuffer), N' = N,
         \A p \in 1 .. N : /\ SameFields(outBuf'[p], outBuf[p])
                           /\ outBuf[p].finished => outBuf'[p].finished
  PROVE  /\ LogContiguous' /\ WithinWritten' /\ Written' = Written
         /\ (Closed => Closed') => LogGrows
<1> USE DEF TxInv, SameFields
<1>1. LogContiguous'
  <2> SUFFICES ASSUME NEW p \in 1 .. N
               PROVE  outBuf'[p].lo = IF p = 1 THEN 0 ELSE outBuf'[p - 1].lo + outBuf'[p - 1].n
    BY Zenon DEF LogContiguous
  <2>1. p # 1 => p - 1 \in 1 .. N
    BY LogFacts
  <2> QED
    BY Zenon, <2>1 DEF LogContiguous
<1>2. Written' = Written
  <2>1. CASE N = 0
    BY <2>1 DEF Written, N, TxTyped
  <2>2. CASE N > 0
    <3>1. N \in 1 .. N /\ outBuf # <<>> /\ outBuf' # <<>>
      BY <2>2, LogFacts DEF N
    <3> QED
      BY Zenon, <3>1 DEF Written, N
  <2> QED
    BY <2>1, <2>2, LogFacts
<1>3. ASSUME Closed => Closed' PROVE LogGrows
  BY <1>2, <1>3, LogFacts DEF LogGrows
<1>4. WithinWritten'
  BY Zenon, <1>2 DEF WithinWritten
<1> QED
  BY Zenon, <1>1, <1>2, <1>3, <1>4

(* The log with one more packet.                                            *)
LEMMA Appended ==
  ASSUME TxInv, NEW log \in Seq(OutBuffer), Len(log) = N,
         \A p \in 1 .. N : /\ SameFields(log[p], outBuf[p])
                           /\ log[p].finished = outBuf[p].finished,
         NEW e \in OutBuffer, e.lo = Written,
         outBuf' = Append(log, e)
  PROVE  /\ outBuf' \in Seq(OutBuffer) /\ N' = N + 1 /\ outBuf'[N + 1] = e
         /\ \A p \in 1 .. N : outBuf'[p] = log[p]
         /\ LogContiguous' /\ WithinWritten' /\ Written' = Written + e.n
         /\ (Closed => Closed' /\ e.n = 0) => LogGrows
<1> USE DEF TxInv, SameFields
<1>1. N \in Nat /\ Written \in Nat /\ e.n \in Nat
  BY LogFacts DEF OutBuffer
<1>2. /\ outBuf' \in Seq(OutBuffer) /\ N' = N + 1 /\ outBuf'[N + 1] = e
      /\ \A p \in 1 .. N : outBuf'[p] = log[p]
  BY <1>1 DEF N
<1>3. Written' = Written + e.n
  <2>1. outBuf' # <<>>
    BY <1>1, <1>2 DEF N
  <2> QED
    BY Zenon, <1>1, <1>2, <2>1 DEF Written, N
<1>4. LogContiguous'
  <2> SUFFICES ASSUME NEW p \in 1 .. N + 1
               PROVE  outBuf'[p].lo = IF p = 1 THEN 0 ELSE outBuf'[p - 1].lo + outBuf'[p - 1].n
    BY Zenon, <1>2 DEF LogContiguous
  <2>1. CASE p = N + 1
    <3>1. CASE N = 0
      BY <1>2, <2>1, <3>1, LogFacts
    <3>2. CASE N > 0
      <4>1. N \in 1 .. N /\ p - 1 = N /\ p # 1
        BY <1>1, <2>1, <3>2
      <4> QED
        BY <1>2, <2>1, <3>2, <4>1, LogFacts
    <3> QED
      BY <1>1, <3>1, <3>2
  <2>2. CASE p # N + 1
    <3>1. p \in 1 .. N /\ (p # 1 => p - 1 \in 1 .. N)
      BY <1>1, <2>2
    <3>2. /\ outBuf'[p].lo = outBuf[p].lo
          /\ p # 1 => /\ outBuf'[p - 1].lo = outBuf[p - 1].lo
                      /\ outBuf'[p - 1].n = outBuf[p - 1].n
      BY <1>2, <3>1
    <3> QED
      BY Zenon, <3>1, <3>2 DEF LogContiguous
  <2> QED
    BY Zenon, <2>1, <2>2
<1>5. ASSUME Closed => Closed' /\ e.n = 0 PROVE LogGrows
  BY <1>1, <1>2, <1>3, <1>5 DEF LogGrows
<1>6. WithinWritten'
  <2> SUFFICES ASSUME NEW p \in 1 .. N + 1 PROVE outBuf'[p].lo + outBuf'[p].n <= Written'
    BY Zenon, <1>2 DEF WithinWritten
  <2>1. CASE p = N + 1
    BY <1>1, <1>2, <1>3, <2>1
  <2>2. CASE p # N + 1
    <3>1. p \in 1 .. N
      BY <1>1, <2>2
    <3>2. outBuf[p].lo + outBuf[p].n <= Written /\ outBuf[p].lo + outBuf[p].n \in Nat
      <4>1. outBuf[p] \in OutBuffer
        BY Zenon, <3>1, LogFacts
      <4>2. outBuf[p].lo \in Nat /\ outBuf[p].n \in Nat
        BY <4>1, TransmitterAssumption DEF OutBuffer
      <4> QED
        BY SMTT(30), <3>1, <4>2 DEF WithinWritten
    <3> QED
      BY <1>1, <1>2, <1>3, <3>1, <3>2
  <2> QED
    BY Zenon, <2>1, <2>2
<1> QED
  BY Zenon, <1>2, <1>3, <1>4, <1>5, <1>6

(* tryWrite() finishes that packet and begins one.                          *)
LEMMA TryWritePushStep ==
  ASSUME TxInv, NEW k \in 1 .. Payload, TryWritePush(k)
  PROVE  TxInv' /\ LogGrows /\ MarksKept /\ Written' = Written + k
<1> USE DEF TxInv
<1>1. /\ Writable /\ NoOpenBuffer /\ txHimark # N + 1 /\ SendCap - (N + 1 - txBegin) > 0
      /\ N \in Nat /\ Written \in Nat /\ outBuf \in Seq(OutBuffer) /\ N = Len(outBuf)
  BY LogFacts DEF TryWritePush, CanPush, TxEnd, TxSlotsFree, N, TxTyped
<1>2. PICK e : e = Filled(NewBuffer(FALSE), k)
  BY Zenon
<1>3. /\ e \in OutBuffer /\ e.lo = Written /\ e.n = k /\ e.fin = FALSE /\ e.acked = FALSE
      /\ e.finished <=> k = Payload
  <2>1. /\ NewBuffer(FALSE) \in OutBuffer /\ NewBuffer(FALSE).lo = Written
        /\ NewBuffer(FALSE).n = 0 /\ NewBuffer(FALSE).fin = FALSE
        /\ NewBuffer(FALSE).finished = FALSE /\ NewBuffer(FALSE).acked = FALSE
    BY Zenon, NewFacts
  <2>2. k \in Nat /\ k <= Payload /\ 0 + k = k
    BY TransmitterAssumption
  <2> QED
    BY Zenon, <1>2, <2>1, <2>2, FilledFacts
<1>4. outBuf' = Append(outBuf, e)
  BY Zenon, <1>2 DEF TryWritePush
<1>5. /\ txCur' = IF k = Payload THEN 0 ELSE N + 1
      /\ txState' = txState /\ txBegin' = txBegin /\ txHimark' = txHimark
      /\ txEos' = txEos /\ txPendingEof' = txPendingEof /\ txCtl' = txCtl
  BY Zenon DEF TryWritePush, TxEnd, N
<1>6. ~Closed /\ \A p \in 1 .. N : ~outBuf[p].fin /\ outBuf[p].finished
  BY <1>1 DEF FinIsLast, Closed, Writable, NoOpenBuffer, OpenIsLast
<1>7. /\ outBuf' \in Seq(OutBuffer) /\ N' = N + 1 /\ outBuf'[N + 1] = e
      /\ \A p \in 1 .. N : outBuf'[p] = outBuf[p]
      /\ LogContiguous' /\ WithinWritten' /\ LogGrows /\ Written' = Written + k
  BY Zenon, <1>1, <1>3, <1>4, <1>6, Appended DEF SameFields
<1>8. TxTyped'
  BY <1>1, <1>5, <1>7 DEF TxTyped
<1>9. TxWindow'
  BY <1>1, <1>5, <1>7, Sizes DEF TxWindow, TxTyped
<1>10. OpenIsLast'
  <2> SUFFICES ASSUME NEW p \in 1 .. N + 1, ~outBuf'[p].finished
               PROVE  p = txCur' /\ p = N + 1
    BY Zenon, <1>7 DEF OpenIsLast
  <2>1. p \notin 1 .. N
    BY Zenon, <1>6, <1>7
  <2>2. p = N + 1
    BY <1>1, <2>1
  <2>3. ~e.finished
    BY Zenon, <1>7, <2>2
  <2> QED
    BY Zenon, <1>3, <1>5, <2>2, <2>3
<1>11. FinIsLast'
  BY <1>1, <1>3, <1>5, <1>6, <1>7 DEF FinIsLast
<1>12. WithinHimark'
  <2>1. N + 1 < txHimark
    <3>1. N > 0 => N < txHimark
      BY <1>1, <1>6 DEF WithinHimark
    <3> QED
      BY <1>1, <3>1 DEF WithinHimark, TxTyped
  <2>2. txState # "connecting"
    BY <1>1, <2>1 DEF WithinHimark
  <2> QED
    BY <1>1, <1>5, <1>6, <1>7, <2>1, <2>2 DEF WithinHimark, TxTyped
<1>13. MarksKept
  BY <1>1, <1>3, <1>5, <1>7 DEF MarksKept
<1> QED
  BY Zenon, <1>7, <1>8, <1>9, <1>10, <1>11, <1>12, <1>13

(* tryWrite() finds no room.                                                *)
LEMMA TryWriteBlockedStep ==
  ASSUME TxInv, TryWriteBlocked
  PROVE  TxInv' /\ LogGrows /\ MarksKept /\ Written' = Written
<1> USE DEF TxInv
<1>1. /\ txCur' = 0 /\ outBuf' = outBuf /\ N' = N
      /\ txState' = txState /\ txBegin' = txBegin /\ txHimark' = txHimark
      /\ txEos' = txEos /\ txPendingEof' = txPendingEof /\ txCtl' = txCtl
  BY Zenon DEF TryWriteBlocked, N
<1>2. \A p \in 1 .. N : outBuf[p].finished
  BY Zenon DEF TryWriteBlocked, NoOpenBuffer, OpenIsLast
<1>3. TxTyped' /\ TxWindow'
  BY <1>1, LogFacts DEF TxTyped, TxWindow
<1>4. LogContiguous' /\ WithinWritten' /\ LogGrows /\ Written' = Written
  BY Zenon, <1>1, <1>3, Rewritten DEF SameFields, TxTyped, Closed
<1>5. OpenIsLast' /\ FinIsLast' /\ WithinHimark'
  BY Zenon, <1>1, <1>2 DEF OpenIsLast, FinIsLast, WithinHimark
<1>6. MarksKept
  BY <1>1, LogFacts DEF MarksKept
<1> QED
  BY Zenon, <1>3, <1>4, <1>5, <1>6

(* flush() finishes the packet that is written.                             *)
LEMMA FlushedFacts ==
  ASSUME TxTyped
  PROVE  /\ Flushed(outBuf) \in Seq(OutBuffer) /\ Len(Flushed(outBuf)) = N
         /\ \A p \in 1 .. N : /\ SameFields(Flushed(outBuf)[p], outBuf[p])
                              /\ Flushed(outBuf)[p].finished = outBuf[p].finished
                              /\ Flushed(outBuf)[p].acked = outBuf[p].acked
<1>1. CASE txCur = 0
  BY Zenon, <1>1 DEF Flushed, SameFields, TxTyped, N
<1>2. CASE txCur # 0
  <2>1. N \in Nat /\ outBuf \in Seq(OutBuffer) /\ txCur \in 1 .. N /\ N = Len(outBuf)
    BY <1>2, LogFacts DEF TxTyped, N
  <2>2. outBuf[txCur] \in OutBuffer
    BY <2>1
  <2>3. PICK e : e = [outBuf[txCur] EXCEPT !.flushed = TRUE]
    BY Zenon
  <2>4. /\ e \in OutBuffer /\ SameFields(e, outBuf[txCur])
        /\ e.finished = outBuf[txCur].finished /\ e.acked = outBuf[txCur].acked
    BY Zenon, <2>2, <2>3 DEF OutBuffer, SameFields
  <2>5. Flushed(outBuf) = [outBuf EXCEPT ![txCur] = e]
    BY Zenon, <1>2, <2>3 DEF Flushed
  <2>6. /\ Flushed(outBuf) \in Seq(OutBuffer) /\ Len(Flushed(outBuf)) = N
        /\ Flushed(outBuf)[txCur] = e
        /\ \A p \in 1 .. N : p # txCur => Flushed(outBuf)[p] = outBuf[p]
    BY <2>1, <2>4, <2>5
  <2> QED
    BY Zenon, <2>4, <2>6 DEF SameFields
<1> QED
  BY Zenon, <1>1, <1>2

(* A step that leaves the ends of the ring, the writer's state and the      *)
(* fields of the packets alone.                                             *)
LEMMA QuietStep ==
  ASSUME TxInv, outBuf' \in Seq(OutBuffer), N' = N,
         \A p \in 1 .. N : /\ SameFields(outBuf'[p], outBuf[p])
                           /\ outBuf[p].finished => outBuf'[p].finished,
         UNCHANGED <<txState, txBegin, txHimark, txCur, txEos, txPendingEof, txCtl>>
  PROVE  TxInv' /\ LogGrows /\ Written' = Written
<1> USE DEF TxInv
<1>1. N \in Nat /\ \A p \in 1 .. N : outBuf'[p] \in OutBuffer /\ outBuf[p] \in OutBuffer
  BY LogFacts DEF N
<1>2. TxTyped' /\ TxWindow'
  BY Zenon, <1>1 DEF TxTyped, TxWindow
<1>3. LogContiguous' /\ WithinWritten' /\ LogGrows /\ Written' = Written
  BY Zenon, Rewritten DEF Closed
<1>4. OpenIsLast'
  BY Zenon DEF OpenIsLast, Writable
<1>5. FinIsLast'
  BY Zenon DEF FinIsLast, SameFields
<1>6. WithinHimark'
  BY Zenon DEF WithinHimark, SameFields
<1> QED
  BY Zenon, <1>2, <1>3, <1>4, <1>5, <1>6

(* flush().                                                                 *)
LEMMA FlushStep ==
  ASSUME TxInv, Flush
  PROVE  TxInv' /\ LogGrows /\ MarksKept /\ Written' = Written
<1> USE DEF TxInv
<1>1. /\ outBuf' = Flushed(outBuf)
      /\ UNCHANGED <<txState, txBegin, txHimark, txCur, txEos, txPendingEof, txCtl>>
  BY Zenon DEF Flush
<1>2. /\ outBuf' \in Seq(OutBuffer) /\ N' = N
      /\ \A p \in 1 .. N : /\ SameFields(outBuf'[p], outBuf[p])
                           /\ outBuf'[p].finished = outBuf[p].finished
                           /\ outBuf'[p].acked = outBuf[p].acked
  BY Zenon, <1>1, FlushedFacts DEF N
<1>3. TxInv' /\ LogGrows /\ Written' = Written
  BY Zenon, <1>1, <1>2, QuietStep
<1>4. MarksKept
  BY <1>1, <1>2, LogFacts DEF MarksKept
<1> QED
  BY Zenon, <1>3, <1>4

(* close() flushes, and queues the end of the stream or leaves it for       *)
(* later.                                                                   *)
LEMMA CloseStep ==
  ASSUME TxInv, Close
  PROVE  TxInv' /\ LogGrows /\ MarksKept /\ Written' = Written
<1> USE DEF TxInv
<1>1. /\ ~txEos /\ txEos' = TRUE /\ txState \in {"connecting", "connected"}
      /\ txState' = txState /\ txBegin' = txBegin /\ txHimark' = txHimark
      /\ txCur' = txCur /\ txCtl' = txCtl
  BY Zenon DEF Close
<1>2. /\ N \in Nat /\ N = Len(outBuf) /\ ~Closed /\ Closed' /\ ~txPendingEof
      /\ \A p \in 1 .. N : ~outBuf[p].fin
  BY Zenon, <1>1, LogFacts DEF Closed, FinIsLast, N, TxTyped
<1>3. CASE TxSlotsFree = 0
  <2>1. outBuf' = Flushed(outBuf) /\ txPendingEof' = TRUE
    BY Zenon, <1>3 DEF Close
  <2>2. /\ outBuf' \in Seq(OutBuffer) /\ N' = N
        /\ \A p \in 1 .. N : /\ SameFields(outBuf'[p], outBuf[p])
                             /\ outBuf'[p].finished = outBuf[p].finished
                             /\ outBuf'[p].acked = outBuf[p].acked
    BY Zenon, <2>1, FlushedFacts DEF N
  <2>3. LogContiguous' /\ WithinWritten' /\ LogGrows /\ Written' = Written
    BY Zenon, <1>2, <2>2, Rewritten
  <2>4. TxTyped' /\ TxWindow'
    BY Zenon, <1>1, <2>1, <2>2 DEF TxTyped, TxWindow
  <2>5. OpenIsLast' /\ FinIsLast' /\ WithinHimark'
    BY Zenon, <1>1, <1>2, <2>1, <2>2 DEF OpenIsLast, FinIsLast, WithinHimark, SameFields, Writable
  <2>6. MarksKept
    BY <1>1, <1>2, <2>2 DEF MarksKept
  <2> QED
    BY Zenon, <2>3, <2>4, <2>5, <2>6
<1>4. CASE TxSlotsFree # 0
  <2>1. PICK log : log = Flushed(outBuf)
    BY Zenon
  <2>2. PICK e : e = NewBuffer(TRUE)
    BY Zenon
  <2>3. /\ log \in Seq(OutBuffer) /\ Len(log) = N
        /\ \A p \in 1 .. N : /\ SameFields(log[p], outBuf[p])
                             /\ log[p].finished = outBuf[p].finished
                             /\ log[p].acked = outBuf[p].acked
    BY Zenon, <2>1, FlushedFacts
  <2>4. /\ e \in OutBuffer /\ e.lo = Written /\ e.n = 0 /\ e.fin = TRUE /\ e.finished = TRUE
        /\ e.acked = FALSE
    BY Zenon, <2>2, NewFacts
  <2>5. outBuf' = Append(log, e) /\ txPendingEof' = txPendingEof
    BY Zenon, <1>4, <2>1, <2>2 DEF Close
  <2>6. /\ outBuf' \in Seq(OutBuffer) /\ N' = N + 1 /\ outBuf'[N + 1] = e
        /\ \A p \in 1 .. N : outBuf'[p] = log[p]
        /\ LogContiguous' /\ WithinWritten' /\ LogGrows /\ Written' = Written + 0
    BY Zenon, <1>2, <2>3, <2>4, <2>5, Appended
  <2>7. TxTyped'
    BY <1>1, <1>2, <2>5, <2>6 DEF TxTyped
  <2>8. TxWindow'
    BY SMTT(30), <1>1, <1>2, <1>4, <2>6, Sizes DEF TxWindow, TxTyped, TxSlotsFree, TxEnd
  <2>9. OpenIsLast'
    BY <1>1, <1>2, <2>3, <2>4, <2>6 DEF OpenIsLast, Writable
  <2>10. FinIsLast'
    BY <1>1, <1>2, <2>3, <2>4, <2>5, <2>6 DEF FinIsLast, SameFields
  <2>11. WithinHimark'
    BY SMTT(30), <1>1, <1>2, <2>3, <2>4, <2>6 DEF WithinHimark, SameFields
  <2>12. MarksKept
    <3>1. ~outBuf'[N + 1].acked /\ \A p \in 1 .. N : outBuf'[p].acked = outBuf[p].acked
      BY Zenon, <2>3, <2>4, <2>6
    <3>2. \A p \in 1 .. N + 1 : p = N + 1 \/ (p \in 1 .. N /\ p <= N)
      BY <1>2
    <3> QED
      BY Zenon, <1>1, <2>6, <3>1, <3>2 DEF MarksKept
  <2>13. Written' = Written
    BY <2>6, LogFacts
  <2> QED
    BY Zenon, <2>6, <2>7, <2>8, <2>9, <2>10, <2>11, <2>12, <2>13
<1> QED
  BY Zenon, <1>3, <1>4

(* setConnected().                                                          *)
LEMMA TxSetConnectedStep ==
  ASSUME TxInv, NEW c \in BOOLEAN, TxSetConnected(c)
  PROVE  TxInv' /\ LogGrows /\ MarksKept /\ Written' = Written /\ txHimark' = 1 + RecvCap
<1> USE DEF TxInv
<1>1. /\ txState = "connecting" /\ txState' = "connected" /\ txBegin = 1
      /\ txHimark' = 1 + RecvCap /\ txCtl' = c
      /\ outBuf' = outBuf /\ N' = N /\ txBegin' = txBegin /\ txCur' = txCur
      /\ txEos' = txEos /\ txPendingEof' = txPendingEof
  BY Zenon DEF TxSetConnected, WithinHimark, N
<1>2. N \in Nat /\ \A p \in 1 .. N : outBuf[p].fin /\ p = N /\ outBuf[p].finished
  BY Zenon, <1>1, LogFacts DEF WithinHimark, FinIsLast
<1>3. N <= 1
  <2> SUFFICES ASSUME N > 1 PROVE FALSE
    BY <1>2
  <2> QED
    BY <1>2
<1>4. TxTyped' /\ TxWindow'
  BY <1>1, Sizes DEF TxTyped, TxWindow, TxStates
<1>5. LogContiguous' /\ WithinWritten' /\ LogGrows /\ Written' = Written
  BY Zenon, <1>1, <1>4, Rewritten DEF SameFields, TxTyped, Closed
<1>6. OpenIsLast' /\ FinIsLast'
  BY Zenon, <1>1, <1>2 DEF OpenIsLast, FinIsLast
<1>7. WithinHimark'
  BY <1>1, <1>2, <1>3, Sizes DEF WithinHimark
<1>8. MarksKept
  BY <1>1, LogFacts DEF MarksKept
<1> QED
  BY Zenon, <1>1, <1>3, <1>4, <1>5, <1>6, <1>7, <1>8

(* Whatever is chosen to be sent is in the ring; without credit, only the   *)
(* end-of-stream packet is.                                                 *)
LEMMA ToSendInRing ==
  ASSUME TxInv, NEW p \in ToSend
  PROVE  p \in txBegin .. N
<1> USE DEF TxInv
<1>1. N \in Nat /\ txBegin \in Nat /\ TxRing = txBegin .. N
  BY Zenon, LogFacts DEF TxTyped, TxRing, N
<1>2. CASE FastSend
  BY Zenon, <1>1, <1>2 DEF ToSend, FastSend
<1>3. CASE ~FastSend /\ Immediate # {}
  BY Zenon, <1>1, <1>3 DEF ToSend, First, Immediate, Scanned
<1>4. CASE ~FastSend /\ Immediate = {} /\ AutoFlush
  <2>1. N + 1 - txBegin = 1
    BY <1>1, <1>4 DEF AutoFlush, TxEnd, N
  <2>2. p = txBegin
    BY Zenon, <1>4 DEF ToSend
  <2> QED
    BY <1>1, <2>1, <2>2
<1>5. CASE ~FastSend /\ Immediate = {} /\ ~AutoFlush
  BY Zenon, <1>1, <1>5 DEF ToSend, Scanned
<1> QED
  BY Zenon, <1>2, <1>3, <1>4, <1>5

(* send() marks a packet and hands it on.                                   *)
LEMMA TxSendStep ==
  ASSUME TxInv, NEW p \in 1 .. N, TxSend(p)
  PROVE  /\ TxInv' /\ LogGrows /\ MarksKept /\ Written' = Written
         /\ p \in txBegin .. N /\ N' = N
         /\ outBuf'[p].finished /\ SameFields(outBuf'[p], outBuf[p])
         /\ DataPacket(p) \in DataMsg
         /\ DataPacket(p).pos = p /\ DataPacket(p).seq = Wire(p)
         /\ SameFields(DataPacket(p), outBuf[p])
<1> USE DEF TxInv
<1>1. /\ p \in txBegin .. N /\ outBuf[p] \in OutBuffer /\ N \in Nat /\ N = Len(outBuf)
      /\ outBuf \in Seq(OutBuffer)
      /\ UNCHANGED <<txState, txBegin, txHimark, txCur, txEos, txPendingEof, txCtl>>
  BY Zenon, ToSendInRing, LogFacts DEF TxSend, N, TxTyped
<1>2. PICK s \in 0 .. 2 : s = IF outBuf[p].sent < 2 THEN outBuf[p].sent + 1 ELSE outBuf[p].sent
  BY <1>1 DEF OutBuffer
<1>3. PICK e : e = [outBuf[p] EXCEPT !.flushed = TRUE, !.finished = TRUE, !.sent = s,
                                     !.due = FALSE]
  BY Zenon
<1>4. /\ e \in OutBuffer /\ SameFields(e, outBuf[p]) /\ e.finished /\ e.acked = outBuf[p].acked
  BY Zenon, <1>1, <1>3 DEF OutBuffer, SameFields
<1>5. outBuf' = [outBuf EXCEPT ![p] = e]
  BY Zenon, <1>1, <1>2, <1>3 DEF TxSend, OutBuffer
<1>6. /\ outBuf' \in Seq(OutBuffer) /\ N' = N /\ outBuf'[p] = e
      /\ \A q \in 1 .. N : q # p => outBuf'[q] = outBuf[q]
  BY <1>1, <1>4, <1>5 DEF N
<1>7. \A q \in 1 .. N : /\ SameFields(outBuf'[q], outBuf[q])
                        /\ outBuf[q].finished => outBuf'[q].finished
                        /\ outBuf'[q].acked = outBuf[q].acked
  BY Zenon, <1>4, <1>6 DEF SameFields
<1>8. TxInv' /\ LogGrows /\ Written' = Written
  BY Zenon, <1>1, <1>6, <1>7, QuietStep
<1>9. MarksKept
  BY SMTT(30), <1>1, <1>6, <1>7 DEF MarksKept
<1>10. /\ DataPacket(p) \in DataMsg
       /\ DataPacket(p).pos = p /\ DataPacket(p).seq = Wire(p)
       /\ SameFields(DataPacket(p), outBuf[p])
  <2>1. /\ Wire(p) \in Int /\ p \in Nat /\ outBuf[p].ctl \in BOOLEAN /\ outBuf[p].lo \in Nat
        /\ outBuf[p].n \in Nat /\ outBuf[p].fin \in BOOLEAN
    <3>1. p \in Int /\ p \in Nat
      BY <1>1
    <3> QED
      <4>1. Wire(p) \in Int
        BY Zenon, <3>1, WireInt
      <4>2. /\ outBuf[p].ctl \in BOOLEAN /\ outBuf[p].lo \in Nat
            /\ outBuf[p].n \in 0 .. Payload /\ outBuf[p].fin \in BOOLEAN
        BY Zenon, <1>1 DEF OutBuffer
      <4> QED
        BY <3>1, <4>1, <4>2, TransmitterAssumption
  <2> QED
    BY Zenon, <2>1 DEF DataPacket, DataMsg, SameFields
<1> QED
  BY Zenon, <1>1, <1>4, <1>6, <1>8, <1>9, <1>10

(* What an acknowledgement of everything before q marks.                    *)
AckMarks(m, q) ==
  /\ txBegin' \in {txBegin, q}
  /\ \A p \in 1 .. N' : outBuf'[p].acked => \/ p <= N /\ outBuf[p].acked
                                            \/ q <= p /\ p - q \in m.bits

(* ack() drops what is acknowledged, queues an end of stream that waits for *)
(* room, and marks what the bitmap says; packets are left.                  *)
LEMMA TxAckKeepStep ==
  ASSUME TxInv, NEW m, NEW q \in Nat, q = Restore(txBegin, m.seq),
         txBegin <= q, TxAckKeep(m)
  PROVE  TxInv' /\ LogGrows /\ AckMarks(m, q) /\ txHimark' = txHimark /\ Written' = Written
<1> USE DEF TxInv
<1>1. /\ N \in Nat /\ N = Len(outBuf) /\ txBegin \in Nat /\ outBuf \in Seq(OutBuffer)
      /\ \A p \in 1 .. N : outBuf[p] \in OutBuffer
  BY Zenon, LogFacts DEF TxTyped, N
<1>2. AckBegin(m) = q
  BY <1>1 DEF AckBegin
<1>3. PICK log : log = AckLog(m)
  BY Zenon
<1>4. PICK S, R : S = SkipAcked(m) /\ R = Rushed(m)
  BY Zenon
<1>5. /\ txState = "connected" /\ txState' = txState /\ txBegin' = q /\ q <= Len(log)
      /\ txHimark' = txHimark /\ txCur' = txCur /\ txEos' = txEos /\ txCtl' = txCtl
      /\ txPendingEof' \in BOOLEAN /\ (txPendingEof' <=> txPendingEof /\ q = txBegin)
  BY Zenon, <1>2, <1>3 DEF TxAckKeep, AckIgnored
<1>6. outBuf' = [p \in 1 .. Len(log) |->
                   [log[p] EXCEPT !.acked = @ \/ p \in S, !.due = @ \/ p \in R]]
  BY Zenon, <1>3, <1>4 DEF TxAckKeep
<1>7. \A p \in S : q <= p /\ p - q \in m.bits
  BY <1>1, <1>2, <1>3, <1>4 DEF SkipAcked
<1>8. ASSUME log \in Seq(OutBuffer)
      PROVE  /\ outBuf' \in Seq(OutBuffer) /\ N' = Len(log)
             /\ \A p \in 1 .. Len(log) :
                  /\ SameFields(outBuf'[p], log[p]) /\ outBuf'[p].finished = log[p].finished
                  /\ outBuf'[p].acked => log[p].acked \/ p \in S
  <2>1. ASSUME NEW p \in 1 .. Len(log)
        PROVE  /\ outBuf'[p] \in OutBuffer
               /\ SameFields(outBuf'[p], log[p]) /\ outBuf'[p].finished = log[p].finished
               /\ outBuf'[p].acked => log[p].acked \/ p \in S
    <3>1. log[p] \in OutBuffer
      BY <1>8
    <3>2. PICK a \in BOOLEAN, d \in BOOLEAN :
            a = (log[p].acked \/ p \in S) /\ d = (log[p].due \/ p \in R)
      BY Zenon, <3>1 DEF OutBuffer
    <3>3. outBuf'[p] = [log[p] EXCEPT !.acked = a, !.due = d]
      BY Zenon, <1>6, <2>1, <3>2
    <3>4. /\ outBuf'[p] \in OutBuffer /\ outBuf'[p].acked = a
          /\ SameFields(outBuf'[p], log[p]) /\ outBuf'[p].finished = log[p].finished
      BY Zenon, <3>1, <3>3 DEF OutBuffer, SameFields
    <3> QED
      BY Zenon, <3>2, <3>4
  <2>2. Len(log) \in Nat
    BY <1>8
  <2>3. outBuf' \in [1 .. Len(log) -> OutBuffer]
    BY Zenon, <1>6, <2>1
  <2>4. outBuf' \in Seq(OutBuffer) /\ Len(outBuf') = Len(log)
    BY <2>2, <2>3
  <2> QED
    BY Zenon, <2>1, <2>4 DEF N
<1>9. CASE ~(txPendingEof /\ q > txBegin)
  <2>1. log = outBuf
    BY Zenon, <1>2, <1>3, <1>9 DEF AckLog
  <2>2. /\ outBuf' \in Seq(OutBuffer) /\ N' = N
        /\ \A p \in 1 .. N :
             /\ SameFields(outBuf'[p], outBuf[p]) /\ outBuf'[p].finished = outBuf[p].finished
             /\ outBuf'[p].acked => outBuf[p].acked \/ p \in S
    BY Zenon, <1>1, <1>8, <2>1
  <2>3. txPendingEof' = txPendingEof
    BY <1>1, <1>5, <1>9 DEF TxTyped
  <2>4. TxTyped' /\ TxWindow'
    <3>1. txCur' \in 0 .. N' /\ txBegin' \in Nat /\ txBegin <= txBegin'
      BY Zenon, <1>1, <1>5, <2>2 DEF TxTyped
    <3>2. TxTyped'
      BY SMTT(30), <1>5, <2>2, <3>1 DEF TxTyped
    <3> QED
      BY <1>1, <1>5, <2>1, <2>2, <3>1, <3>2, Sizes DEF TxWindow
  <2>5. LogContiguous' /\ WithinWritten' /\ LogGrows /\ Written' = Written
    BY SMTT(30), <1>5, <2>2, Rewritten DEF Closed
  <2>6. OpenIsLast' /\ FinIsLast' /\ WithinHimark'
    BY SMTT(30), <1>5, <2>2, <2>3 DEF OpenIsLast, FinIsLast, WithinHimark, SameFields, Writable
  <2>7. AckMarks(m, q)
    BY <1>1, <1>5, <1>7, <2>2 DEF AckMarks
  <2> QED
    BY Zenon, <1>5, <2>4, <2>5, <2>6, <2>7
<1>10. CASE txPendingEof /\ q > txBegin
  <2>1. PICK e : e = NewBuffer(TRUE)
    BY Zenon
  <2>2. /\ e \in OutBuffer /\ e.lo = Written /\ e.n = 0 /\ e.fin = TRUE /\ e.finished = TRUE
        /\ e.acked = FALSE
    BY Zenon, <2>1, NewFacts
  <2>3. log = Append(outBuf, e)
    BY Zenon, <1>2, <1>3, <1>10, <2>1 DEF AckLog
  <2>4. /\ log \in Seq(OutBuffer) /\ Len(log) = N + 1 /\ log[N + 1] = e
        /\ \A p \in 1 .. N : log[p] = outBuf[p]
    BY <1>1, <2>2, <2>3
  <2>5. /\ outBuf' \in Seq(OutBuffer) /\ N' = N + 1
        /\ \A p \in 1 .. N + 1 :
             /\ SameFields(outBuf'[p], log[p]) /\ outBuf'[p].finished = log[p].finished
             /\ outBuf'[p].acked => log[p].acked \/ p \in S
    BY Zenon, <1>8, <2>4
  <2>6. /\ txEos /\ ~txPendingEof' /\ Closed /\ Closed'
        /\ \A p \in 1 .. N : ~outBuf[p].fin
    BY SMTT(30), <1>1, <1>5, <1>10 DEF FinIsLast, Closed
  <2>7. /\ \A p \in 1 .. N : /\ SameFields(outBuf'[p], outBuf[p])
                             /\ outBuf'[p].finished = outBuf[p].finished
                             /\ outBuf'[p].acked => outBuf[p].acked \/ p \in S
        /\ outBuf'[N + 1].lo = Written /\ outBuf'[N + 1].n = 0 /\ outBuf'[N + 1].fin
        /\ outBuf'[N + 1].finished /\ (outBuf'[N + 1].acked => N + 1 \in S)
    <3>1. \A p \in 1 .. N : p \in 1 .. N + 1
      BY <1>1
    <3>2. N + 1 \in 1 .. N + 1
      BY <1>1
    <3>3. /\ SameFields(outBuf'[N + 1], e) /\ outBuf'[N + 1].finished = e.finished
          /\ outBuf'[N + 1].acked => e.acked \/ N + 1 \in S
      BY Zenon, <2>4, <2>5, <3>2
    <3> QED
      BY <2>2, <2>4, <2>5, <3>1, <3>3 DEF SameFields
  <2>8. TxTyped'
    BY SMTT(30), <1>1, <1>5, <2>5, <2>6 DEF TxTyped
  <2>9. TxWindow'
    BY SMTT(30), <1>1, <1>5, <1>10, <2>4, <2>5, Sizes DEF TxWindow
  <2>10. \A p \in 1 .. N + 1 : p = N + 1 \/ (p \in 1 .. N /\ p <= N)
    BY <1>1
  <2>11. LogContiguous'
    <3> SUFFICES ASSUME NEW p \in 1 .. N + 1
                 PROVE  outBuf'[p].lo = IF p = 1 THEN 0 ELSE outBuf'[p - 1].lo + outBuf'[p - 1].n
      BY Zenon, <2>5 DEF LogContiguous
    <3>1. CASE p = N + 1 /\ N = 0
      BY <2>7, <3>1, LogFacts
    <3>2. CASE p = N + 1 /\ N > 0
      <4>1. N \in 1 .. N /\ p - 1 = N /\ p # 1
        BY <1>1, <3>2
      <4> QED
        BY Zenon, <2>7, <3>2, <4>1, LogFacts DEF SameFields
    <3>3. CASE p # N + 1
      <4>1. p \in 1 .. N /\ (p # 1 => p - 1 \in 1 .. N)
        BY SMTT(30), <1>1, <3>3
      <4> QED
        BY <2>7, <4>1 DEF LogContiguous, SameFields
    <3> QED
      BY <1>1, <3>1, <3>2, <3>3
  <2>12. Written' = Written
    <3>1. outBuf' # <<>> /\ Written \in Nat
      BY SMTT(30), <1>1, <2>5, LogFacts DEF N
    <3> QED
      BY <2>5, <2>7, <3>1 DEF Written, N
  <2>13. LogGrows
    <3>1. \A p \in 1 .. N : /\ outBuf'[p].lo = outBuf[p].lo /\ outBuf'[p].n = outBuf[p].n
                            /\ outBuf'[p].fin = outBuf[p].fin
                            /\ outBuf'[p].finished = outBuf[p].finished
      BY SMTT(30), <2>7 DEF SameFields
    <3>2. /\ N \in Nat /\ N' = N + 1 /\ Written \in Nat /\ Written' = Written /\ Closed'
          /\ outBuf'[N + 1].lo = Written
      BY SMTT(30), <1>1, <2>5, <2>6, <2>7, <2>12, LogFacts
    <3> QED
      BY <3>1, <3>2 DEF LogGrows
  <2>14. OpenIsLast'
    BY SMTT(30), <1>5, <2>5, <2>6, <2>7, <2>10 DEF OpenIsLast, Writable
  <2>15. FinIsLast'
    BY Zenon, <1>5, <2>5, <2>6, <2>7, <2>10 DEF FinIsLast, SameFields
  <2>16. WithinHimark'
    BY Zenon, <1>5, <2>5, <2>6, <2>7, <2>10 DEF WithinHimark, SameFields
  <2>17. AckMarks(m, q)
    BY Zenon, ZenonT(30), <1>5, <1>7, <2>5, <2>7, <2>10 DEF AckMarks
  <2>18. WithinWritten'
    <3>1. Written \in Nat /\ \A p \in 1 .. N : outBuf[p].lo + outBuf[p].n <= Written
      BY Zenon, LogFacts DEF WithinWritten
    <3> QED
      BY <2>5, <2>7, <2>10, <2>12, <3>1 DEF WithinWritten, SameFields
  <2> QED
    BY Zenon, <1>5, <2>8, <2>9, <2>11, <2>12, <2>13, <2>14, <2>15, <2>16, <2>17, <2>18
<1> QED
  BY Zenon, <1>9, <1>10

(* ack() that leaves the ring empty, with the end of the stream             *)
(* acknowledged or not.                                                     *)
LEMMA TxAckEmptyStep ==
  ASSUME TxInv, NEW m, NEW q \in Nat, q = Restore(txBegin, m.seq),
         txBegin <= q, q <= N + 1, \A p \in 1 .. N : p < q => outBuf[p].finished,
         TxAckEmpty(m)
  PROVE  TxInv' /\ LogGrows /\ AckMarks(m, q) /\ txHimark' = txHimark /\ Written' = Written
<1> USE DEF TxInv
<1>1. N \in Nat /\ txBegin \in Nat /\ outBuf \in Seq(OutBuffer) /\ N = Len(outBuf)
  BY Zenon, LogFacts DEF TxTyped, N
<1>2. AckBegin(m) = q
  BY <1>1 DEF AckBegin
<1>3. ~(txPendingEof /\ q > txBegin) /\ q = N + 1
  <2>1. q > Len(AckLog(m))
    BY Zenon, <1>2 DEF TxAckEmpty
  <2>2. CASE txPendingEof /\ q > txBegin
    <3>1. AckLog(m) = Append(outBuf, NewBuffer(TRUE))
      BY Zenon, <1>2, <2>2 DEF AckLog
    <3>2. Len(AckLog(m)) = N + 1
      BY <1>1, <3>1
    <3> QED
      BY <1>1, <2>1, <3>2
  <2>3. CASE ~(txPendingEof /\ q > txBegin)
    BY <1>1, <1>2, <2>1, <2>3 DEF AckLog
  <2> QED
    BY Zenon, <2>2, <2>3
<1>4. /\ txState = "connected" /\ txBegin' = q /\ outBuf' = outBuf /\ N' = N
      /\ txHimark' = txHimark /\ txCtl' = txCtl
      /\ txEos => /\ txState' = "idle" /\ txEos' = FALSE /\ txCur' = 0 /\ txPendingEof' = FALSE
      /\ ~txEos => /\ txState' = txState /\ txEos' = txEos /\ txCur' = txCur
                   /\ txPendingEof' = txPendingEof
  BY Zenon, <1>2 DEF TxAckEmpty, AckIgnored, N
<1>5. \A p \in 1 .. N : outBuf[p].finished
  BY <1>1, <1>3
<1>6. TxTyped'
  <2>1. CASE txEos
    <3>1. txState' \in TxStates /\ txEos' \in BOOLEAN /\ txPendingEof' \in BOOLEAN
      BY Zenon, <1>4, <2>1 DEF TxStates
    <3>2. outBuf' \in Seq(OutBuffer) /\ txBegin' \in Nat /\ txCur' \in 0 .. N'
      BY <1>1, <1>4, <2>1
    <3>3. txHimark' \in Nat /\ txCtl' \in BOOLEAN
      BY Zenon, <1>4 DEF TxTyped
    <3> QED
      BY Zenon, <3>1, <3>2, <3>3 DEF TxTyped
  <2>2. CASE ~txEos
    BY Zenon, <1>1, <1>4, <2>2 DEF TxTyped
  <2> QED
    BY Zenon, <2>1, <2>2
<1>7. TxWindow'
  BY <1>1, <1>3, <1>4, Sizes DEF TxWindow
<1>8. LogContiguous' /\ WithinWritten' /\ LogGrows /\ Written' = Written
  BY Zenon, <1>1, <1>4, Rewritten DEF SameFields, Closed
<1>9. OpenIsLast' /\ WithinHimark'
  BY SMTT(30), <1>4, <1>5 DEF OpenIsLast, WithinHimark
<1>10. FinIsLast'
  BY <1>4 DEF FinIsLast
<1>11. AckMarks(m, q)
  BY <1>1, <1>4 DEF AckMarks
<1> QED
  BY Zenon, <1>4, <1>6, <1>7, <1>8, <1>9, <1>10, <1>11

(* A call that returns early.                                               *)
LEMMA TxUnchangedStep ==
  ASSUME TxInv, UNCHANGED txVars
  PROVE  TxInv' /\ LogGrows /\ MarksKept /\ Written' = Written
<1>1. /\ outBuf' = outBuf /\ N' = N /\ txBegin' = txBegin
      /\ UNCHANGED <<txState, txBegin, txHimark, txCur, txEos, txPendingEof, txCtl>>
      /\ TxTyped
  BY Zenon DEF txVars, N, TxInv
<1>2. TxInv' /\ LogGrows /\ Written' = Written
  BY Zenon, <1>1, QuietStep DEF SameFields, TxTyped
<1>3. MarksKept
  BY <1>1, LogFacts DEF MarksKept
<1> QED
  BY Zenon, <1>2, <1>3

(* ack().                                                                   *)
LEMMA TxAckStep ==
  ASSUME TxInv, NEW m, NEW q \in Nat, q = Restore(txBegin, m.seq),
         txBegin <= q, q <= N + 1, \A p \in 1 .. N : p < q => outBuf[p].finished,
         TxAck(m)
  PROVE  TxInv' /\ LogGrows /\ AckMarks(m, q) /\ txHimark' = txHimark /\ Written' = Written
<1>1. CASE UNCHANGED txVars
  <2>1. TxInv' /\ LogGrows /\ MarksKept /\ txHimark' = txHimark /\ Written' = Written
    BY Zenon, <1>1, TxUnchangedStep DEF txVars
  <2> QED
    BY Zenon, <2>1 DEF MarksKept, AckMarks
<1>2. CASE TxAckKeep(m)
  BY Zenon, <1>2, TxAckKeepStep
<1>3. CASE TxAckEmpty(m)
  BY Zenon, <1>3, TxAckEmptyStep
<1> QED
  BY Zenon, <1>1, <1>2, <1>3 DEF TxAck

(* updateRecvHimark().                                                      *)
LEMMA TxUpdateRecvHimarkStep ==
  ASSUME TxInv, NEW m, Restore(txBegin, m.seq) \in Int, TxUpdateRecvHimark(m)
  PROVE  /\ TxInv' /\ LogGrows /\ MarksKept /\ Written' = Written
         /\ \/ txHimark' = txHimark
            \/ txHimark' = Restore(txBegin, m.seq) /\ txHimark' >= txHimark
<1> USE DEF TxInv
<1>1. /\ outBuf' = outBuf /\ N' = N /\ txState' = txState /\ txBegin' = txBegin
      /\ txCur' = txCur /\ txEos' = txEos /\ txPendingEof' = txPendingEof /\ txCtl' = txCtl
  BY Zenon DEF TxUpdateRecvHimark, N
<1>2. \/ txHimark' = txHimark
      \/ /\ txState = "connected" /\ txHimark' = Restore(txBegin, m.seq)
         /\ txHimark' >= txHimark
  BY Zenon DEF TxUpdateRecvHimark, HimarkAccepted
<1>3. txHimark \in Nat /\ txHimark' \in Nat /\ txHimark' >= txHimark
  BY <1>2 DEF TxTyped
<1>4. TxTyped' /\ TxWindow'
  BY Zenon, <1>1, <1>3 DEF TxTyped, TxWindow
<1>5. LogContiguous' /\ WithinWritten' /\ LogGrows /\ Written' = Written
  BY SMTT(30), <1>1, <1>4, Rewritten DEF SameFields, TxTyped, Closed
<1>6. OpenIsLast' /\ FinIsLast'
  BY SMTT(30), <1>1 DEF OpenIsLast, FinIsLast, Writable
<1>7. WithinHimark'
  BY <1>1, <1>2, <1>3, LogFacts DEF WithinHimark
<1>8. MarksKept
  BY <1>1, LogFacts DEF MarksKept
<1> QED
  BY Zenon, <1>2, <1>4, <1>5, <1>6, <1>7, <1>8

-----------------------------------------------------------------------------
(* The receiver.  What has been received stays received.                    *)
RxGrows ==
  /\ rxBegin <= rxBegin' /\ rxEnd <= rxEnd' /\ unack <= unack'
  /\ \A p \in Nat : Received(p) => Received(p)'

(* A packet of the ring stays in its slot until the ring moves past it.     *)
SlotsKept ==
  \A p \in rxBegin .. rxEnd - 1 : Set(p) /\ rxBegin' <= p => inBuf'[p] = inBuf[p]

(* A step of others.                                                        *)
LEMMA RxUnchangedStep ==
  ASSUME RxInv, UNCHANGED <<inBuf, rxBegin, rxEnd, rxPos, unack, selfClosed, rxEos, delivered>>
  PROVE  RxInv' /\ RxGrows
BY DEF RxInv, RxTyped, RxWindow, RxGrows, Received, Set

(* What tryRead gives the reader.                                           *)
LEMMA DeliverFacts ==
  ASSUME delivered \in Seq(Nat), NEW k \in Nat, rxPos \in Nat, inBuf[rxBegin].lo \in Nat,
         Deliver(k)
  PROVE  /\ delivered' \in Seq(Nat) /\ Len(delivered') = Len(delivered) + k
         /\ \A i \in 1 .. Len(delivered') :
              delivered'[i] = IF i <= Len(delivered) THEN delivered[i]
                              ELSE inBuf[rxBegin].lo + rxPos + (i - Len(delivered))
<1>1. PICK b \in Nat : b = inBuf[rxBegin].lo + rxPos
  OBVIOUS
<1>2. PICK s : s = [i \in 1 .. k |-> b + i]
  BY Zenon
<1>3. s \in Seq(Nat) /\ Len(s) = k /\ \A i \in 1 .. k : s[i] = b + i
  BY <1>2
<1>4. delivered' = delivered \o s
  BY Zenon, <1>1, <1>2 DEF Deliver
<1>5. /\ delivered' \in Seq(Nat) /\ Len(delivered') = Len(delivered) + k
      /\ \A i \in 1 .. Len(delivered') :
           delivered'[i] = IF i <= Len(delivered) THEN delivered[i] ELSE s[i - Len(delivered)]
  BY Zenon, <1>3, <1>4, Concatenation
<1>6. ASSUME NEW i \in 1 .. Len(delivered'), i > Len(delivered)
      PROVE  s[i - Len(delivered)] = b + (i - Len(delivered))
  <2>1. i - Len(delivered) \in 1 .. k
    BY <1>5, <1>6
  <2> QED
    BY Zenon, <1>3, <2>1
<1>7. ASSUME NEW i \in 1 .. Len(delivered')
      PROVE  delivered'[i] = IF i <= Len(delivered) THEN delivered[i]
                             ELSE inBuf[rxBegin].lo + rxPos + (i - Len(delivered))
  <2>1. i \in Int /\ Len(delivered) \in Nat
    BY <1>5
  <2>2. CASE i <= Len(delivered)
    BY Zenon, <1>5, <2>2
  <2>3. CASE i > Len(delivered)
    BY Zenon, ZenonT(30), <1>1, <1>5, <1>6, <2>1, <2>3
  <2> QED
    BY <2>1, <2>2, <2>3
<1> QED
  BY Zenon, <1>5, <1>7

(* tryRead() takes a part of the first packet.                              *)
LEMMA TryReadPartStep ==
  ASSUME RxInv, NEW k \in 1 .. Payload, TryReadPart(k)
  PROVE  /\ RxInv' /\ RxGrows
         /\ UNCHANGED <<inBuf, rxBegin, rxEnd, unack, selfClosed, rxEos>>
         /\ ~rxEos /\ ~selfClosed /\ rxBegin < rxEnd /\ Set(rxBegin)
         /\ rxPos' = rxPos + k /\ rxPos' < inBuf[rxBegin].n
         /\ Deliver(k) /\ k \in Nat
<1> USE DEF RxInv
<1>1. /\ UNCHANGED <<inBuf, rxBegin, rxEnd, unack, selfClosed, rxEos>>
      /\ ~rxEos /\ ~selfClosed /\ rxBegin < rxEnd /\ Set(rxBegin)
      /\ rxPos' = rxPos + k /\ rxPos' < inBuf[rxBegin].n /\ Deliver(k)
  BY Zenon DEF TryReadPart, Readable, Set
<1>2. k \in Nat /\ rxBegin \in rxBegin .. rxEnd - 1
  BY <1>1, TransmitterAssumption DEF RxTyped
<1>3. inBuf[rxBegin].lo \in Nat
  BY Zenon, <1>2 DEF RxTyped, InBuffer
<1>4. delivered' \in Seq(Nat)
  BY Zenon, <1>1, <1>2, <1>3, DeliverFacts DEF RxTyped
<1>5. RxTyped'
  BY <1>1, <1>2, <1>4 DEF RxTyped
<1>6. RxWindow' /\ RxGrows
  BY <1>1 DEF RxTyped, RxWindow, RxGrows, Received, Set
<1> QED
  BY Zenon, <1>1, <1>2, <1>5, <1>6

(* tryRead() takes the rest of it, and moves on.                            *)
LEMMA TryReadRestStep ==
  ASSUME RxInv, rxPos <= inBuf[rxBegin].n, TryReadRest
  PROVE  /\ RxInv' /\ RxGrows /\ SlotsKept
         /\ \A p \in rxBegin' .. rxEnd' - 1 : inBuf'[p] = inBuf[p]
         /\ UNCHANGED <<rxEnd, unack, selfClosed>>
         /\ ~rxEos /\ ~selfClosed /\ rxBegin < rxEnd /\ Set(rxBegin)
         /\ rxPos' = 0 /\ rxBegin' = rxBegin + 1
         /\ rxEos' = (inBuf[rxBegin].type = "fin")
         /\ inBuf[rxBegin].n - rxPos \in Nat /\ Deliver(inBuf[rxBegin].n - rxPos)
<1> USE DEF RxInv
<1>1. /\ UNCHANGED <<rxEnd, unack, selfClosed>>
      /\ ~rxEos /\ ~selfClosed /\ rxBegin < rxEnd /\ Set(rxBegin)
      /\ rxPos' = 0 /\ rxBegin' = rxBegin + 1
      /\ rxEos' = (inBuf[rxBegin].type = "fin")
      /\ Deliver(inBuf[rxBegin].n - rxPos)
  BY Zenon DEF TryReadRest, Readable, Set
<1>2. inBuf' = [p \in rxBegin + 1 .. rxEnd - 1 |-> inBuf[p]]
  BY Zenon DEF TryReadRest
<1>3. /\ rxBegin \in Nat /\ rxEnd \in Nat /\ unack \in Nat
      /\ rxBegin \in rxBegin .. rxEnd - 1
  BY <1>1 DEF RxTyped
<1>4. inBuf[rxBegin].lo \in Nat /\ inBuf[rxBegin].n - rxPos \in Nat
  <2>1. inBuf[rxBegin] \in InBuffer
    BY Zenon, <1>3 DEF RxTyped
  <2> QED
    BY <2>1 DEF InBuffer, RxTyped
<1>5. delivered' \in Seq(Nat)
  BY Zenon, <1>1, <1>4, DeliverFacts DEF RxTyped
<1>6. \A p \in rxBegin + 1 .. rxEnd - 1 : p \in rxBegin .. rxEnd - 1 /\ inBuf'[p] = inBuf[p]
  BY <1>2, <1>3
<1>7. inBuf' \in [rxBegin + 1 .. rxEnd - 1 -> InBuffer]
  BY Zenon, <1>2, <1>6 DEF RxTyped
<1>8. RxTyped'
  <2>1. rxEos' \in BOOLEAN /\ selfClosed' \in BOOLEAN
    BY SMTT(30), <1>1 DEF RxTyped
  <2>2. inBuf' \in [rxBegin' .. rxEnd' - 1 -> InBuffer]
    BY Zenon, <1>1, <1>7
  <2> QED
    BY <1>1, <1>3, <1>5, <2>1, <2>2 DEF RxTyped
<1>9. rxBegin + 1 <= unack
  BY SMTT(30), <1>1, <1>3 DEF RxWindow
<1>10. RxWindow'
  <2>1. unack < rxEnd => ~Set(unack)'
    BY SMTT(30), <1>1, <1>3, <1>6, <1>9 DEF RxWindow, Set
  <2> QED
    BY SMTT(30), <1>1, <1>3, <1>9, <2>1, Sizes DEF RxWindow
<1>11. RxGrows
  BY SMTT(30), <1>1, <1>3, <1>6 DEF RxGrows, Received
<1>12. SlotsKept /\ \A p \in rxBegin' .. rxEnd' - 1 : inBuf'[p] = inBuf[p]
  BY <1>1, <1>3, <1>6 DEF SlotsKept
<1> QED
  BY SMTT(30), <1>1, <1>4, <1>8, <1>10, <1>11, <1>12

(* markInputClosed().                                                       *)
LEMMA MarkInputClosedStep ==
  ASSUME RxInv, MarkInputClosed
  PROVE  /\ RxInv' /\ RxGrows
         /\ UNCHANGED <<rxEnd, unack, rxEos, delivered>>
         /\ selfClosed' /\ rxBegin' = rxEnd
<1> USE DEF RxInv
<1>1. /\ UNCHANGED <<rxEnd, unack, rxPos, rxEos, delivered>>
      /\ selfClosed' = TRUE /\ rxBegin' = rxEnd
      /\ inBuf' = [p \in rxEnd .. rxEnd - 1 |-> Unset]
  BY Zenon DEF MarkInputClosed
<1>2. inBuf' \in [rxBegin' .. rxEnd' - 1 -> InBuffer]
  BY Zenon, <1>1 DEF RxTyped, Unset, InBuffer
<1>3. RxTyped' /\ RxWindow'
  BY <1>1, <1>2, Sizes DEF RxTyped, RxWindow
<1>4. RxGrows
  BY <1>1 DEF RxTyped, RxWindow, RxGrows, Received
<1> QED
  BY Zenon, <1>1, <1>3, <1>4

(* A packet that fits: it goes to its slot unless that is taken, and what   *)
(* is acknowledged grows by what has arrived without a gap.                 *)
LEMMA AcceptStep ==
  ASSUME RxInv, NEW m, NEW P \in Int, P = Position(m),
         m.fin \in BOOLEAN, m.lo \in Nat, m.n \in Nat, Accept(m)
  PROVE  /\ RxInv' /\ RxGrows /\ SlotsKept
         /\ rxBegin <= P /\ P < rxBegin + RecvCap
         /\ rxEnd' = IF P >= rxEnd THEN P + 1 ELSE rxEnd
         /\ UNCHANGED <<rxPos, selfClosed, rxEos, delivered>>
         /\ ~selfClosed => rxBegin' = rxBegin
         /\ \A p \in rxBegin' .. rxEnd' - 1 :
              \/ p \in rxBegin .. rxEnd - 1 /\ inBuf'[p] = inBuf[p]
              \/ /\ p = P /\ inBuf'[p].lo = m.lo /\ inBuf'[p].n = m.n
                 /\ inBuf'[p].type = "fin" <=> m.fin
              \/ ~Set(p)'
         /\ \A p \in Nat : unack <= p /\ p < unack' =>
              p = P \/ (p \in rxBegin .. rxEnd - 1 /\ Set(p))
<1> USE DEF RxInv
<1>1. /\ rxBegin \in Nat /\ rxEnd \in Nat /\ unack \in Nat /\ rxBegin <= rxEnd
      /\ RecvCap \in Nat
      /\ \A p \in rxBegin .. rxEnd - 1 : inBuf[p] \in InBuffer
  BY Zenon, Sizes DEF RxTyped, RxWindow
<1>2. PICK E : E = EndWith(m)
  BY Zenon
<1>3. PICK R : R = RingWith(m)
  OBVIOUS
<1>4. PICK c : c = [type |-> IF m.fin THEN "fin" ELSE "data", lo |-> m.lo, n |-> m.n]
  BY Zenon, ZenonT(30)
<1>5. /\ c \in InBuffer /\ c.lo = m.lo /\ c.n = m.n /\ (c.type = "fin" <=> m.fin)
      /\ c.type # "unset"
  BY Zenon, <1>4 DEF InBuffer
<1>6. /\ rxBegin <= P /\ P < rxBegin + RecvCap
      /\ E = IF P >= rxEnd THEN P + 1 ELSE rxEnd
      /\ E \in Nat /\ rxEnd <= E /\ P < E /\ E <= rxBegin + RecvCap
  <2>1. ~(P < rxBegin) /\ ~(P >= rxEnd /\ P - rxEnd + 1 > RecvCap - (rxEnd - rxBegin))
    BY Zenon DEF Accept, Retransmit, Unexpected
  <2>2. E = IF P >= rxEnd THEN P + 1 ELSE rxEnd
    BY Zenon, <1>2 DEF EndWith
  <2>3. rxEnd <= rxBegin + RecvCap
    BY Zenon DEF RxWindow
  <2> QED
    BY SMTT(30), <1>1, <2>1, <2>2, <2>3
<1>7. \A p \in rxBegin .. E - 1 :
        R[p] = IF p < rxEnd /\ (p # P \/ inBuf[p].type # "unset") THEN inBuf[p]
               ELSE IF p = P THEN c ELSE Unset
  BY Zenon, ZenonT(30), <1>2, <1>3, <1>4 DEF RingWith
<1>8. \A p \in rxBegin .. E - 1 : R[p] \in InBuffer
  BY SMTT(30), <1>1, <1>5, <1>6, <1>7 DEF Unset, InBuffer
<1>9. \A p \in rxBegin .. E - 1 :
        \/ p \in rxBegin .. rxEnd - 1 /\ R[p] = inBuf[p]
        \/ p = P /\ R[p] = c
        \/ R[p].type = "unset"
  BY SMTT(30), <1>1, <1>6, <1>7 DEF Unset
<1>10. \A p \in rxBegin .. rxEnd - 1 : p \in rxBegin .. E - 1 /\ (Set(p) => R[p] = inBuf[p])
  BY SMTT(30), <1>1, <1>6, <1>7 DEF Set
<1>11. /\ rxEnd' = E /\ UNCHANGED <<rxPos, selfClosed, rxEos, delivered>>
       /\ rxBegin' = IF selfClosed /\ P = unack THEN unack' ELSE rxBegin
       /\ unack' \in NextUnack(m)
  BY Zenon, <1>2 DEF Accept
<1>12. inBuf' = [p \in rxBegin' .. E - 1 |-> R[p]]
  BY SMTT(30), <1>2, <1>3 DEF Accept
<1>13. /\ P # unack => unack' = unack
       /\ P = unack => /\ unack' \in unack + 1 .. E
                       /\ unack' = E \/ R[unack'].type = "unset"
                       /\ \A p \in unack + 1 .. unack' - 1 : R[p].type # "unset"
  <2>1. CASE P # unack
    BY Zenon, <1>11, <2>1 DEF NextUnack
  <2>2. CASE P = unack
    BY Zenon, ZenonT(30), <1>2, <1>3, <1>11, <2>2 DEF NextUnack
  <2> QED
    BY SMTT(30), <2>1, <2>2
<1>14. unack' \in Nat /\ unack <= unack' /\ unack' <= E /\ 1 <= unack' /\ 1 <= rxBegin
  BY <1>1, <1>6, <1>13 DEF RxWindow
<1>15. /\ rxBegin' \in Nat /\ rxBegin <= rxBegin' /\ rxBegin' <= E
       /\ ~selfClosed => rxBegin' = rxBegin
  BY <1>1, <1>6, <1>11, <1>14
<1>16. \A p \in rxBegin' .. E - 1 : p \in rxBegin .. E - 1 /\ inBuf'[p] = R[p]
  BY SMTT(30), <1>1, <1>12, <1>15
<1>17. RxTyped'
  <2>1. inBuf' \in [rxBegin' .. rxEnd' - 1 -> InBuffer]
    BY SMTT(30), <1>8, <1>11, <1>12, <1>16
  <2> QED
    BY Zenon, <1>6, <1>11, <1>14, <1>15, <2>1 DEF RxTyped
<1>18. RxWindow'
  <2>1. ASSUME ~selfClosed PROVE rxBegin <= unack' /\ (unack' < E => inBuf'[unack'].type = "unset")
    <3>1. rxBegin <= unack /\ (unack < rxEnd => ~Set(unack)) /\ rxBegin' = rxBegin
      BY Zenon, <1>15, <2>1 DEF RxWindow
    <3>2. ASSUME unack' < E PROVE R[unack'].type = "unset"
      <4>1. CASE P = unack
        BY SMTT(30), <1>6, <1>13, <1>14, <3>2, <4>1
      <4>2. CASE P # unack
        <5>1. unack' = unack /\ unack \in rxBegin .. E - 1
          BY SMTT(30), <1>1, <1>6, <1>13, <3>1, <3>2, <4>2
        <5> QED
          BY SMTT(30), <1>1, <1>7, <3>1, <4>2, <5>1 DEF Set, Unset
      <4> QED
        BY Zenon, <4>1, <4>2
    <3>3. ASSUME unack' < E PROVE inBuf'[unack'] = R[unack']
      BY <1>6, <1>14, <1>16, <3>1, <3>3, <1>1
    <3> QED
      BY <1>1, <1>14, <3>1, <3>2, <3>3 DEF Set
  <2>2. E <= rxBegin' + RecvCap
    BY SMTT(30), <1>1, <1>6, <1>15
  <2> QED
    BY Zenon, <1>1, <1>11, <1>14, <1>15, <2>1, <2>2 DEF RxWindow, Set, RxTyped
<1>19. SlotsKept
  <2> SUFFICES ASSUME NEW p \in rxBegin .. rxEnd - 1, Set(p), rxBegin' <= p
               PROVE  inBuf'[p] = inBuf[p]
    BY Zenon DEF SlotsKept
  <2>1. p \in rxBegin' .. E - 1
    BY <1>1, <1>6, <1>15
  <2> QED
    BY Zenon, <1>10, <1>16, <2>1
<1>20. RxGrows
  <2> SUFFICES ASSUME NEW p \in Nat, Received(p) PROVE Received(p)'
    BY SMTT(30), <1>6, <1>11, <1>14, <1>15 DEF RxGrows
  <2>1. CASE p < unack \/ p < rxBegin'
    BY SMTT(30), <1>1, <1>14, <2>1 DEF Received
  <2>2. CASE ~(p < unack \/ p < rxBegin')
    <3>1. p \in rxBegin .. rxEnd - 1 /\ Set(p) /\ rxBegin' <= p
      BY SMTT(30), <1>1, <1>15, <2>2 DEF Received, Set
    <3>2. inBuf'[p] = inBuf[p]
      BY SMTT(30), <1>19, <3>1 DEF SlotsKept
    <3> QED
      BY SMTT(30), <1>1, <1>6, <1>11, <3>1, <3>2 DEF Received, Set
  <2> QED
    BY Zenon, <2>1, <2>2
<1>21. \A p \in rxBegin' .. rxEnd' - 1 :
         \/ p \in rxBegin .. rxEnd - 1 /\ inBuf'[p] = inBuf[p]
         \/ /\ p = P /\ inBuf'[p].lo = m.lo /\ inBuf'[p].n = m.n
            /\ inBuf'[p].type = "fin" <=> m.fin
         \/ ~Set(p)'
  BY <1>5, <1>9, <1>11, <1>16, SMTT(30) DEF Set
<1>22. \A p \in Nat : unack <= p /\ p < unack' => p = P \/ (p \in rxBegin .. rxEnd - 1 /\ Set(p))
  <2> SUFFICES ASSUME NEW p \in Nat, unack <= p, p < unack', p # P
               PROVE  p \in rxBegin .. rxEnd - 1 /\ Set(p)
    BY Zenon
  <2>1. P = unack
    BY <1>1, <1>13
  <2>2. PICK U \in Nat : U = unack'
    BY Zenon, <1>14
  <2>3. p \in unack + 1 .. U - 1 /\ p \in rxBegin .. E - 1
    <3>1. p < U /\ U <= E /\ rxBegin <= unack /\ p # unack
      BY Zenon, <1>6, <1>14, <2>1, <2>2
    <3> QED
      BY <1>1, <1>6, <3>1
  <2>4. R[p].type # "unset"
    BY Zenon, <1>13, <2>1, <2>2, <2>3
  <2> QED
    BY Zenon, <1>9, <2>3, <2>4 DEF Set
<1> QED
  BY Zenon, ZenonT(30), <1>6, <1>11, <1>15, <1>17, <1>18, <1>19, <1>20, <1>21, <1>22


=============================================================================
