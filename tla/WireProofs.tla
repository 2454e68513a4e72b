----------------------------- MODULE WireProofs ------------------------------
(***************************************************************************)
(* What lies below the link, part by part, each for every value of its     *)
(* constants.                                                              *)
(*  - RingBuffer is exact for every range of the sequence numbers, every   *)
(*    header width and every capacity that RingAssumption allows, 2^16,    *)
(*    2^12 and up to 2^10 among them.                                      *)
(*  - The bounds of RetryBackoffMicros() hold for every delay that its     *)
(*    comment allows and every random number.                              *)
(*  - The rings of pico::ReliableUartDma, and the two ends of a serial     *)
(*    line: they do what is proved of each of them alone, whatever the     *)
(*    line does to the bytes between them.                                 *)
(*  - The sender thread of a transport loses no notification.              *)
(* They do not interact here; what they share is the arithmetic of wrapped *)
(* numbers, which comes first.                                             *)
(***************************************************************************)
EXTENDS RingBuffer, RetryBackoff, SerialPath, SendLoop, TLAPS

-----------------------------------------------------------------------------
(***************************************************************************)
(* Facts about % and congruence.                                           *)
(***************************************************************************)
Positive == Nat \ {0}

(* x and y differ by a multiple of m.                                       *)
Cong(x, y, m) == \E k \in Int : x - y = m * k

(* Division with remainder.                                                 *)
LEMMA DivMod ==
  \A a \in Int, m \in Positive :
    /\ a % m \in 0 .. m - 1 /\ a \div m \in Int
    /\ a = (m * (a \div m)) + (a % m)
BY SMT DEF Positive

(* A multiple of m that is smaller than m is 0.                             *)
LEMMA SmallMultiple ==
  \A m \in Positive, z \in Int : m * z < m /\ m * z > -m => z = 0
<1>1. ASSUME NEW m \in Positive, NEW z \in Int, z >= 1 PROVE m * z >= m
  BY <1>1, SMT DEF Positive
<1>2. ASSUME NEW m \in Positive, NEW z \in Int, z <= -1 PROVE m * z <= -m
  BY <1>2, SMT DEF Positive
<1> QED
  BY <1>1, <1>2, SMT DEF Positive

(* Two numbers of a range of m that are congruent are equal.                *)
LEMMA CongEqual ==
  ASSUME NEW m \in Positive, NEW x \in Int, NEW y \in Int,
         Cong(x, y, m), x - y < m, x - y > -m
  PROVE  x = y
<1> PICK k \in Int : x - y = m * k
  BY Zenon DEF Cong
<1>1. m * k < m /\ m * k > -m
  BY Zenon
<1>2. k = 0
  BY Zenon, <1>1, SmallMultiple
<1>3. m * k = 0
  BY <1>2 DEF Positive
<1> QED
  BY <1>3

(* Congruence is symmetric ...                                              *)
LEMMA CongSym ==
  ASSUME NEW m \in Positive, NEW x \in Int, NEW y \in Int, Cong(x, y, m)
  PROVE  Cong(y, x, m)
<1> PICK k \in Int : x - y = m * k
  BY Zenon DEF Cong
<1>1. -k \in Int /\ m * (-k) = -(m * k)
  BY SMT DEF Positive
<1>2. y - x = m * (-k)
  BY <1>1 DEF Positive
<1> QED
  BY Zenon, <1>1, <1>2 DEF Cong

(* ... and transitive, and sums and differences preserve it.                *)
LEMMA CongAdd ==
  ASSUME NEW m \in Positive, NEW x \in Int, NEW y \in Int, NEW u \in Int, NEW v \in Int,
         Cong(x, y, m), Cong(u, v, m)
  PROVE  Cong(x + u, y + v, m)
<1> PICK k \in Int : x - y = m * k
  BY Zenon DEF Cong
<1> PICK j \in Int : u - v = m * j
  BY Zenon DEF Cong
<1>1. k + j \in Int /\ m * (k + j) = m * k + m * j
  BY SMT DEF Positive
<1>2. (x + u) - (y + v) = m * (k + j)
  BY <1>1
<1> QED
  BY Zenon, <1>1, <1>2 DEF Cong

(* A number is congruent to itself.                                         *)
LEMMA CongRefl ==
  ASSUME NEW m \in Positive, NEW x \in Int
  PROVE  Cong(x, x, m)
<1>1. x - x = m * 0
  BY DEF Positive
<1> QED
  BY <1>1 DEF Cong

(* Differences of congruent numbers are congruent.                          *)
LEMMA CongSub ==
  ASSUME NEW m \in Positive, NEW x \in Int, NEW y \in Int, NEW u \in Int, NEW v \in Int,
         Cong(x, y, m), Cong(u, v, m)
  PROVE  Cong(x - u, y - v, m)
<1> PICK k \in Int : x - y = m * k
  BY DEF Cong
<1> PICK j \in Int : u - v = m * j
  BY DEF Cong
<1>1. k - j \in Int /\ m * (k - j) = m * k - m * j
  BY SMT DEF Positive
<1>2. (x - u) - (y - v) = m * (k - j)
  BY <1>1
<1> QED
  BY Zenon, <1>1, <1>2 DEF Cong

(* Congruence is transitive.                                                *)
LEMMA CongTrans ==
  ASSUME NEW m \in Positive, NEW x \in Int, NEW y \in Int, NEW z \in Int,
         Cong(x, y, m), Cong(y, z, m)
  PROVE  Cong(x, z, m)
<1> PICK k \in Int : x - y = m * k
  BY Zenon DEF Cong
<1> PICK j \in Int : y - z = m * j
  BY Zenon DEF Cong
<1>1. k + j \in Int /\ m * (k + j) = m * k + m * j
  BY SMT DEF Positive
<1>2. x - z = m * (k + j)
  BY <1>1
<1> QED
  BY Zenon, <1>1, <1>2 DEF Cong

(* A number is congruent to its remainder.                                  *)
LEMMA ModCong ==
  ASSUME NEW m \in Positive, NEW x \in Int
  PROVE  x % m \in 0 .. m - 1 /\ Cong(x, x % m, m)
<1>1. /\ x % m \in 0 .. m - 1 /\ x \div m \in Int
      /\ x = (m * (x \div m)) + (x % m)
  BY Zenon, DivMod
<1>2. m * (x \div m) \in Int
  BY <1>1 DEF Positive
<1>3. x - (x % m) = m * (x \div m)
  BY <1>1, <1>2 DEF Positive
<1> QED
  BY Zenon, <1>1, <1>3 DEF Cong

(* The remainder is the only number of 0 .. m - 1 that is congruent.        *)
LEMMA ModUnique ==
  ASSUME NEW m \in Positive, NEW x \in Int, NEW r \in 0 .. m - 1, Cong(x, r, m)
  PROVE  x % m = r
<1>1. x % m \in 0 .. m - 1 /\ Cong(x, x % m, m)
  BY Zenon, ModCong
<1>2. Cong(x % m, x, m)
  BY <1>1, CongSym DEF Positive
<1>3. Cong(x % m, r, m)
  BY <1>1, <1>2, CongTrans DEF Positive
<1>4. (x % m) - r < m /\ (x % m) - r > -m /\ x % m \in Int /\ r \in Int
  BY <1>1 DEF Positive
<1> QED
  BY Zenon, <1>3, <1>4, CongEqual

(* Congruent numbers have the same remainder.                               *)
LEMMA CongMod ==
  ASSUME NEW m \in Positive, NEW x \in Int, NEW y \in Int, Cong(x, y, m)
  PROVE  x % m = y % m
<1>1. y % m \in 0 .. m - 1 /\ Cong(y, y % m, m)
  BY Zenon, ModCong
<1>2. Cong(x, y % m, m)
  BY <1>1, CongTrans DEF Positive
<1> QED
  BY Zenon, <1>1, <1>2, ModUnique

(* Congruence modulo a multiple of n is congruence modulo n.                *)
LEMMA CongDivisor ==
  ASSUME NEW n \in Positive, NEW m \in Positive, m % n = 0,
         NEW x \in Int, NEW y \in Int, Cong(x, y, m)
  PROVE  Cong(x, y, n)
<1> PICK k \in Int : x - y = m * k
  BY Zenon DEF Cong
<1> DEFINE j == m \div n
<1>1. j \in Int /\ m = n * j
  BY DivMod DEF Positive
<1> HIDE DEF j
<1>2. j * k \in Int /\ m * k = n * (j * k)
  BY <1>1, SMT DEF Positive
<1>3. x - y = n * (j * k)
  BY Zenon, <1>2
<1> QED
  BY Zenon, <1>2, <1>3 DEF Cong

-----------------------------------------------------------------------------
(***************************************************************************)
(* The ring of sequence numbers, and the delays between retries.           *)
(***************************************************************************)
(* What makes SlotsExact inductive: the fields are the wrapped positions.   *)
Window ==
  /\ first \in Nat /\ last \in Nat
  /\ begin_ = Raw(first) /\ end_ = Raw(last)
  /\ first <= last /\ last <= first + Capacity

(* The constants as positive numbers, and the order between them.           *)
LEMMA RingSizes ==
  /\ SeqMod \in Positive /\ HeaderMod \in Positive /\ Capacity \in Positive
  /\ Capacity < SeqMod \div 2 /\ SeqMod \div 2 \in Nat
  /\ 2 * (SeqMod \div 2) <= SeqMod /\ SeqMod <= 2 * (SeqMod \div 2) + 1
  /\ HeaderMod \div 2 \in Nat /\ 2 * (HeaderMod \div 2) = HeaderMod
BY RingAssumption DEF Positive

(* A raw number stands for its position up to a multiple of SeqMod.         *)
LEMMA RawCong ==
  ASSUME NEW p \in Int
  PROVE  Raw(p) \in 0 .. SeqMod - 1 /\ Raw(p) \in Int /\ Cong(Raw(p), p, SeqMod)
<1>1. Raw(p) \in 0 .. SeqMod - 1 /\ Cong(p, Raw(p), SeqMod)
  BY Zenon, RingSizes, ModCong DEF Raw
<1>2. Raw(p) \in Int
  BY <1>1, RingSizes DEF Positive
<1> QED
  BY Zenon, <1>1, <1>2, RingSizes, CongSym

(* Subtracting raw numbers is subtracting positions.                        *)
LEMMA RawDifference ==
  ASSUME NEW p \in Int, NEW q \in Int
  PROVE  Raw(Raw(p) - Raw(q)) = Raw(p - q)
<1>1. Cong(Raw(p) - Raw(q), p - q, SeqMod)
  BY Zenon, RawCong, CongSub, RingSizes
<1>2. Raw(p) - Raw(q) \in Int /\ p - q \in Int
  BY RawCong
<1> QED
  BY Zenon, <1>1, <1>2, CongMod, RingSizes DEF Raw

(* A position of the range of SeqNum is its own raw number ...              *)
LEMMA RawSmall ==
  ASSUME NEW p \in 0 .. SeqMod - 1
  PROVE  Raw(p) = p
<1>1. p \in Int /\ Cong(p, p, SeqMod)
  BY CongRefl, RingSizes DEF Positive
<1> QED
  BY Zenon, <1>1, ModUnique, RingSizes DEF Raw

(* ... and a negative one above -SeqMod wraps around once.                  *)
LEMMA RawNegative ==
  ASSUME NEW p \in Int, p < 0, -SeqMod <= p
  PROVE  Raw(p) = p + SeqMod
<1>1. SeqMod * (-1) = -SeqMod
  BY RingSizes DEF Positive
<1>2. p - (p + SeqMod) = SeqMod * (-1) /\ p + SeqMod \in 0 .. SeqMod - 1
  BY <1>1, RingSizes DEF Positive
<1>3. Cong(p, p + SeqMod, SeqMod)
  BY <1>2 DEF Cong
<1> QED
  BY Zenon, <1>2, <1>3, ModUnique, RingSizes DEF Raw

(* The signed difference of two SeqNum is the difference of the positions   *)
(* they stand for when that is within half the range.                       *)
LEMMA DiffExact ==
  ASSUME NEW p \in Int, NEW q \in Int,
         -(SeqMod \div 2) <= p - q, p - q < SeqMod \div 2
  PROVE  Diff(Raw(p), Raw(q)) = p - q
<1> DEFINE d == p - q
<1>1. Diff(Raw(p), Raw(q)) = Signed(Raw(d))
  BY Zenon, RawDifference DEF Diff
<1>2. CASE d >= 0
  <2>1. Raw(d) = d
    BY <1>2, RawSmall, RingSizes DEF Positive
  <2> QED
    BY Zenon, <1>1, <2>1 DEF Signed
<1>3. CASE d < 0
  <2>1. Raw(d) = d + SeqMod
    BY <1>3, RawNegative, RingSizes DEF Positive
  <2> QED
    BY <1>1, <1>3, <2>1, RingSizes DEF Signed, Positive
<1> QED
  BY <1>2, <1>3

(* The counts the code computes, in a state where the window fits.          *)
LEMMA CountsExact ==
  Window => slotsUsed = last - first /\ slotsFree = Capacity - (last - first)
<1> SUFFICES ASSUME Window PROVE slotsUsed = last - first /\ slotsFree = Capacity - (last - first)
  BY Zenon
<1>1. last - first \in 0 .. Capacity /\ Capacity - (last - first) \in 0 .. Capacity
  BY RingSizes DEF Window, Positive
<1>2. 0 .. Capacity \subseteq 0 .. SeqMod - 1
  BY RingSizes DEF Positive
<1>3. slotsUsed = Raw(last - first)
  BY RawDifference DEF Window, slotsUsed
<1>4. slotsUsed = last - first
  BY Zenon, <1>1, <1>2, <1>3, RawSmall
<1> QED
  BY Zenon, <1>1, <1>2, <1>4, RawSmall DEF slotsFree

(* A raw number plus one is the raw number of the next position.            *)
LEMMA RawSuccessor ==
  ASSUME NEW p \in Int
  PROVE  Raw(Raw(p) + 1) = Raw(p + 1)
<1>1. Cong(Raw(p) + 1, p + 1, SeqMod)
  BY RawCong, CongAdd, CongRefl, RingSizes
<1>2. Raw(p) + 1 \in Int /\ p + 1 \in Int
  BY RawCong
<1> QED
  BY Zenon, <1>1, <1>2, CongMod, RingSizes DEF Raw

(* push, pop and reset keep the fields in step with the positions.          *)
LEMMA WindowInductive ==
  Window /\ [RingNext]_ringVars => Window'
<1> SUFFICES ASSUME Window, [RingNext]_ringVars PROVE Window'
  BY Zenon
<1> USE DEF Window
<1>1. CASE push
  <2>1. last - first < Capacity
    BY <1>1, CountsExact, RingSizes DEF push, Positive
  <2>2. end_' = Raw(last + 1)
    BY <1>1, RawSuccessor DEF push
  <2> QED
    BY <1>1, <2>1, <2>2, RingSizes DEF push, Positive, Raw
<1>2. CASE pop
  <2>1. last - first > 0
    BY Zenon, <1>2, CountsExact DEF pop
  <2>2. begin_' = Raw(first + 1)
    BY <1>2, RawSuccessor DEF pop
  <2> QED
    BY <1>2, <2>1, <2>2, RingSizes DEF pop, Positive, Raw
<1>3. CASE \E seq \in 0 .. SeqMod - 1 : reset(seq)
  <2> PICK seq \in 0 .. SeqMod - 1 : reset(seq)
    BY Zenon, <1>3
  <2>1. Raw(seq) = seq
    BY Zenon, RawSmall
  <2>2. seq \in Nat
    BY RingSizes DEF Positive
  <2> QED
    BY <2>1, <2>2, RingSizes DEF reset, Positive, Raw
<1>4. CASE UNCHANGED ringVars
  BY Zenon, <1>4 DEF ringVars, Raw
<1> QED
  BY Zenon, <1>1, <1>2, <1>3, <1>4 DEF RingNext

(* The window and its wrapped fields agree in every reachable state.        *)
THEOREM WindowInvariant == RingSpec => []Window
<1>1. RingInit => Window
  <2>1. 0 \in 0 .. SeqMod - 1
    BY RingSizes DEF Positive
  <2> QED
    BY <2>1, RawSmall, RingSizes DEF RingInit, Window, Positive
<1> QED
  BY <1>1, WindowInductive, PTL DEF RingSpec

(* RingBuffer's slotsUsed() and slotsFree() are the true counts, and the    *)
(* window never outgrows the buffer.                                        *)
THEOREM SlotsAreExact == RingSpec => []SlotsExact
<1>1. Window => SlotsExact
  BY Zenon, CountsExact DEF Window, SlotsExact
<1> QED
  BY <1>1, WindowInvariant, PTL

(* contains() decides membership for every number within reach.             *)
THEOREM ContainsIsExact == RingSpec => []ContainsExact
<1>1. Window => ContainsExact
  <2> SUFFICES ASSUME Window, NEW p \in first - Reach .. last + Reach - 1
               PROVE  contains(Raw(p)) <=> first <= p /\ p < last
    BY Zenon DEF ContainsExact
  <2>1. /\ p \in Int /\ first \in Int /\ last \in Int
        /\ -(SeqMod \div 2) <= first - p /\ first - p < SeqMod \div 2
        /\ -(SeqMod \div 2) <= p - last /\ p - last < SeqMod \div 2
    BY RingSizes DEF Window, Reach, Positive
  <2>2. Diff(Raw(first), Raw(p)) = first - p
    BY Zenon, <2>1, DiffExact
  <2>3. Diff(Raw(p), Raw(last)) = p - last
    BY Zenon, <2>1, DiffExact
  <2> QED
    BY <2>1, <2>2, <2>3 DEF Window, contains, Less, LessEq
<1> QED
  BY <1>1, WindowInvariant, PTL

(* A raw number and its position agree modulo every divisor of SeqMod.      *)
LEMMA RawModDivisor ==
  ASSUME NEW m \in Positive, SeqMod % m = 0, NEW p \in Int
  PROVE  Cong(Raw(p), p, m)
BY Zenon, RawCong, CongDivisor, RingSizes

(* The capacity divides the range of SeqNum.                                *)
LEMMA CapacityDivides == SeqMod % Capacity = 0
<1>1. Cong(SeqMod, 0, HeaderMod)
  BY ModCong, RingSizes, RingAssumption DEF Positive
<1>2. Cong(SeqMod, 0, Capacity)
  BY <1>1, CongDivisor, RingSizes, RingAssumption, SMTT(30) DEF Positive
<1>3. 0 \in 0 .. Capacity - 1 /\ SeqMod \in Int
  BY RingSizes DEF Positive
<1> QED
  BY Zenon, <1>2, <1>3, ModUnique, RingSizes

(* No two packets of the window share a slot of the buffer.                 *)
THEOREM SlotsAreDistinct == RingSpec => []SlotsDistinct
<1>1. Window => SlotsDistinct
  <2> SUFFICES ASSUME Window, NEW p \in first .. last - 1, NEW q \in first .. last - 1,
                      offset_for(Raw(p)) = offset_for(Raw(q))
               PROVE  p = q
    BY Zenon DEF SlotsDistinct
  <2>1. p \in Int /\ q \in Int /\ p - q < Capacity /\ p - q > -Capacity
    BY RingSizes DEF Window, Positive
  <2>2. Cong(p, Raw(p), Capacity) /\ Cong(q, Raw(q), Capacity)
    BY Zenon, <2>1, RawModDivisor, RawCong, CapacityDivides, RingSizes, CongSym
  <2> DEFINE s == offset_for(Raw(p))
  <2>3. s \in Int /\ Cong(Raw(p), s, Capacity) /\ Cong(Raw(q), s, Capacity)
    BY SMTT(30), <2>1, RawCong, ModCong, RingSizes DEF offset_for, Positive
  <2> HIDE DEF s
  <2>4. Cong(p, s, Capacity) /\ Cong(q, s, Capacity)
    BY Zenon, <2>1, <2>2, <2>3, CongTrans, RawCong, RingSizes
  <2>5. Cong(s, q, Capacity)
    BY Zenon, <2>1, <2>3, <2>4, CongSym, RingSizes
  <2>6. Cong(p, q, Capacity)
    BY Zenon, <2>1, <2>3, <2>4, <2>5, CongTrans, RingSizes
  <2> QED
    BY Zenon, <2>1, <2>6, CongEqual, RingSizes
<1> QED
  BY <1>1, WindowInvariant, PTL

(* The header's bits determine every number within half their range of the  *)
(* start of the window: restorePosHighBits() returns it.                    *)
THEOREM RestoreIsExact == RingSpec => []RestoreExact
<1>1. Window => RestoreExact
  <2> DEFINE h == HeaderMod \div 2
  <2> SUFFICES ASSUME Window, NEW p \in first - h .. first + h - 1
               PROVE  restorePosHighBits(Raw(p) % HeaderMod) = Raw(p)
    BY Zenon DEF RestoreExact
  <2>0. /\ h \in Nat /\ 2 * h = HeaderMod /\ first \in Int /\ p \in Int /\ first - h \in Int
        /\ p - (first - h) \in 0 .. HeaderMod - 1 /\ SeqMod % HeaderMod = 0
    BY RingSizes, RingAssumption DEF Window, Positive
  <2> DEFINE left == Raw(begin_ - h)
             trunc == Raw(p) % HeaderMod
             off == Raw(trunc - left) % HeaderMod
  <2>1. left \in Int /\ begin_ - h \in Int /\ Cong(left, first - h, SeqMod)
    <3>1. begin_ \in Int /\ Cong(begin_, first, SeqMod)
      BY Zenon, <2>0, RawCong DEF Window
    <3>2. begin_ - h \in Int /\ Cong(begin_ - h, first - h, SeqMod)
      <4> HIDE DEF h
      <4>1. h \in Int /\ Cong(h, h, SeqMod)
        BY <2>0, CongRefl, RingSizes
      <4> QED
        BY <2>0, <3>1, <4>1, CongSub, RingSizes
    <3>3. left \in Int /\ Cong(left, begin_ - h, SeqMod)
      BY Zenon, <3>2, RawCong
    <3> QED
      BY Zenon, <2>0, <3>2, <3>3, CongTrans, RingSizes
  <2>2. trunc \in Int /\ Cong(trunc, p, HeaderMod)
    <3>1. Raw(p) \in Int /\ Cong(Raw(p), p, HeaderMod)
      BY Zenon, <2>0, RawModDivisor, RawCong, RingSizes
    <3>2. trunc \in Int /\ Cong(Raw(p), trunc, HeaderMod)
      <4>1. trunc \in 0 .. HeaderMod - 1 /\ Cong(Raw(p), trunc, HeaderMod)
        BY Zenon, <3>1, ModCong, RingSizes
      <4> QED
        BY <4>1, RingSizes DEF Positive
    <3>3. Cong(trunc, Raw(p), HeaderMod)
      BY Zenon, <3>1, <3>2, CongSym, RingSizes
    <3> QED
      BY Zenon, <2>0, <3>1, <3>2, <3>3, CongTrans, RingSizes
  <2> HIDE DEF left, trunc
  <2>3. Cong(left, first - h, HeaderMod)
    BY Zenon, <2>0, <2>1, CongDivisor, RingSizes
  <2>4. Cong(trunc - left, p - (first - h), HeaderMod)
    BY Zenon, <2>0, <2>1, <2>2, <2>3, CongSub, RingSizes
  <2>5. Raw(trunc - left) \in Int /\ trunc - left \in Int
        /\ Cong(Raw(trunc - left), trunc - left, HeaderMod)
    BY <2>0, <2>1, <2>2, RawModDivisor, RawCong, RingSizes
  <2>6. p - (first - h) \in Int
    BY <2>0
  <2>7. Cong(Raw(trunc - left), p - (first - h), HeaderMod)
    BY Zenon, <2>4, <2>5, <2>6, CongTrans, RingSizes
  <2>8. off = p - (first - h)
    BY Zenon, <2>0, <2>5, <2>7, ModUnique, RingSizes
  <2>9. Cong(left + off, (first - h) + (p - (first - h)), SeqMod)
    BY Zenon, <2>0, <2>1, <2>6, <2>8, CongAdd, CongRefl, RingSizes
  <2>10. (first - h) + (p - (first - h)) = p /\ left + off \in Int
    BY <2>0, <2>1, <2>6, <2>8
  <2>11. Raw(left + off) = Raw(p)
    BY <2>0, <2>9, <2>10, CongMod, RingSizes DEF Raw
  <2> QED
    BY Zenon, <2>11 DEF restorePosHighBits, left, trunc
<1> QED
  BY <1>1, WindowInvariant, PTL

(***************************************************************************)
(* The time before a packet is sent again.                                 *)
(***************************************************************************)
(* Every random number up to kRandomMax falls into one of the 8192 bins.    *)
LEMMA BinInRange ==
  ASSUME NEW draw \in 0 .. RandomMax
  PROVE  Bin(draw) \in Nat /\ Bin(draw) < 8192
<1> DEFINE m == RandomMax + 1
<1>1. m \in Nat /\ m > 0 /\ draw \in Nat /\ draw < m
  BY RandomAssumption, Z3
<1>2. draw * 8192 \in Nat /\ draw * 8192 < 8192 * m
  BY <1>1, Z3
<1>3. ASSUME NEW a \in Nat, NEW b \in Nat, b > 0, a < 8192 * b
      PROVE  a \div b \in Nat /\ a \div b < 8192
  <2>1. a \div b \in Nat /\ b * (a \div b) <= a
    BY <1>3, Z3
  <2>2. ~(a \div b >= 8192)
    <3>1. SUFFICES ASSUME a \div b >= 8192 PROVE FALSE
      BY Z3
    <3>2. \A q \in Nat : q >= 8192 => b * q >= 8192 * b
      BY <1>3, Z3
    <3> QED BY <2>1, <3>1, <3>2, <1>3, Z3
  <2> QED BY <2>1, <2>2, Z3
<1>4. (draw * 8192) \div m \in Nat /\ (draw * 8192) \div m < 8192
  BY <1>1, <1>2, <1>3, Z3
<1> QED BY <1>4, Z3 DEF Bin

(* A delay that is allowed grows, and not past its cap; the 32 bits of the  *)
(* code hold the product.                                                   *)
THEOREM GrowIsBounded ==
  ASSUME NEW max \in Nat, NEW delay \in Nat,
         1000 <= delay, delay <= max, max <= 1000000
  PROVE  /\ Grow(delay, max) \in delay .. max
         /\ delay < max => Grow(delay, max) > delay
         /\ delay * 133 + 50 < 2147483648
  BY Z3 DEF Grow

(* Whatever the random number, the time is at most 20% off the delay, the   *)
(* upper end excluded, and the 32 bits of the code hold the product.        *)
THEOREM JitterIsBounded ==
  ASSUME NEW delay \in Nat, 1000 <= delay, delay <= 1000000,
         NEW draw \in 0 .. RandomMax
  PROVE  /\ Jittered(delay, Bin(draw)) \in Spread(delay)
         /\ Bin(draw) * (2 * (delay \div 5)) < 4294967296
<1> DEFINE bin == Bin(draw)
           r == delay \div 5
<1>1. bin \in Nat /\ bin < 8192
  BY BinInRange, Z3
<1>2. r \in Nat /\ 200 <= r /\ r <= 200000 /\ delay - r \in Nat
  BY Z3
<1>3. bin * (2 * r) >= 0 /\ bin * (2 * r) <= 8191 * (2 * r) /\ bin * (2 * r) \in Int
  BY <1>1, <1>2, Z3
<1>4. \A p \in Int : p >= 0 /\ p <= 8191 * (2 * r) => p \div 8192 \in 0 .. 2 * r - 1
  BY <1>2, Z3
<1>5. (bin * (2 * r)) \div 8192 \in 0 .. 2 * r - 1
  BY <1>3, <1>4, Z3
<1> HIDE DEF bin, r
<1>6. delay - r + (bin * (2 * r)) \div 8192 \in delay - r .. delay + r - 1
  BY <1>2, <1>5, Z3
<1>7. bin * (2 * r) < 4294967296
  BY <1>2, <1>3, Z3
<1> QED BY <1>6, <1>7, Z3 DEF Jittered, Spread, bin, r

-----------------------------------------------------------------------------
(***************************************************************************)
(* The rings of the UART.  The positions in the stream that the counters   *)
(* stand for are Published and Freed, which never wrap around.             *)
(***************************************************************************)
(* The position that tx_head stands for ...                                 *)
Published == Len(written) - Len(todo)

(* ... and the one that tx_tail stands for.                                 *)
Freed == wired - txInflight + dmaLeft

TxType ==
  /\ written \in Seq(Byte) /\ todo \in Seq(Byte)
  /\ txBuf \in [0 .. Ring - 1 -> Byte]
  /\ chunk \in Nat /\ txInflight \in Nat /\ dmaLeft \in Nat /\ wired \in Nat

(* The counters are in step, and what is in the ring fits.                  *)
TxCounters ==
  /\ txHead = Published % W /\ txTail = Freed % W
  /\ 0 <= Freed /\ dmaLeft <= txInflight /\ wired + dmaLeft <= Published
  /\ chunk <= Len(todo) /\ Published + chunk <= Freed + Ring
  /\ txInflight = 0 => Published = Freed

(* write() has yet to copy the end of what it was given.                    *)
TodoIsRest == \A k \in 1 .. Len(todo) : todo[k] = written[Published + k]

(* The ring holds what is copied and not sent.                              *)
RingHolds ==
  \A k \in Nat : Freed <= k /\ k < Published + chunk => txBuf[k % Ring] = written[k + 1]

(* end() flushes after the last write().                                    *)
EndAfterWrites ==
  /\ sender \in {"flushing", "closed"} => todo = <<>>
  /\ sender = "closed" => Published = Freed

TxInv == TxType /\ TxCounters /\ TodoIsRest /\ RingHolds /\ EndAfterWrites

(* The estimate of produced() while it renews the count is behind by what   *)
(* has arrived since, and may be ahead by a byte that is being written.     *)
RxInv ==
  /\ arrived \in Nat /\ remaining \in Nat /\ rxBase \in Nat /\ since \in Nat
  /\ Cong(rxBase + Count - remaining, arrived, W)
  /\ rd = "idle" => since = 0
  /\ rd = "renew" =>
       /\ estimate \in Nat /\ 2 * since < Ring
       /\ \E lag \in 0 .. 1 : Cong(estimate, arrived - since + lag, W)
-----------------------------------------------------------------------------
(* The counters and the index in the ring.                                  *)
LEMMA Powers ==
  /\ Ring \in Positive /\ W \in Positive /\ Ring > 2 /\ Ring < W
  /\ W % Ring = 0 /\ Count \in Nat
BY UartDmaAssumption DEF Positive

(* Numbers just below and just above 0.                                     *)
LEMMA SmallMod ==
  ASSUME NEW m \in Positive, NEW x \in Int, x < m, -m <= x
  PROVE  x % m = IF x < 0 THEN x + m ELSE x
<1>1. CASE x >= 0
  <2>1. x \in 0 .. m - 1 /\ Cong(x, x, m)
    BY <1>1, CongRefl DEF Positive
  <2> QED
    BY <1>1, <2>1, ModUnique
<1>2. CASE x < 0
  <2>1. m * (-1) = -m
    BY DEF Positive
  <2>2. x - (x + m) = m * (-1) /\ x + m \in 0 .. m - 1
    BY <1>2, <2>1 DEF Positive
  <2>3. Cong(x, x + m, m)
    BY <2>2 DEF Cong
  <2> QED
    BY Zenon, <1>2, <2>2, <2>3, ModUnique
<1> QED
  BY <1>1, <1>2

(* A counter and the position it stands for.                                *)
LEMMA Counter ==
  ASSUME NEW p \in Nat
  PROVE  p % W \in Nat /\ Cong(p % W, p, W)
<1>1. p % W \in 0 .. W - 1 /\ Cong(p, p % W, W)
  BY Powers, ModCong
<1>2. p % W \in Nat
  BY <1>1, Powers DEF Positive
<1> QED
  BY <1>1, <1>2, Powers, CongSym

(* Adding to a counter is adding to its position.                           *)
LEMMA CounterAdd ==
  ASSUME NEW p \in Nat, NEW n \in Nat
  PROVE  ((p % W) + n) % W = (p + n) % W
<1>1. p % W \in Int /\ p \in Int /\ n \in Int /\ Cong(p % W, p, W)
  BY Counter
<1>2. Cong((p % W) + n, p + n, W)
  BY Zenon, <1>1, CongRefl, CongAdd, Powers
<1> QED
  BY <1>1, <1>2, CongMod, Powers

(* Subtracting counters is subtracting positions.                           *)
LEMMA CounterDistance ==
  ASSUME NEW p \in Nat, NEW q \in Nat, q <= p, p - q <= Ring
  PROVE  ((p % W) - (q % W)) % W = p - q
<1>1. /\ p % W \in Int /\ p \in Int /\ Cong(p % W, p, W)
      /\ q % W \in Int /\ q \in Int /\ Cong(q % W, q, W)
  BY Counter
<1>2. Cong((p % W) - (q % W), p - q, W)
  BY Zenon, <1>1, CongSub, Powers
<1>3. p - q \in 0 .. W - 1 /\ (p % W) - (q % W) \in Int
  BY <1>1, Powers DEF Positive
<1> QED
  BY Zenon, <1>2, <1>3, ModUnique, Powers

(* The index of a counter in the ring is that of its position.              *)
LEMMA CounterIndex ==
  ASSUME NEW p \in Nat
  PROVE  (p % W) % Ring = p % Ring
<1>1. p % W \in Nat /\ Cong(p % W, p, Ring)
  BY Counter, CongDivisor, Powers
<1> QED
  BY <1>1, CongMod, Powers

(* How far the slot of position j is from that of position p, going up.     *)
LEMMA SlotDistance ==
  ASSUME NEW j \in Nat, NEW p \in Nat
  PROVE  ((j % Ring) - (p % W)) % Ring = (j - p) % Ring
<1>1. j % Ring \in Nat /\ Cong(j % Ring, j, Ring)
  <2>1. j % Ring \in 0 .. Ring - 1 /\ Cong(j, j % Ring, Ring)
    BY Powers, ModCong
  <2>2. j % Ring \in Nat
    BY <2>1, Powers DEF Positive
  <2> QED
    BY <2>1, <2>2, CongSym, Powers
<1>2. p % W \in Nat /\ Cong(p % W, p, Ring)
  BY Counter, CongDivisor, Powers
<1>3. Cong((j % Ring) - (p % W), j - p, Ring)
  BY <1>1, <1>2, CongSub, Powers
<1> QED
  BY <1>1, <1>2, <1>3, CongMod, Powers

(* The slot of a position is a slot.                                        *)
LEMMA Slot ==
  ASSUME NEW p \in Int
  PROVE  p % Ring \in 0 .. Ring - 1
BY Zenon, Powers, ModCong
-----------------------------------------------------------------------------
(* The transmitting side.                                                   *)

(* Sequences.                                                               *)
LEMMA Concat ==
  ASSUME NEW s \in Seq(Byte), NEW t \in Seq(Byte)
  PROVE  /\ s \o t \in Seq(Byte) /\ Len(s \o t) = Len(s) + Len(t)
         /\ \A i \in 1 .. Len(s) + Len(t) :
              (s \o t)[i] = IF i <= Len(s) THEN s[i] ELSE t[i - Len(s)]
OBVIOUS

(* The end of a sequence.                                                   *)
LEMMA Rest ==
  ASSUME NEW s \in Seq(Byte), NEW n \in Nat, n <= Len(s)
  PROVE  /\ SubSeq(s, n + 1, Len(s)) \in Seq(Byte)
         /\ Len(SubSeq(s, n + 1, Len(s))) = Len(s) - n
         /\ \A i \in 1 .. Len(s) - n : SubSeq(s, n + 1, Len(s))[i] = s[n + i]
OBVIOUS

(* The length of a sequence.                                                *)
LEMMA Length ==
  ASSUME NEW s \in Seq(Byte)
  PROVE  Len(s) \in Nat /\ s \in [1 .. Len(s) -> Byte] /\ (s = <<>> <=> Len(s) = 0)
OBVIOUS

(* A step of others.                                                        *)
LEMMA TxStutter == TxInv /\ UNCHANGED txVars => TxInv'
BY Zenon DEF TxInv, TxType, TxCounters, TodoIsRest, RingHolds, EndAfterWrites,
       Published, Freed, txVars

(* Positions are numbers.                                                   *)
LEMMA Positions ==
  TxInv => /\ Len(written) \in Nat /\ Len(todo) \in Nat
           /\ Published \in Nat /\ Freed \in Nat
           /\ Freed <= Published /\ Published - Freed <= Ring /\ Ring \in Nat
<1> SUFFICES ASSUME TxInv
             PROVE  /\ Len(written) \in Nat /\ Len(todo) \in Nat
                    /\ Published \in Nat /\ Freed \in Nat
                    /\ Freed <= Published /\ Published - Freed <= Ring /\ Ring \in Nat
  BY Zenon
<1>1. Len(written) \in Nat /\ Len(todo) \in Nat /\ Ring \in Nat
  BY Zenon, Length, Powers DEF TxInv, TxType, Positive
<1>2. Published \in Int /\ Freed \in Int
  BY <1>1 DEF TxInv, TxType, Published, Freed
<1> QED
  BY <1>1, <1>2 DEF TxInv, TxType, TxCounters, Published, Freed

(* The room in the ring.                                                    *)
LEMMA UsedExact == TxInv => Used = Published - Freed
BY Positions, CounterDistance DEF TxInv, TxCounters, Used

(* The segment that startTx() starts, after the positions.                  *)
LEMMA SegmentExact ==
  ASSUME NEW p \in Nat, NEW q \in Nat, q <= p, p - q <= Ring
  PROVE  /\ Segment(p % W, q % W) \in Nat
         /\ Segment(p % W, q % W) <= p - q
         /\ Segment(p % W, q % W) = 0 => p = q
<1>1. ((p % W) - (q % W)) % W = p - q
  BY Zenon, CounterDistance
<1>2. (q % W) % Ring \in 0 .. Ring - 1
  BY CounterIndex, Slot
<1> QED
  BY <1>1, <1>2, Powers DEF Segment, Least, Positive

(* write() is given some bytes.                                             *)
LEMMA WriteKeeps ==
  ASSUME NEW f \in Seq(Byte), TxInv, Write(f)
  PROVE  TxInv'
<1>2. /\ todo = <<>> /\ todo' = f /\ written' = written \o f
      /\ UNCHANGED <<txBuf, txHead, txTail, txInflight, dmaLeft, chunk, wired, sender>>
      /\ sender = "running"
  BY Zenon DEF Write
<1>3. /\ written' \in Seq(Byte) /\ Len(written') = Len(written) + Len(f)
      /\ \A i \in 1 .. Len(written) + Len(f) :
           written'[i] = IF i <= Len(written) THEN written[i] ELSE f[i - Len(written)]
  <2>1. written \in Seq(Byte)
    BY Zenon DEF TxInv, TxType
  <2> QED
    BY <1>2, <2>1, Concat, Zenon
<1>4. /\ Len(f) \in Nat /\ Len(written) \in Nat /\ Len(todo) = 0
      /\ Published = Len(written) /\ Published' = Published /\ Freed' = Freed
  <2>1. Len(f) \in Nat /\ Len(written) \in Nat /\ Len(todo) = 0
    BY Zenon, <1>2, Length DEF TxInv, TxType
  <2> QED
    BY <1>2, <1>3, <2>1 DEF Published, Freed
<1>5. TxType'
  BY Zenon, <1>2, <1>3 DEF TxInv, TxType
<1>6. TxCounters'
  BY <1>2, <1>4 DEF TxInv, TxType, TxCounters
<1>7. TodoIsRest'
  BY <1>2, <1>3, <1>4 DEF TodoIsRest
<1>8. RingHolds'
  <2> SUFFICES ASSUME NEW k \in Nat, Freed <= k, k < Published + chunk
               PROVE  txBuf[k % Ring] = written'[k + 1]
    BY Zenon, <1>2, <1>4 DEF RingHolds
  <2>1. chunk = 0 /\ k + 1 \in 1 .. Len(written)
    BY <1>4 DEF TxInv, TxType, TxCounters
  <2>2. written'[k + 1] = written[k + 1]
    BY <1>3, <1>4, <2>1
  <2> QED
    BY Zenon, <2>2 DEF TxInv, RingHolds
<1>9. EndAfterWrites'
  BY Zenon, <1>2 DEF EndAfterWrites
<1> QED
  BY Zenon, <1>5, <1>6, <1>7, <1>8, <1>9 DEF TxInv

(* write() copies a chunk: never over a byte that has yet to be sent.       *)
LEMMA WriteCopyKeeps == TxInv /\ WriteCopy => TxInv'
<1> SUFFICES ASSUME TxInv, WriteCopy PROVE TxInv'
  BY Zenon
<1> DEFINE c == ChunkSize
<1>1. /\ Len(todo) \in Nat /\ Published \in Nat /\ Freed \in Nat /\ Ring \in Nat
      /\ Freed <= Published /\ Published - Freed <= Ring
  BY Zenon, Positions
<1>5. txHead = Published % W /\ txHead \in Int
  BY SMTT(30), <1>1, Counter DEF TxInv, TxCounters
<1>2. c \in Nat /\ c > 0 /\ c <= Len(todo) /\ Published + c <= Freed + Ring
  <2>1. Used = Published - Freed
    BY Zenon, UsedExact
  <2>2. txHead % Ring \in 0 .. Ring - 1
    BY Zenon, <1>5, Slot
  <2> QED
    BY <1>1, <2>1, <2>2 DEF ChunkSize, Least, WriteCopy
<1> HIDE DEF c
<1>3. /\ chunk = 0 /\ chunk' = c
      /\ txBuf' = [i \in 0 .. Ring - 1 |->
                     IF (i - txHead) % Ring < c THEN todo[((i - txHead) % Ring) + 1] ELSE txBuf[i]]
      /\ UNCHANGED <<txHead, txTail, txInflight, dmaLeft, todo, written, wired, sender>>
  BY Zenon DEF WriteCopy, c
<1>4. Published' = Published /\ Freed' = Freed
  BY Zenon, <1>3 DEF Published, Freed
<1>6. TxType'
  <2>1. ASSUME NEW i \in 0 .. Ring - 1, (i - txHead) % Ring < c
        PROVE  todo[((i - txHead) % Ring) + 1] \in Byte
    <3>1. i - txHead \in Int
      BY <1>1, <1>5
    <3>4. (i - txHead) % Ring \in 0 .. Ring - 1
      BY Zenon, <3>1, Slot
    <3>2. ((i - txHead) % Ring) + 1 \in 1 .. Len(todo)
      BY <1>1, <1>2, <2>1, <3>4
    <3>3. todo \in [1 .. Len(todo) -> Byte]
      BY Zenon, Length DEF TxInv, TxType
    <3> QED
      BY Zenon, <3>2, <3>3
  <2>2. txBuf' \in [0 .. Ring - 1 -> Byte]
    BY Zenon, <1>3, <2>1 DEF TxInv, TxType
  <2> QED
    BY Zenon, <1>2, <1>3, <2>2 DEF TxInv, TxType
<1>7. TxCounters'
  BY Zenon, <1>1, <1>2, <1>3, <1>4 DEF TxInv, TxCounters
<1>8. RingHolds'
  <2> SUFFICES ASSUME NEW k \in Nat, Freed <= k, k < Published + c
               PROVE  txBuf'[k % Ring] = written[k + 1]
    BY Zenon, <1>3, <1>4 DEF RingHolds
  <2> DEFINE d == (k - Published) % Ring
  <2>1. k % Ring \in 0 .. Ring - 1 /\ ((k % Ring) - txHead) % Ring = d
    BY <1>1, <1>5, Slot, SlotDistance
  <2>2. d = IF k < Published THEN (k - Published) + Ring ELSE k - Published
    <3>1. k - Published \in Int /\ k - Published < Ring /\ -Ring <= k - Published
      BY <1>1, <1>2
    <3>2. d = IF k - Published < 0 THEN (k - Published) + Ring ELSE k - Published
      BY Zenon, <3>1, Powers, SmallMod
    <3> QED
      BY <1>1, <3>2
  <2> HIDE DEF d
  <2>3. txBuf'[k % Ring] = IF d < c THEN todo[d + 1] ELSE txBuf[k % Ring]
    BY Zenon, <1>3, <2>1
  <2>4. CASE k < Published
    <3>1. ~(d < c)
      BY <1>1, <1>2, <2>2, <2>4
    <3>2. txBuf[k % Ring] = written[k + 1]
      BY <1>1, <1>3, <2>4 DEF TxInv, RingHolds
    <3> QED
      BY Zenon, <2>3, <3>1, <3>2
  <2>5. CASE k >= Published
    <3>1. d < c /\ d + 1 \in 1 .. Len(todo) /\ Published + (d + 1) = k + 1
      BY <1>1, <1>2, <2>2, <2>5
    <3>2. todo[d + 1] = written[k + 1]
      BY <3>1 DEF TxInv, TodoIsRest
    <3> QED
      BY Zenon, <2>3, <3>1, <3>2
  <2> QED
    BY <1>1, <2>4, <2>5
<1>9. TodoIsRest' /\ EndAfterWrites'
  BY Zenon, <1>3, <1>4 DEF TxInv, TodoIsRest, EndAfterWrites
<1> QED
  BY Zenon, <1>6, <1>7, <1>8, <1>9 DEF TxInv

(* write() publishes a chunk.                                               *)
LEMMA WritePublishKeeps == TxInv /\ WritePublish => TxInv'
<1> SUFFICES ASSUME TxInv, WritePublish PROVE TxInv'
  OBVIOUS
<1> DEFINE seg == Segment((Published + chunk) % W, Freed % W)
<1>1. /\ Len(written) \in Nat /\ Len(todo) \in Nat /\ Published \in Nat /\ Freed \in Nat
      /\ Freed <= Published /\ Ring \in Nat /\ chunk \in Nat /\ chunk <= Len(todo)
      /\ txInflight \in Nat /\ dmaLeft \in Nat /\ wired \in Nat
      /\ dmaLeft <= txInflight /\ Published + chunk <= Freed + Ring
      /\ Published + chunk \in Nat
  BY SMTT(30), Positions DEF TxInv, TxType, TxCounters
<1>2. txHead' = (Published + chunk) % W /\ txTail = Freed % W
  BY Zenon, <1>1, CounterAdd DEF TxInv, TxCounters, WritePublish
<1>3. /\ todo' \in Seq(Byte) /\ Len(todo') = Len(todo) - chunk
      /\ \A i \in 1 .. Len(todo) - chunk : todo'[i] = todo[chunk + i]
  <2>1. todo \in Seq(Byte) /\ todo' = SubSeq(todo, chunk + 1, Len(todo))
    BY Zenon DEF TxInv, TxType, WritePublish
  <2> QED
    BY Zenon, <1>1, <2>1, Rest
<1>4. /\ chunk' = 0 /\ UNCHANGED <<txBuf, txTail, sender, written, wired>>
      /\ IF txInflight = 0
         THEN txInflight' = seg /\ dmaLeft' = seg
         ELSE txInflight' = txInflight /\ dmaLeft' = dmaLeft
  BY Zenon, <1>2 DEF WritePublish
<1>5. seg \in Nat /\ seg <= (Published + chunk) - Freed /\ (seg = 0 => Published + chunk = Freed)
  BY <1>1, SegmentExact
<1> HIDE DEF seg
<1>6. Published' = Published + chunk /\ Freed' = Freed
  <2>1. Published' = Published + chunk
    BY <1>1, <1>3, <1>4 DEF Published
  <2>2. CASE txInflight = 0
    BY <1>1, <1>4, <1>5, <2>1, <2>2 DEF Freed
  <2>3. CASE txInflight # 0
    BY Zenon, <1>4, <2>1, <2>3 DEF Freed
  <2> QED
    BY Zenon, <2>1, <2>2, <2>3
<1>7. TxType'
  BY Zenon, <1>1, <1>3, <1>4, <1>5 DEF TxInv, TxType
<1>8. TxCounters'
  <2>1. wired' + dmaLeft' <= Published + chunk /\ dmaLeft' <= txInflight'
    BY <1>1, <1>4, <1>5 DEF Freed, TxInv, TxCounters
  <2>2. txInflight' = 0 => Published + chunk = Freed
    BY Zenon, <1>1, <1>4, <1>5
  <2> QED
    BY SMTT(30), <1>1, <1>2, <1>3, <1>4, <1>6, <2>1, <2>2 DEF TxCounters
<1>9. TodoIsRest'
  <2> SUFFICES ASSUME NEW k \in 1 .. Len(todo) - chunk
               PROVE  todo[chunk + k] = written[(Published + chunk) + k]
    BY Zenon, <1>3, <1>4, <1>6 DEF TodoIsRest
  <2>1. chunk + k \in 1 .. Len(todo) /\ Published + (chunk + k) = (Published + chunk) + k
    BY <1>1
  <2> QED
    BY Zenon, <2>1 DEF TxInv, TodoIsRest
<1>10. RingHolds'
  BY <1>1, <1>4, <1>6 DEF TxInv, RingHolds
<1>11. EndAfterWrites'
  <2>1. todo # <<>>
    BY <1>1, Length DEF WritePublish, TxInv, TxType
  <2> QED
    BY Zenon, <1>4, <2>1 DEF TxInv, EndAfterWrites
<1> QED
  BY Zenon, <1>7, <1>8, <1>9, <1>10, <1>11 DEF TxInv

(* A byte leaves.                                                           *)
LEMMA DmaSendKeeps == TxInv /\ DmaSend => TxInv'
<1> SUFFICES ASSUME TxInv, DmaSend PROVE TxInv'
  OBVIOUS
<1>1. /\ txInflight \in Nat /\ dmaLeft \in Nat /\ wired \in Nat /\ dmaLeft > 0
      /\ dmaLeft' = dmaLeft - 1 /\ wired' = wired + 1
      /\ UNCHANGED <<txBuf, txHead, txTail, txInflight, todo, chunk, sender, written>>
  BY Zenon DEF TxInv, TxType, DmaSend
<1>2. Freed' = Freed /\ Published' = Published
  BY <1>1 DEF Freed, Published
<1>3. TxType'
  BY <1>1 DEF TxInv, TxType
<1>4. TxCounters'
  BY <1>1, <1>2, Positions DEF TxInv, TxCounters
<1>5. TodoIsRest' /\ RingHolds' /\ EndAfterWrites'
  BY Zenon, <1>1, <1>2 DEF TxInv, TodoIsRest, RingHolds, EndAfterWrites
<1> QED
  BY Zenon, <1>3, <1>4, <1>5 DEF TxInv

(* The interrupt frees a segment and starts the next.                       *)
LEMMA TxIrqKeeps == TxInv /\ TxIrq => TxInv'
<1> SUFFICES ASSUME TxInv, TxIrq PROVE TxInv'
  OBVIOUS
<1> DEFINE seg == Segment(Published % W, wired % W)
<1>1. /\ Published \in Nat /\ Freed \in Nat /\ Freed <= Published /\ Ring \in Nat
      /\ Published - Freed <= Ring /\ txInflight \in Nat /\ wired \in Nat /\ dmaLeft = 0
      /\ Freed + txInflight = wired /\ wired <= Published
      /\ Published + chunk <= Freed + Ring /\ chunk \in Nat
  BY Positions DEF TxInv, TxType, TxCounters, TxIrq, Freed
<1>2. (txTail + txInflight) % W = wired % W /\ txHead = Published % W
  BY Zenon, <1>1, CounterAdd DEF TxInv, TxCounters
<1>3. /\ txTail' = wired % W /\ txInflight' = seg /\ dmaLeft' = seg
      /\ UNCHANGED <<txBuf, txHead, todo, chunk, sender, written, wired>>
  BY Zenon, <1>2 DEF TxIrq
<1>4. seg \in Nat /\ seg <= Published - wired /\ (seg = 0 => Published = wired)
  BY <1>1, SegmentExact
<1> HIDE DEF seg
<1>5. Published' = Published /\ Freed' = wired
  BY <1>1, <1>3, <1>4 DEF Published, Freed
<1>6. TxType'
  BY Zenon, <1>3, <1>4 DEF TxInv, TxType
<1>7. TxCounters'
  BY SMTT(30), <1>1, <1>2, <1>3, <1>4, <1>5 DEF TxInv, TxCounters
<1>8. TodoIsRest' /\ EndAfterWrites'
  BY <1>1, <1>3, <1>5 DEF TxInv, TodoIsRest, EndAfterWrites
<1>9. RingHolds'
  <2> SUFFICES ASSUME NEW k \in Nat, wired <= k, k < Published + chunk
               PROVE  txBuf[k % Ring] = written[k + 1]
    BY Zenon, <1>3, <1>5 DEF RingHolds
  <2>1. Freed <= k
    BY <1>1
  <2> QED
    BY Zenon, <2>1 DEF TxInv, RingHolds
<1> QED
  BY Zenon, <1>6, <1>7, <1>8, <1>9 DEF TxInv

(* end().                                                                   *)
LEMMA EndKeeps == TxInv /\ (EndSender \/ CloseSender) => TxInv'
<1> SUFFICES ASSUME TxInv, EndSender \/ CloseSender PROVE TxInv'
  BY Zenon
<1>1. UNCHANGED <<txBuf, txHead, txTail, txInflight, dmaLeft, todo, chunk, written, wired>>
  BY Zenon DEF EndSender, CloseSender
<1>2. (TxType /\ TxCounters /\ TodoIsRest /\ RingHolds)'
  BY Zenon, <1>1 DEF TxInv, TxType, TxCounters, TodoIsRest, RingHolds, Published, Freed
<1>3. txHead = txTail => Published = Freed
  <2>1. ((Published % W) - (Freed % W)) % W = Published - Freed
    BY Zenon, Positions, CounterDistance
  <2>2. txHead = txTail => (Published % W) - (Freed % W) = 0
    BY Positions, Counter DEF TxInv, TxCounters
  <2>3. 0 % W = 0
    BY SmallMod, Powers DEF Positive
  <2> QED
    BY <2>1, <2>2, <2>3, Positions
<1>4. EndAfterWrites'
  BY Zenon, <1>1, <1>3 DEF TxInv, EndAfterWrites, EndSender, CloseSender, Flushed, Published, Freed
<1> QED
  BY Zenon, <1>2, <1>4 DEF TxInv

(* The invariant of the sending end holds at the start.                     *)
LEMMA TxInitHolds == (\E b \in Byte : TxInit(b)) => TxInv
<1> SUFFICES ASSUME NEW b \in Byte, TxInit(b) PROVE TxInv
  BY Zenon
<1>1. Len(<<>>) = 0 /\ <<>> \in Seq(Byte)
  OBVIOUS
<1>2. Published = 0 /\ Freed = 0 /\ chunk = 0 /\ Len(todo) = 0
  BY <1>1 DEF TxInit, Published, Freed
<1>3. 0 % W = 0 /\ Ring \in Nat
  BY SmallMod, Powers DEF Positive
<1>4. TxType
  BY Zenon, <1>1 DEF TxInit, TxType
<1>5. TxCounters
  BY <1>2, <1>3 DEF TxInit, TxCounters
<1>6. TodoIsRest /\ RingHolds /\ EndAfterWrites
  BY <1>2 DEF TxInit, TodoIsRest, RingHolds, EndAfterWrites
<1> QED
  BY Zenon, <1>4, <1>5, <1>6 DEF TxInv

(* What the invariant says of the byte that the channel sends next.         *)
LEMMA TxInvImplies == TxInv => SendsWhatWasWritten
<1> SUFFICES ASSUME TxInv PROVE SendsWhatWasWritten
  BY Zenon
<1>1. /\ Published \in Nat /\ Freed \in Nat /\ Freed <= Published
      /\ txInflight \in Nat /\ dmaLeft \in Nat /\ wired \in Nat /\ chunk \in Nat
      /\ dmaLeft <= txInflight /\ wired + dmaLeft <= Published
      /\ Freed + (txInflight - dmaLeft) = wired
  BY Positions DEF TxInv, TxType, TxCounters, Freed
<1>2. ASSUME dmaLeft > 0 PROVE NextByte = written[wired + 1]
  <2>1. (txTail + txInflight - dmaLeft) % Ring = wired % Ring
    <3> DEFINE n == txInflight - dmaLeft
    <3>1. n \in Int /\ Freed \in Int /\ Freed + n = wired
      BY <1>1
    <3>2. txTail \in Int /\ Cong(txTail, Freed, Ring)
      BY <1>1, Counter, CongDivisor, Powers DEF TxInv, TxCounters
    <3> HIDE DEF n
    <3>3. Cong(txTail + n, Freed + n, Ring)
      BY Zenon, <3>1, <3>2, CongRefl, CongAdd, Powers
    <3>4. (txTail + n) % Ring = wired % Ring
      BY <3>1, <3>2, <3>3, CongMod, Powers
    <3>5. txTail + txInflight - dmaLeft = txTail + n
      BY Zenon, <1>1, <3>2 DEF n
    <3> QED
      BY Zenon, <3>4, <3>5
  <2>2. Freed <= wired /\ wired < Published + chunk
    BY <1>1, <1>2
  <2> QED
    BY Zenon, <1>1, <2>1, <2>2 DEF NextByte, TxInv, RingHolds
<1>3. ASSUME sender = "closed" PROVE wired = Len(written)
  <2>1. Published = Freed /\ Len(todo) = 0 /\ Len(written) \in Nat
    BY Zenon, <1>3, Positions, Length DEF TxInv, TxType, EndAfterWrites
  <2> QED
    BY <1>1, <2>1 DEF Published
<1>4. txInflight = 0 => Flushed
  BY Zenon DEF TxInv, TxCounters, Flushed
<1> QED
  BY Zenon, <1>2, <1>3, <1>4 DEF SendsWhatWasWritten

(* No step of the transmitting side breaks its invariant.                   *)
LEMMA TxInvariant == TxInv /\ [TxNext]_txVars => TxInv'
BY Zenon, WriteKeeps, WriteCopyKeeps, WritePublishKeeps, DmaSendKeeps, TxIrqKeeps,
   EndKeeps, TxStutter DEF TxNext

(* Whatever write() is given, wherever the interrupt comes, and however     *)
(* often the ring and the counters wrap around, the channel sends the bytes *)
(* in order, and end() stops it after the last one.                         *)
THEOREM SendingIsExact == TxSpec => []SendsWhatWasWritten
<1>1. (\E b \in Byte : TxInit(b)) => TxInv
  BY Zenon, TxInitHolds
<1>2. TxInv /\ [TxNext]_txVars => TxInv'
  BY Zenon, TxInvariant
<1>3. TxInv => SendsWhatWasWritten
  BY Zenon, TxInvImplies
<1> QED
  BY <1>1, <1>2, <1>3, PTL DEF TxSpec
-----------------------------------------------------------------------------
(* The receiving side.                                                      *)

(* A value and its remainder.                                               *)
LEMMA Remainder ==
  ASSUME NEW m \in Positive, NEW x \in Int
  PROVE  x % m \in Nat /\ Cong(x % m, x, m)
<1>1. x % m \in 0 .. m - 1 /\ Cong(x, x % m, m)
  BY Zenon, ModCong
<1>2. x % m \in Nat
  BY <1>1 DEF Positive
<1> QED
  BY <1>1, <1>2, CongSym

(* produced(), up to a multiple of W.                                       *)
LEMMA ProducedCong ==
  RxInv => /\ rxBase + Count - remaining \in Int
           /\ Produced \in Nat /\ Cong(Produced, arrived, W)
<1> SUFFICES ASSUME RxInv
             PROVE  /\ rxBase + Count - remaining \in Int
                    /\ Produced \in Nat /\ Cong(Produced, arrived, W)
  BY Zenon
<1> DEFINE x == rxBase + Count - remaining
<1>1. x \in Int /\ arrived \in Int /\ Cong(x, arrived, W)
  BY Powers DEF RxInv
<1>2. Produced = x % W
  BY Zenon DEF Produced
<1> HIDE DEF x
<1>3. x % W \in Nat /\ Cong(x % W, x, W)
  BY Zenon, <1>1, Remainder, Powers
<1>4. Cong(x % W, arrived, W)
  BY <1>1, <1>3, CongTrans, Powers
<1> QED
  BY Zenon, <1>1, <1>2, <1>3, <1>4 DEF x

(* A byte arrives.                                                          *)
LEMMA DmaReceiveKeeps ==
  ASSUME RxInv, NEW b, DmaReceive(b)
  PROVE  RxInv'
<1>1. /\ arrived \in Nat /\ remaining \in Nat /\ remaining > 0 /\ rxBase \in Nat
      /\ since \in Nat /\ Count \in Nat /\ Ring \in Nat
      /\ arrived' = arrived + 1 /\ remaining' = remaining - 1
      /\ since' = IF rd = "idle" THEN 0 ELSE since + 1
      /\ rxBase' = rxBase /\ rd' = rd /\ estimate' = estimate
      /\ rd = "renew" => 2 * (since + 1) < Ring
  BY Zenon, Powers DEF RxInv, DmaReceive, Timely, Positive
<1>2. Cong(rxBase' + Count - remaining', arrived', W)
  <2>1. (rxBase + Count - (remaining - 1)) - (arrived + 1) = (rxBase + Count - remaining) - arrived
    BY <1>1
  <2> QED
    BY Zenon, <1>1, <2>1 DEF RxInv, Cong
<1>3. ASSUME rd = "renew"
      PROVE  /\ estimate' \in Nat /\ 2 * since' < Ring
             /\ \E lag \in 0 .. 1 : Cong(estimate', arrived' - since' + lag, W)
  <2>1. arrived' - since' = arrived - since
    BY <1>1, <1>3
  <2> QED
    BY Zenon, <1>1, <1>3, <2>1 DEF RxInv
<1> QED
  BY <1>1, <1>2, <1>3 DEF RxInv

(* produced() reads the count again.                                        *)
LEMMA RenewKeeps == RxInv /\ Renew => RxInv'
<1> SUFFICES ASSUME RxInv, Renew PROVE RxInv'
  OBVIOUS
<1> PICK lag \in 0 .. 1 : estimate' = (Produced + lag) % W
  BY Zenon DEF Renew
<1>1. /\ arrived \in Nat /\ since = 0 /\ rd' = "renew"
      /\ UNCHANGED <<arrived, remaining, rxBase, since>>
  BY Zenon DEF RxInv, Renew
<1>2. Produced \in Int /\ Cong(Produced, arrived, W) /\ lag \in Int /\ arrived \in Int
  BY <1>1, ProducedCong
<1>3. Cong(Produced + lag, arrived + lag, W)
  BY Zenon, <1>2, CongRefl, CongAdd, Powers
<1>4. Produced + lag \in Int /\ arrived + lag \in Int
  BY <1>2
<1>5. estimate' \in Nat /\ Cong(estimate', Produced + lag, W)
  BY Zenon, <1>4, Remainder, Powers
<1>6. Cong(estimate', arrived + lag, W)
  BY <1>3, <1>4, <1>5, CongTrans, Powers
<1>7. arrived' - since' + lag = arrived + lag
  BY <1>1
<1>8. 2 * since' < Ring
  BY <1>1, Powers DEF Positive
<1> QED
  BY Zenon, <1>1, <1>5, <1>6, <1>7, <1>8 DEF RxInv

(* The correction by the write address is what arrived since, less the byte *)
(* that was counted before it was written.                                  *)
LEMMA AdvanceExact ==
  ASSUME RxInv, rd = "renew"
  PROVE  /\ Advance(WriteAddr) \in Int
         /\ Cong(estimate + Advance(WriteAddr), arrived, W)
<1>1. /\ estimate \in Int /\ since \in Nat /\ arrived \in Int /\ Ring \in Nat /\ Ring > 2
      /\ 2 * since < Ring
  BY Powers DEF RxInv, Positive
<1> PICK lag \in 0 .. 1 : Cong(estimate, arrived - since + lag, W)
  BY Zenon DEF RxInv
<1> DEFINE d == since - lag
           o == arrived % Ring
<1>2. d \in Int /\ d < Ring /\ -Ring <= d
  BY <1>1
<1>3. arrived - since + lag \in Int /\ (arrived - since + lag) + d = arrived
  BY <1>1
<1>4. o \in Int /\ Cong(o, arrived, Ring)
  BY <1>1, Remainder, Powers
<1>5. Cong(estimate, arrived - since + lag, Ring)
  BY Zenon, <1>1, <1>3, CongDivisor, Powers
<1>6. arrived - (arrived - since + lag) = d
  BY <1>1
<1> HIDE DEF d, o
<1>7. Cong(o - estimate, d, Ring)
  <2>1. Cong(o - estimate, arrived - (arrived - since + lag), Ring)
    BY Zenon, <1>1, <1>3, <1>4, <1>5, CongSub, Powers
  <2> QED
    BY Zenon, <1>6, <2>1
<1>8. (o - estimate) % Ring = IF d < 0 THEN d + Ring ELSE d
  <2>1. o - estimate \in Int
    BY <1>1, <1>4
  <2>2. (o - estimate) % Ring = d % Ring
    BY Zenon, <1>2, <1>7, <2>1, CongMod, Powers
  <2> QED
    BY Zenon, <1>2, <2>2, SmallMod, Powers
<1>9. Advance(WriteAddr) = d
  <2>1. Advance(WriteAddr) = LET a == (o - estimate) % Ring IN IF 2 * a > Ring THEN a - Ring ELSE a
    BY Zenon DEF Advance, WriteAddr, o
  <2>2. CASE d < 0
    <3>1. d = -1
      BY <1>1, <2>2 DEF d
    <3> QED
      BY <1>1, <1>8, <2>1, <3>1
  <2>3. CASE d >= 0
    <3>1. 2 * d <= Ring
      BY <1>1, <2>3 DEF d
    <3> QED
      BY <1>1, <1>2, <1>8, <2>1, <2>3, <3>1
  <2> QED
    BY <1>2, <2>2, <2>3
<1>10. Cong(estimate + d, arrived, W)
  <2>1. Cong(estimate + d, (arrived - since + lag) + d, W)
    BY Zenon, <1>1, <1>2, <1>3, CongRefl, CongAdd, Powers
  <2> QED
    BY Zenon, <1>3, <2>1
<1> QED
  BY Zenon, <1>2, <1>9, <1>10

(* The channel is set going again.                                          *)
LEMMA RestartKeeps == RxInv /\ Restart => RxInv'
<1> SUFFICES ASSUME RxInv, Restart PROVE RxInv'
  OBVIOUS
<1> DEFINE e == estimate + Advance(WriteAddr)
<1>1. /\ arrived \in Nat /\ estimate \in Int /\ rd = "renew"
      /\ rxBase' = e % W /\ remaining' = Count /\ arrived' = arrived
      /\ since' = 0 /\ rd' = "idle"
  BY DEF RxInv, Restart
<1>2. e \in Int /\ Cong(e, arrived, W)
  BY <1>1, AdvanceExact
<1> HIDE DEF e
<1>3. rxBase' \in Nat /\ Cong(rxBase', e, W)
  BY Zenon, <1>1, <1>2, Remainder, Powers
<1>4. Cong(rxBase', arrived, W)
  BY <1>1, <1>2, <1>3, CongTrans, Powers
<1>5. rxBase' + Count - remaining' = rxBase' /\ Count \in Nat
  BY <1>1, <1>3, Powers
<1> QED
  BY Zenon, <1>1, <1>3, <1>4, <1>5 DEF RxInv

(* However often the transfer count is renewed while bytes arrive, the      *)
(* receive thread knows how many have arrived: no byte is handed on twice   *)
(* or passed over because of it.                                            *)
THEOREM ReceivingIsExact == RxSpec => []ProducedExact
<1>1. (\E b \in Byte : RxInit(b)) => RxInv
  <2>1. Count + 0 - Count = 0 /\ 0 + Count - Count = 0 /\ Cong(0, 0, W)
    BY Powers, CongRefl
  <2> QED
    BY <2>1, Powers DEF RxInit, RxInv
<1>2. RxInv /\ [RxNext]_rxVars => RxInv'
  <2>1. RxInv /\ (Sample \/ Copy \/ Copied \/ UNCHANGED rxVars) => RxInv'
    BY DEF RxInv, Sample, Copy, Copied, rxVars
  <2> QED
    BY Zenon, <2>1, DmaReceiveKeeps, RenewKeeps, RestartKeeps DEF RxNext
<1>3. RxInv => ProducedExact
  <2> SUFFICES ASSUME RxInv PROVE Produced = arrived % W
    BY Zenon DEF ProducedExact
  <2> DEFINE x == rxBase + Count - remaining
  <2>1. x \in Int /\ arrived \in Int /\ Cong(x, arrived, W) /\ Produced = x % W
    BY ProducedCong DEF RxInv, Produced
  <2> HIDE DEF x
  <2> QED
    BY Zenon, <2>1, CongMod, Powers
<1> QED
  BY <1>1, <1>2, <1>3, PTL DEF RxSpec

(***************************************************************************)
(* The two ends of the line.                                               *)
(***************************************************************************)
(* Packets are numbered, and the ring of the sending end is in order.       *)
PathInv == sent \in Nat /\ TxInv

(* The channel sends a byte.                                                *)
LEMMA NextByteType == PathInv => NextByte \in Byte
<1> SUFFICES ASSUME PathInv PROVE NextByte \in Byte
  BY Zenon
<1> DEFINE i == txTail + txInflight - dmaLeft
<1>1. txTail \in Int /\ txInflight \in Int /\ dmaLeft \in Int
  BY Positions, Counter DEF PathInv, TxInv, TxType, TxCounters
<1>2. i \in Int
  BY <1>1
<1>3. txBuf \in [0 .. Ring - 1 -> Byte] /\ NextByte = txBuf[i % Ring]
  BY Zenon DEF PathInv, TxInv, TxType, NextByte
<1> HIDE DEF i
<1>4. i % Ring \in 0 .. Ring - 1
  BY Zenon, <1>2, Slot
<1> QED
  BY Zenon, <1>3, <1>4

(* A step of the path is a step of the sending end, or none ...             *)
LEMMA TxSteps == PathInv /\ [Next]_vars => [TxNext]_txVars /\ PathInv'
<1> SUFFICES ASSUME PathInv, [Next]_vars PROVE [TxNext]_txVars /\ PathInv'
  BY Zenon
<1>1. ASSUME SendPacket PROVE TxNext /\ sent' \in Nat
  <2>1. \A size \in Sizes : Frame(sent + 1, size) \in Seq(Byte)
    BY <1>1, SerialPathAssumption DEF PathInv, SendPacket
  <2> QED
    BY <1>1, <2>1 DEF SendPacket, TxNext, PathInv
<1>2. ASSUME TxStep \/ End PROVE TxNext /\ sent' \in Nat
  BY Zenon, <1>2 DEF TxStep, End, TxNext, path, PathInv
<1>3. ASSUME Arrive \/ Damage \/ Lose PROVE TxNext /\ sent' \in Nat
  BY Zenon, <1>3 DEF Arrive, Damage, Lose, TxNext, path, PathInv
<1>4. ASSUME Invent \/ RxStep \/ TryReceive \/ UNCHANGED vars
      PROVE  UNCHANGED txVars /\ sent' \in Nat
  BY Zenon, <1>4 DEF Invent, RxStep, TryReceive, vars, path, PathInv
<1>5. [TxNext]_txVars /\ sent' \in Nat
  BY Zenon, <1>1, <1>2, <1>3, <1>4 DEF Next
<1>6. TxInv'
  BY Zenon, <1>5, TxInvariant DEF PathInv
<1> QED
  BY Zenon, <1>5, <1>6 DEF PathInv

(* ... and of the receiving end, or none.                                   *)
LEMMA RxSteps == PathInv /\ [Next]_vars => [RxNext]_rxVars
<1> SUFFICES ASSUME PathInv, [Next]_vars PROVE [RxNext]_rxVars
  BY Zenon
<1>1. ASSUME Arrive PROVE RxNext
  BY Zenon, <1>1, NextByteType DEF Arrive, RxNext
<1>2. ASSUME Damage \/ Invent PROVE RxNext
  BY Zenon, <1>2, SerialPathAssumption DEF Damage, Invent, RxNext
<1>3. ASSUME RxStep \/ TryReceive PROVE RxNext
  BY Zenon, <1>3 DEF RxStep, TryReceive, RxNext
<1>4. ASSUME SendPacket \/ TxStep \/ Lose \/ End \/ UNCHANGED vars PROVE UNCHANGED rxVars
  BY Zenon, <1>4 DEF SendPacket, TxStep, Lose, End, vars
<1> QED
  BY Zenon, <1>1, <1>2, <1>3, <1>4 DEF Next

(* Over a line that loses, damages and invents bytes, the channel of the    *)
(* sending end sends what its write() was given, and the receive thread of  *)
(* the other knows how much has arrived.                                    *)
THEOREM RingsOfThePath == Spec => []SendsWhatWasWritten /\ []ProducedExact
<1>1. Init => PathInv /\ (\E b \in Byte : TxInit(b)) /\ (\E b \in Byte : RxInit(b))
  <2>1. Init => (\E b \in Byte : TxInit(b)) /\ (\E b \in Byte : RxInit(b)) /\ sent = 0
    BY Zenon, SerialPathAssumption DEF Init
  <2> QED
    BY <2>1, TxInitHolds DEF PathInv
<1>2. PathInv /\ [Next]_vars => [TxNext]_txVars /\ [RxNext]_rxVars /\ PathInv'
  BY Zenon, TxSteps, RxSteps
<1>3. Spec => TxSpec /\ RxSpec
  BY <1>1, <1>2, PTL DEF Spec, TxSpec, RxSpec
<1> QED
  BY <1>3, SendingIsExact, ReceivingIsExact, PTL

-----------------------------------------------------------------------------
(***************************************************************************)
(* The sender thread, for any number of threads and any amount of work.    *)
(***************************************************************************)
Exchanging == \E t \in Thread : pc[t] = "exchange"
Locking == \E t \in Thread : pc[t] = "lock"

(* The mutex is held by the sender between its test and its sleep.          *)
MutexHeld == mutex <=> spc \in {"test", "unready", "clear"}

(* What was queued since trySend() found nothing has set the flag, or is    *)
(* about to.                                                                *)
WorkIsFlagged ==
  spc \in {"await", "test", "unready", "asleep"} /\ work > 0 => flag \/ Exchanging

(* So has end(), once the loop has read active_.                            *)
EndIsFlagged ==
  spc \in {"send", "await", "test", "unready", "asleep"} /\ ~active
    => flag \/ Exchanging

(* Whoever has set the flag after the test has yet to notify; it cannot do  *)
(* so before the sender sleeps.                                             *)
FlagIsNotified ==
  /\ spc = "unready" /\ flag => Locking
  /\ spc = "asleep" /\ flag /\ ~signalled => Locking

(* The thread that calls end() has not done so yet.                         *)
EndPending == active => pc[Ender] = "out"

IInv == TypeOK /\ EndPending /\ MutexHeld /\ WorkIsFlagged /\ EndIsFlagged /\ FlagIsNotified

(* The invariant holds initially.                                           *)
LEMMA InitIInv == LoopInit => IInv
<1> SUFFICES ASSUME LoopInit PROVE IInv
    BY Zenon
<1>1. work \in 0 .. MaxWork
  BY SendLoopAssumption DEF LoopInit
<1>2. TypeOK /\ EndPending
  BY Zenon, <1>1 DEF LoopInit, TypeOK, EndPending, Thread
<1> QED
  BY Zenon, <1>2 DEF LoopInit, IInv, EndPending, MutexHeld, WorkIsFlagged, EndIsFlagged,
     FlagIsNotified

(* It is preserved by every step of a notifying thread ...                  *)
LEMMA ThreadIInv ==
  ASSUME IInv, NEW t \in Thread, Queue(t) \/ Exchange(t) \/ NotifyOne(t)
  PROVE  IInv'
<1> USE DEF IInv, TypeOK, EndPending, MutexHeld, WorkIsFlagged, EndIsFlagged, FlagIsNotified,
            Exchanging, Locking
<1>1. CASE Queue(t)
  <2>1. /\ pc'[t] = "exchange" /\ spc' = spc /\ flag' = flag /\ signalled' = signalled
        /\ active' = active /\ mutex' = mutex /\ work' \in 0 .. MaxWork
    BY <1>1, SendLoopAssumption DEF Queue
  <2>2. \A u \in Thread : pc[u] = "lock" => pc'[u] = "lock"
    BY Zenon, <1>1 DEF Queue
  <2>3. TypeOK'
    BY Zenon, <1>1, <2>1 DEF Queue
  <2>4. EndPending'
    BY <1>1, SendLoopAssumption DEF Queue
  <2> QED
    BY Zenon, <2>1, <2>2, <2>3, <2>4
<1>2. CASE Exchange(t)
  <2>1. /\ flag' = TRUE /\ spc' = spc /\ work' = work /\ active' = active
        /\ mutex' = mutex /\ signalled' = signalled
    BY Zenon, <1>2 DEF Exchange
  <2>2. TypeOK'
    BY Zenon, <1>2 DEF Exchange
  <2>3. ~flag => pc'[t] = "lock"
    BY Zenon, <1>2 DEF Exchange
  <2>4. \A u \in Thread : pc[u] = "lock" => pc'[u] = "lock"
    BY Zenon, <1>2 DEF Exchange
  <2>5. EndPending'
    BY <1>2 DEF Exchange
  <2> QED
    BY Zenon, <2>1, <2>2, <2>3, <2>4, <2>5
<1>3. CASE NotifyOne(t)
  <2>1. /\ ~mutex /\ mutex' = mutex /\ spc' = spc /\ work' = work
        /\ active' = active /\ flag' = flag
        /\ spc = "asleep" => signalled'
    BY Zenon, <1>3 DEF NotifyOne
  <2>2. TypeOK'
    BY Zenon, <1>3 DEF NotifyOne
  <2>3. \A u \in Thread : pc[u] = "exchange" => pc'[u] = "exchange"
    BY Zenon, <1>3 DEF NotifyOne
  <2>4. EndPending'
    BY <1>3 DEF NotifyOne
  <2> QED
    BY Zenon, <2>1, <2>2, <2>3, <2>4
<1> QED
  BY Zenon, <1>1, <1>2, <1>3

(* ... of end() ...                                                         *)
LEMMA DeactivateIInv ==
  ASSUME IInv, Deactivate
  PROVE  IInv'
<1> USE DEF IInv, TypeOK, EndPending, MutexHeld, WorkIsFlagged, EndIsFlagged, FlagIsNotified,
            Exchanging
<1>1. Ender \in Thread
  BY Zenon DEF Thread
<1>2. /\ pc'[Ender] = "exchange" /\ spc' = spc /\ flag' = flag /\ work' = work
      /\ mutex' = mutex /\ signalled' = signalled /\ active' = FALSE
  BY Zenon, <1>1 DEF Deactivate
<1>3. TypeOK'
  BY Zenon, <1>1, <1>2 DEF Deactivate
<1>4. Locking => Locking'
  BY Zenon, <1>1 DEF Deactivate, Locking
<1> QED
  BY Zenon, <1>1, <1>2, <1>3, <1>4

(* ... and of the sender thread.                                            *)
LEMMA SenderIInv ==
  ASSUME IInv, Sender \/ AwaitTimeout
  PROVE  IInv'
<1> USE DEF IInv, TypeOK, EndPending, MutexHeld, WorkIsFlagged, EndIsFlagged, FlagIsNotified
<1>0. pc' = pc /\ active' = active
  BY Zenon DEF Sender, LoopTest, TrySend, AwaitLock, AwaitTest, AwaitSleep, AwaitWake,
         AwaitTimeout, AwaitClear
<1>a. Exchanging' = Exchanging /\ Locking' = Locking
  BY Zenon, <1>0 DEF Exchanging, Locking
<1>1. CASE LoopTest
  BY <1>0, <1>a, <1>1 DEF LoopTest
<1>2. CASE TrySend
  <2>1. work' \in 0 .. MaxWork /\ (spc' = "await" => ~(work' > 0))
    BY <1>2, SendLoopAssumption DEF TrySend
  <2> QED
    BY <1>0, <1>a, <1>2, <2>1 DEF TrySend
<1>3. CASE AwaitLock
  BY <1>0, <1>a, <1>3 DEF AwaitLock
<1>4. CASE AwaitTest
  BY <1>0, <1>a, <1>4 DEF AwaitTest
<1>5. CASE AwaitSleep
  <2>1. TypeOK' /\ EndPending' /\ MutexHeld'
    <3>1. spc' \notin {"test", "unready", "clear"} /\ ~mutex'
      BY Zenon, <1>5 DEF AwaitSleep
    <3>2. flag' \in BOOLEAN /\ mutex' \in BOOLEAN /\ signalled' \in BOOLEAN
      BY <1>5, Zenon DEF AwaitSleep
    <3>3. work' = work /\ spc' \in {"loop", "asleep"}
      BY Zenon, <1>5 DEF AwaitSleep
    <3>4. TypeOK' /\ EndPending'
      BY Zenon, <1>0, <3>2, <3>3
    <3> QED
      BY Zenon, <3>1, <3>4
  <2>2. WorkIsFlagged' /\ EndIsFlagged' /\ FlagIsNotified'
    BY <1>0, <1>a, <1>5 DEF AwaitSleep
  <2> QED
    BY Zenon, <2>1, <2>2
<1>6. CASE AwaitWake
  BY <1>0, <1>a, <1>6 DEF AwaitWake
<1>7. CASE AwaitTimeout
  BY SMTT(30), <1>0, <1>a, <1>7 DEF AwaitTimeout
<1>8. CASE AwaitClear
  <2>1. TypeOK' /\ EndPending' /\ MutexHeld'
    <3>1. spc' \notin {"test", "unready", "clear"} /\ ~mutex'
      BY Zenon, <1>8 DEF AwaitClear
    <3>2. flag' \in BOOLEAN /\ mutex' \in BOOLEAN /\ signalled' \in BOOLEAN
      BY <1>8, Zenon DEF AwaitClear
    <3>3. work' = work /\ spc' \in {"loop", "asleep"}
      BY Zenon, <1>8 DEF AwaitClear
    <3>4. TypeOK' /\ EndPending'
      BY <1>0, <3>2, <3>3
    <3> QED
      BY <3>1, <3>4
  <2>2. WorkIsFlagged' /\ EndIsFlagged' /\ FlagIsNotified'
    BY Zenon, <1>0, <1>a, <1>8 DEF AwaitClear
  <2> QED
    BY <2>1, <2>2
<1> QED
  BY Zenon, <1>1, <1>2, <1>3, <1>4, <1>5, <1>6, <1>7, <1>8 DEF Sender

(* OutgoingDataReadyNotification loses no wake-up: a sender thread asleep   *)
(* with something to send, or after end(), has been notified or is about to *)
(* be, for every set of notifying threads.                                  *)
THEOREM WakeupSafety == LoopSpec => []NoLostWakeup
<1>1. LoopInit => IInv
  BY Zenon, InitIInv
<1>2. IInv /\ [LoopNext]_loopVars => IInv'
  <2> SUFFICES ASSUME IInv, [LoopNext]_loopVars PROVE IInv'
    OBVIOUS
  <2>1. CASE UNCHANGED loopVars
    BY Zenon, <2>1 DEF loopVars, IInv, TypeOK, EndPending, MutexHeld, WorkIsFlagged, EndIsFlagged,
                FlagIsNotified, Exchanging, Locking
  <2>2. CASE LoopNext
    BY Zenon, <2>2, ThreadIInv, DeactivateIInv, SenderIInv DEF LoopNext
  <2> QED
    BY Zenon, <2>1, <2>2
<1>3. IInv => NoLostWakeup
  BY Zenon DEF IInv, WorkIsFlagged, EndIsFlagged, FlagIsNotified, Exchanging, Locking,
         NoLostWakeup, Coming
<1> QED
  BY <1>1, <1>2, <1>3, PTL DEF LoopSpec
=============================================================================
