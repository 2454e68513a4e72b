----------------------------- MODULE RingBuffer ------------------------------
(***************************************************************************)
(* Class RingBuffer (link/internal/ring_buffer.h) over class SeqNum        *)
(* (seq_num.h): a window of sequence numbers that wrap around at 2^16, the *)
(* slots of a buffer of 2^k packets that hold them, and the reconstruction *)
(* of a number from the 12 bits of it that travel in a packet header.      *)
(*                                                                         *)
(* begin_ and end_ are the raw numbers of the code.  first and last are    *)
(* the positions they stand for, counted without wrapping around; the      *)
(* other modules work with such positions, and the properties below are    *)
(* what allows them to.                                                    *)
(***************************************************************************)
EXTENDS Integers

CONSTANTS SeqMod,    \* 2^16
          HeaderMod, \* 2^12
          Capacity,  \* 2^capacity_log2
          MaxPos     \* bound: positions

(* Each of the numbers is a power of two; DCHECK_GE(pos_bits,               *)
(* capacity_log2_ + 2) in restorePosHighBits bounds the capacity.           *)
ASSUME RingAssumption ==
  /\ SeqMod \in Nat /\ HeaderMod \in Nat \ {0} /\ Capacity \in Nat \ {0}
  /\ MaxPos \in Nat
  /\ HeaderMod % 2 = 0 /\ HeaderMod % Capacity = 0 /\ SeqMod % HeaderMod = 0
  /\ 4 * Capacity <= HeaderMod
  /\ 2 * HeaderMod <= SeqMod

VARIABLES begin_, end_,  \* the fields of the class
          first, last    \* the positions begin_ and end_ stand for

ringVars == <<begin_, end_, first, last>>

(* SeqNum: arithmetic is modulo 2^16, and a difference is read as a signed  *)
(* 16-bit number.                                                           *)
Raw(p) == p % SeqMod
(* Faulty: a difference is never negative.                                  *)
SignedBug(u) == u

Signed(u) == IF u < SeqMod \div 2 THEN u ELSE u - SeqMod
Diff(a, b) == Signed(Raw(a - b))
Less(a, b) == Diff(a, b) < 0
LessEq(a, b) == Diff(a, b) <= 0

slotsUsed == Raw(end_ - begin_)
slotsFree == Raw(Capacity - slotsUsed)
contains(seq) == LessEq(begin_, seq) /\ Less(seq, end_)
(* Faulty: a slot too few.                                                  *)
offset_forBug(seq) == seq % (Capacity - 1)

offset_for(seq) == seq % Capacity

(* Faulty: only numbers from the start of the window on.                    *)
restorePosHighBitsBug(truncated) == Raw(begin_ + (Raw(truncated - begin_) % HeaderMod))

restorePosHighBits(truncated) ==
  LET left == Raw(begin_ - HeaderMod \div 2)
  IN  Raw(left + (Raw(truncated - left) % HeaderMod))

RingInit ==
  /\ begin_ = 0 /\ end_ = 0
  /\ first = 0 /\ last = 0

push ==
  /\ slotsFree > 0
  /\ last < MaxPos
  /\ end_' = Raw(end_ + 1)
  /\ last' = last + 1
  /\ UNCHANGED <<begin_, first>>

pop ==
  /\ slotsUsed > 0
  /\ begin_' = Raw(begin_ + 1)
  /\ first' = first + 1
  /\ UNCHANGED <<end_, last>>

reset(seq) ==
  /\ begin_ = end_
  /\ begin_' = seq /\ end_' = seq
  /\ first' = seq /\ last' = seq

RingNext == push \/ pop \/ \E seq \in 0 .. SeqMod - 1 : reset(seq)

RingSpec == RingInit /\ [][RingNext]_ringVars
-----------------------------------------------------------------------------
(* The window never holds more than the buffer has slots, and the counts    *)
(* the code derives from the wrapped numbers are the true ones, also while  *)
(* end_ has wrapped around and begin_ has not.                              *)
SlotsExact ==
  /\ first <= last /\ last <= first + Capacity
  /\ slotsUsed = last - first
  /\ slotsFree = Capacity - (last - first)

(* contains() decides membership for every number that is less than half    *)
(* the range of SeqNum away from the window.                                *)
Reach == SeqMod \div 2 - Capacity

ContainsExact ==
  \A p \in first - Reach .. last + Reach - 1 :
    contains(Raw(p)) <=> first <= p /\ p < last

(* Two packets of the window never share a slot.                            *)
SlotsDistinct ==
  \A p, q \in first .. last - 1 :
    offset_for(Raw(p)) = offset_for(Raw(q)) => p = q

(* The header's bits determine every number from half their range below the *)
(* start of the window to half their range above it.                        *)
RestoreExact ==
  \A p \in first - HeaderMod \div 2 .. first + HeaderMod \div 2 - 1 :
    restorePosHighBits(Raw(p) % HeaderMod) = Raw(p)
=============================================================================
