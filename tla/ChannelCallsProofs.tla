------------------------- MODULE ChannelCallsProofs -------------------------
(***************************************************************************)
(* No thread that is blocked in a call of a channel waits for what has     *)
(* happened already, for any number of threads and any sizes of the rings. *)
(***************************************************************************)
EXTENDS ChannelCalls, TLAPS

(* What a slot of in_ring_ holds.                                           *)
Slot == {"unset", "data", "fin"}

(* The types the proofs need.                                               *)
CallsType ==
  /\ pc \in [Thread -> {"out", "has_space", "all_acked", "has_data"}]
  /\ DOMAIN mine = Thread
  /\ links \in Nat /\ my \in {0, links} /\ rxLink \in 0 .. links
  /\ used \in Nat /\ txState \in {"idle", "connecting", "connected", "broken"}
  /\ rxState \in {"idle", "connecting", "connected"}
  /\ ring \in Seq(Slot) /\ unack \in Int

(* A transmitter that has an end of stream to deliver has something in its  *)
(* ring; a receiver that is not yet connected has nothing in its own.       *)
TxFilled == txEos /\ txState \in {"connecting", "connected"} => used > 0

RxEmpty == rxState = "connecting" => ring = <<>>

(* u is the first position of the ring r that has not arrived.              *)
FirstMissing(u, r) ==
  /\ u \in 1 .. Len(r) + 1
  /\ \A j \in 1 .. u - 1 : r[j] # "unset"
  /\ u <= Len(r) => r[u] = "unset"

(* The receiver's link is one that is read from, or may be.                 *)
ReadFrom ==
  \/ inOpen /\ rxLink = links
  \/ \E t \in Thread : pc[t] = "has_data" /\ mine[t] = rxLink

(* unack_seq_ is the first position that has not arrived.  It need not be   *)
(* when the stream has been closed by its reader with packets missing.      *)
UnackExact == rxState = "connected" /\ ReadFrom => FirstMissing(unack, ring)

TxSide == TxFilled /\ ClosersWait
RxSide == RxEmpty /\ UnackExact /\ ReadersWait

(* The inductive invariant.                                                 *)
CallsInv == CallsType /\ TxSide /\ RxSide
-----------------------------------------------------------------------------
(* What Return(), Wait() and NotifyAll() change, thread by thread.          *)
LEMMA ReturnMoves ==
  ASSUME CallsType, NEW t \in Thread, Return(t)
  PROVE  /\ pc' \in [Thread -> {"out", "has_space", "all_acked", "has_data"}]
         /\ DOMAIN mine' = Thread
         /\ pc'[t] = "out"
         /\ \A s \in Thread : s # t => /\ pc'[s] = pc[s] /\ mine'[s] = mine[s]
                                       /\ s \in woken' <=> s \in woken
BY Zenon DEF CallsType, Return

(* A thread that waits is asleep.                                           *)
LEMMA WaitMoves ==
  ASSUME CallsType, NEW t \in Thread, NEW i,
         NEW condition \in {"has_space", "all_acked", "has_data"}, Wait(t, i, condition)
  PROVE  /\ pc' \in [Thread -> {"out", "has_space", "all_acked", "has_data"}]
         /\ DOMAIN mine' = Thread
         /\ pc'[t] = condition /\ mine'[t] = i /\ t \notin woken'
         /\ \A s \in Thread : s # t => /\ pc'[s] = pc[s] /\ mine'[s] = mine[s]
                                       /\ s \in woken' <=> s \in woken
BY Zenon DEF CallsType, Wait

(* The threads of a side whose calls are the same, or are woken.            *)
Kept(condition) ==
  \A s \in Thread :
    pc'[s] = condition =>
      pc[s] = condition /\ mine'[s] = mine[s] /\ (s \in woken => s \in woken')

(* A step that leaves the transmitter alone keeps its side.                 *)
LEMMA TxKept ==
  ASSUME TxSide, UNCHANGED txVars, Kept("all_acked")
  PROVE  TxSide'
<1>1. TxFilled'
  BY Zenon DEF TxSide, TxFilled, txVars
<1>2. ClosersWait'
  BY Zenon DEF TxSide, ClosersWait, Asleep, TxCheckConnectionStatus, txVars, Kept
<1> QED
  BY Zenon, <1>1, <1>2 DEF TxSide

(* A step that leaves the receiver alone, and makes its link not one to     *)
(* read from, keeps its side.                                               *)
LEMMA RxKept ==
  ASSUME RxSide, UNCHANGED rxVars, Kept("has_data"),
         inOpen' /\ rxLink = links' => inOpen /\ rxLink = links
  PROVE  RxSide'
<1>1. RxEmpty'
  BY Zenon DEF RxSide, RxEmpty, rxVars
<1>2. UnackExact'
  BY Zenon DEF RxSide, UnackExact, ReadFrom, FirstMissing, rxVars, Kept
<1>3. ReadersWait'
  BY Zenon DEF RxSide, ReadersWait, Asleep, RxCheckConnectionStatus, Readable, rxVars, Kept
<1> QED
  BY Zenon, <1>1, <1>2, <1>3 DEF RxSide

(* Threads that are not touched are kept, and so are ones that are only     *)
(* woken.                                                                   *)
LEMMA QuietKept ==
  ASSUME UNCHANGED threadVars
  PROVE  Kept("all_acked") /\ Kept("has_data")
BY Zenon DEF Kept, threadVars

(* A notification keeps every thread, and wakes the ones it is for.         *)
LEMMA NotifyKept ==
  ASSUME NEW conditions, NotifyAll(conditions)
  PROVE  /\ Kept("all_acked") /\ Kept("has_data") /\ pc' = pc /\ mine' = mine
         /\ \A s \in Thread, condition \in conditions : ~Asleep(s, condition)'
BY Zenon DEF NotifyAll, Kept, Asleep
-----------------------------------------------------------------------------
(* CallWrite preserves the invariant: it only adds to the ring.             *)
LEMMA CallWriteStep ==
  ASSUME CallsInv, NEW t \in Thread, CallWrite(t)
  PROVE  CallsInv'
<1>1. /\ UNCHANGED <<rxVars, my, links, inOpen, txState, txLink, txEos>>
      /\ pc[t] \in {"out", "has_space"}
      /\ \E i : WriteLoop(t, i)
  BY Zenon DEF CallWrite, Writing, Write, WriteAgain
<1>2. used' \in Nat /\ used' >= used
  BY <1>1 DEF WriteLoop, CallsInv, CallsType
<1>3. /\ pc' \in [Thread -> {"out", "has_space", "all_acked", "has_data"}]
      /\ DOMAIN mine' = Thread
      /\ pc'[t] \in {"out", "has_space"}
      /\ \A s \in Thread : s # t => /\ pc'[s] = pc[s] /\ mine'[s] = mine[s]
                                    /\ s \in woken' <=> s \in woken
  <2>1. CASE Return(t)
    BY Zenon, <2>1, ReturnMoves DEF CallsInv
  <2>2. CASE \E i : Wait(t, i, "has_space")
    BY Zenon, <2>2, WaitMoves DEF CallsInv
  <2> QED
    BY Zenon, <1>1, <2>1, <2>2 DEF WriteLoop
<1>4. Kept("has_data")
  BY Zenon, <1>3 DEF Kept
<1>5. CallsType'
  BY Zenon, <1>1, <1>2, <1>3 DEF CallsInv, CallsType, rxVars
<1>6. TxFilled'
  BY <1>1, <1>2 DEF CallsInv, CallsType, TxSide, TxFilled
<1>7. ClosersWait'
  <2> SUFFICES ASSUME NEW s \in Thread, Asleep(s, "all_acked")'
               PROVE  TxCheckConnectionStatus(mine[s])' /\ used' > 0
    BY Zenon DEF ClosersWait
  <2>1. s # t /\ Asleep(s, "all_acked") /\ mine'[s] = mine[s]
    BY Zenon, <1>3 DEF Asleep
  <2>2. TxCheckConnectionStatus(mine[s]) /\ used > 0
    BY Zenon, <2>1 DEF CallsInv, TxSide, ClosersWait
  <2> QED
    BY <1>1, <1>2, <2>1, <2>2 DEF TxCheckConnectionStatus, CallsInv, CallsType
<1>8. RxSide'
  BY Zenon, <1>1, <1>4, RxKept DEF CallsInv
<1> QED
  BY Zenon, <1>5, <1>6, <1>7, <1>8 DEF CallsInv, TxSide

(* CallClose preserves the invariant: a thread that waits for its packets   *)
(* has some to wait for.                                                    *)
LEMMA CallCloseStep ==
  ASSUME CallsInv, NEW t \in Thread, CallClose(t)
  PROVE  CallsInv'
<1>1. UNCHANGED <<rxVars, my, links, inOpen, txState, txLink>> /\ pc[t] # "has_data"
  BY Zenon DEF CallClose, channelVars, Close, CloseAgain, txVars
<1>2. /\ used' \in Nat /\ used' >= used
      /\ txEos' => txEos \/ used' > 0
      /\ \/ Return(t)
         \/ \E i : Wait(t, i, "all_acked") /\ TxCheckConnectionStatus(i) /\ used' > 0
  <2>1. CASE \E i : Close(t, i)
    <3>1. PICK i : Close(t, i)
      BY Zenon, <2>1
    <3>2. txEos => used > 0
      BY Zenon, <3>1 DEF Close, TxCheckConnectionStatus, CallsInv, TxSide, TxFilled
    <3>3. used' \in Nat /\ used' >= used /\ used' > 0
      BY <3>1, <3>2, ThreadSafeTransmitterAssumption DEF Close, CallsInv, CallsType
    <3> QED
      BY Zenon, <3>1, <3>3 DEF Close
  <2>2. CASE CloseAgain(t)
    BY <2>2 DEF CloseAgain, txVars, CallsInv, CallsType
  <2> QED
    BY Zenon, <2>1, <2>2 DEF CallClose
<1>3. /\ pc' \in [Thread -> {"out", "has_space", "all_acked", "has_data"}]
      /\ DOMAIN mine' = Thread
      /\ pc'[t] = "out" \/ (pc'[t] = "all_acked" /\ mine'[t] = txLink /\ used' > 0
                            /\ txState \in {"connecting", "connected"})
      /\ \A s \in Thread : s # t => /\ pc'[s] = pc[s] /\ mine'[s] = mine[s]
                                    /\ s \in woken' <=> s \in woken
  <2>1. CASE Return(t)
    BY Zenon, <2>1, ReturnMoves DEF CallsInv
  <2>2. CASE \E i : Wait(t, i, "all_acked") /\ TxCheckConnectionStatus(i) /\ used' > 0
    BY Zenon, <2>2, WaitMoves DEF CallsInv, TxCheckConnectionStatus
  <2> QED
    BY Zenon, <1>2, <2>1, <2>2
<1>4. Kept("has_data")
  BY Zenon, <1>3 DEF Kept
<1>5. CallsType'
  BY Zenon, <1>1, <1>2, <1>3 DEF CallsInv, CallsType, rxVars
<1>6. TxFilled'
  BY <1>1, <1>2 DEF CallsInv, CallsType, TxSide, TxFilled
<1>7. ClosersWait'
  <2> SUFFICES ASSUME NEW s \in Thread, Asleep(s, "all_acked")'
               PROVE  TxCheckConnectionStatus(mine[s])' /\ used' > 0
    BY DEF ClosersWait
  <2>1. CASE s = t
    BY Zenon, <1>1, <1>3, <2>1 DEF Asleep, TxCheckConnectionStatus
  <2>2. CASE s # t
    <3>1. Asleep(s, "all_acked") /\ mine'[s] = mine[s]
      BY Zenon, <1>3, <2>2 DEF Asleep
    <3>2. TxCheckConnectionStatus(mine[s]) /\ used > 0
      BY Zenon, <3>1 DEF CallsInv, TxSide, ClosersWait
    <3> QED
      BY <1>1, <1>2, <3>1, <3>2 DEF TxCheckConnectionStatus, CallsInv, CallsType
  <2> QED
    BY Zenon, <2>1, <2>2
<1>8. RxSide'
  BY Zenon, <1>1, <1>4, RxKept DEF CallsInv
<1> QED
  BY <1>5, <1>6, <1>7, <1>8 DEF CallsInv, TxSide
-----------------------------------------------------------------------------
(* Dropping the first n packets of a ring.                                  *)
LEMMA RingTail ==
  ASSUME NEW r \in Seq(Slot), NEW n \in 0 .. Len(r)
  PROVE  /\ SubSeq(r, n + 1, Len(r)) \in Seq(Slot)
         /\ Len(SubSeq(r, n + 1, Len(r))) = Len(r) - n
         /\ \A j \in 1 .. Len(r) - n : SubSeq(r, n + 1, Len(r))[j] = r[n + j]
OBVIOUS

(* When the first missing position is known, what is readable is what is    *)
(* before it, and reading some of it leaves the rest.                       *)
LEMMA FirstMissingRead ==
  ASSUME NEW r \in Seq(Slot), NEW u \in Int, NEW n \in ReadyIn(r),
         FirstMissing(u, r)
  PROVE  FirstMissing(u - n, SubSeq(r, n + 1, Len(r)))
<1>1. n \in 0 .. Len(r) /\ \A j \in 1 .. n : r[j] # "unset"
  BY Zenon DEF ReadyIn
<1>2. PICK q : q = SubSeq(r, n + 1, Len(r))
  BY Zenon
<1>3. /\ Len(q) = Len(r) - n
      /\ \A j \in 1 .. Len(r) - n : q[j] = r[n + j]
  BY Zenon, <1>1, <1>2, RingTail
<1>4. n < u
  BY <1>1 DEF FirstMissing
<1>5. \A j \in 1 .. u - n - 1 : q[j] # "unset"
  BY <1>1, <1>3, <1>4 DEF FirstMissing
<1>6. u - n <= Len(q) => q[u - n] = "unset"
  BY <1>1, <1>3, <1>4 DEF FirstMissing
<1>7. FirstMissing(u - n, q)
  BY <1>1, <1>3, <1>4, <1>5, <1>6 DEF FirstMissing
<1> QED
  BY Zenon, <1>2, <1>7

(* CallRead preserves the invariant: a reader that sleeps has nothing to    *)
(* read, and one that reads leaves no other asleep.                         *)
LEMMA CallReadStep ==
  ASSUME CallsInv, NEW t \in Thread, CallRead(t)
  PROVE  CallsInv'
<1>1. /\ UNCHANGED <<txVars, my, links, inOpen>>
      /\ pc[t] \in {"out", "has_data"}
  BY Zenon DEF CallRead, channelVars, Read, ReadAgain
<1>2. PICK i : /\ ReadLoop(t, i)
               /\ i = rxLink => ReadFrom
  BY DEF CallRead, Read, ReadAgain, ReadFrom
<1>3. CASE ~RxCheckConnectionStatus(i) /\ Return(t) /\ UNCHANGED rxVars
  <2>1. Kept("all_acked") /\ Kept("has_data")
    BY Zenon, <1>3, ReturnMoves DEF CallsInv, Kept
  <2>2. CallsType'
    BY Zenon, <1>1, <1>3, ReturnMoves DEF CallsInv, CallsType, rxVars, txVars
  <2> QED
    BY Zenon, <1>1, <1>3, <2>1, <2>2, TxKept, RxKept DEF CallsInv, rxVars
<1>4. CASE /\ RxCheckConnectionStatus(i) /\ ~Readable
           /\ Wait(t, i, "has_data") /\ UNCHANGED rxVars
  <2>1. /\ pc'[t] = "has_data" /\ mine'[t] = rxLink /\ t \notin woken'
        /\ rxState # "idle" /\ ~rxEos
        /\ \A s \in Thread : s # t => /\ pc'[s] = pc[s] /\ mine'[s] = mine[s]
                                      /\ s \in woken' <=> s \in woken
    BY Zenon, <1>4, WaitMoves DEF CallsInv, RxCheckConnectionStatus
  <2>2. CallsType'
    BY Zenon, <1>1, <1>4, WaitMoves DEF CallsInv, CallsType, rxVars, txVars
  <2>3. TxSide'
    BY Zenon, <1>1, <2>1, TxKept DEF CallsInv, Kept
  <2>4. ReadFrom
    BY Zenon, <1>2, <1>4 DEF RxCheckConnectionStatus
  <2>5. UnackExact' /\ RxEmpty'
    BY Zenon, <1>4, <2>4 DEF CallsInv, RxSide, UnackExact, FirstMissing, RxEmpty, rxVars
  <2>6. ReadersWait'
    <3> SUFFICES ASSUME NEW s \in Thread, Asleep(s, "has_data")'
                 PROVE  RxCheckConnectionStatus(mine[s])' /\ ~Readable'
      BY Zenon DEF ReadersWait
    <3>1. CASE s = t
      BY Zenon, <1>4, <2>1, <3>1 DEF RxCheckConnectionStatus, Readable, rxVars
    <3>2. CASE s # t
      <4>1. Asleep(s, "has_data") /\ mine'[s] = mine[s]
        BY Zenon, <2>1, <3>2 DEF Asleep
      <4> QED
        BY Zenon, <1>4, <4>1 DEF CallsInv, RxSide, ReadersWait, RxCheckConnectionStatus, Readable,
           rxVars
    <3> QED
      BY Zenon, <3>1, <3>2
  <2> QED
    BY Zenon, <2>2, <2>3, <2>5, <2>6 DEF CallsInv, RxSide
<1>5. CASE RxCheckConnectionStatus(i) /\ Return(t) /\ \E n \in 0 .. RingCap : TryRead(n)
  <2>1. PICK n \in 0 .. RingCap : TryRead(n)
    BY Zenon, <1>5
  <2>2. /\ n \in ReadyIn(ring) /\ Readable /\ rxState' = "connected" /\ rxState = "connected"
        /\ ring' = SubSeq(ring, n + 1, Len(ring)) /\ unack' = unack - n /\ rxLink' = rxLink
    BY Zenon, <2>1 DEF TryRead, Readable
  <2>3. Kept("all_acked") /\ Kept("has_data")
    BY Zenon, <1>5, ReturnMoves DEF CallsInv, Kept
  <2>4. n \in 0 .. Len(ring) /\ ring' \in Seq(Slot) /\ unack' \in Int
    BY <2>2, RingTail DEF CallsInv, CallsType, ReadyIn
  <2>5. CallsType'
    BY Zenon, <1>1, <1>5, <2>2, <2>4, ReturnMoves DEF CallsInv, CallsType, txVars
  <2>6. TxSide'
    BY Zenon, <1>1, <2>3, TxKept DEF CallsInv
  <2>7. ReadFrom
    BY Zenon, <1>2, <1>5 DEF RxCheckConnectionStatus
  <2>8. FirstMissing(unack, ring)
    BY Zenon, <2>2, <2>7 DEF CallsInv, RxSide, UnackExact
  <2>9. PICK u, r : u = unack' /\ r = ring'
    BY Zenon
  <2>10. FirstMissing(u, r)
    BY Zenon, <2>2, <2>8, <2>9, FirstMissingRead DEF CallsInv, CallsType
  <2>11. UnackExact' /\ RxEmpty'
    BY Zenon, <2>2, <2>9, <2>10 DEF UnackExact, FirstMissing, RxEmpty
  <2>12. ReadersWait'
    BY Zenon, <2>2, <2>3 DEF CallsInv, RxSide, ReadersWait, Kept, Asleep
  <2> QED
    BY Zenon, <2>5, <2>6, <2>11, <2>12 DEF CallsInv, RxSide
<1> QED
  BY Zenon, <1>2, <1>3, <1>4, <1>5 DEF ReadLoop

(* CloseInput preserves the invariant: nobody reads the link any longer.    *)
LEMMA CloseInputStep ==
  ASSUME CallsInv, CloseInput
  PROVE  CallsInv'
<1>1. /\ UNCHANGED <<txVars, my, links, threadVars, rxState, rxLink, rxEos>>
      /\ rxLink = links /\ ring' = <<>> /\ unack' = unack - Len(ring) /\ ~inOpen'
      /\ \A t \in Thread : pc[t] = "has_data" => mine[t] # links
  BY Zenon DEF CloseInput, MarkInputClosed, RxCheckConnectionStatus
<1>2. CallsType'
  BY <1>1 DEF CallsInv, CallsType, txVars, threadVars
<1>3. TxSide'
  BY Zenon, <1>1, QuietKept, TxKept DEF CallsInv
<1>4. RxEmpty'
  BY Zenon, <1>1 DEF RxEmpty
<1>5. UnackExact' /\ ReadersWait'
  BY Zenon, <1>1 DEF UnackExact, ReadFrom, ReadersWait, threadVars, CallsInv, RxSide, Asleep,
              RxCheckConnectionStatus
<1> QED
  BY Zenon, <1>2, <1>3, <1>4, <1>5 DEF CallsInv, RxSide
-----------------------------------------------------------------------------
(* What setBroken(), reset() and init() leave of the transmitter: nothing   *)
(* to wait for, and nobody that waits for it.                               *)
LEMMA TxEnded ==
  ASSUME CallsInv, TxSetBroken \/ TxReset \/ \E i : TxInitLink(i)
  PROVE  /\ TxSide' /\ used' \in Nat /\ pc' = pc /\ mine' = mine /\ Kept("has_data")
         /\ txState' \in {"idle", "connecting", "connected", "broken"}
<1>1. /\ used' = 0
      /\ txState' \in {"idle", "connecting", "connected", "broken"}
      /\ txState' = "broken" \/ txEos' = FALSE
      /\ \E conditions : "all_acked" \in conditions /\ NotifyAll(conditions)
  BY Zenon DEF TxSetBroken, TxReset, TxInitLink
<1>2. pc' = pc /\ mine' = mine /\ Kept("has_data") /\ \A s \in Thread : ~Asleep(s, "all_acked")'
  BY Zenon, <1>1, NotifyKept
<1>3. TxFilled' /\ ClosersWait'
  BY Zenon, <1>1, <1>2 DEF TxFilled, ClosersWait
<1> QED
  BY Zenon, <1>1, <1>2, <1>3 DEF TxSide

(* What setBroken(), reset() and init() leave of the receiver: nobody that  *)
(* waits for data, and a ring that is either empty or as it was.            *)
LEMMA RxEnded ==
  ASSUME CallsInv, RxSetBroken \/ RxReset \/ RxInitLink(my), UNCHANGED <<links, inOpen>>
  PROVE  /\ RxSide' /\ pc' = pc /\ mine' = mine /\ Kept("all_acked")
         /\ rxState' \in {"idle", "connecting", "connected"}
         /\ ring' \in Seq(Slot) /\ unack' \in Int /\ rxLink' \in 0 .. links
<1>1. /\ rxState' \in {"idle", "connecting", "connected"}
      /\ \/ ring' = <<>> /\ rxState' # "connected" /\ rxLink' \in {0, my}
         \/ /\ ring' = ring /\ unack' = unack /\ rxLink' = rxLink
            /\ rxState' = "idle" \/ (rxState' = rxState /\ ring # <<>>)
      /\ unack' = unack \/ unack' = unack - Len(ring)
      /\ NotifyAll({"has_data"})
  BY Zenon DEF RxSetBroken, RxReset, RxInitLink, CallsInv, CallsType
<1>2. /\ pc' = pc /\ mine' = mine /\ Kept("all_acked")
      /\ \A s \in Thread : ~Asleep(s, "has_data")'
  BY Zenon, <1>1, NotifyKept
<1>3. ReadersWait'
  BY Zenon, <1>2 DEF ReadersWait
<1>4. RxEmpty'
  BY Zenon, <1>1 DEF CallsInv, RxSide, RxEmpty
<1>5. UnackExact'
  <2> SUFFICES ASSUME rxState' = "connected", ReadFrom' PROVE FirstMissing(unack, ring)'
    BY Zenon DEF UnackExact
  <2>1. ring' = ring /\ unack' = unack /\ rxLink' = rxLink /\ rxState = "connected"
    BY Zenon, <1>1
  <2>2. ReadFrom
    BY Zenon, <1>2, <2>1 DEF ReadFrom
  <2> QED
    BY Zenon, <2>1, <2>2 DEF CallsInv, RxSide, UnackExact, FirstMissing
<1>6. ring' \in Seq(Slot)
  <2>1. CASE ring' = <<>>
    BY <2>1
  <2>2. CASE ring' = ring
    BY Zenon, <2>2 DEF CallsInv, CallsType
  <2> QED
    BY Zenon, <1>1, <2>1, <2>2
<1>7. unack' \in Int
  BY <1>1 DEF CallsInv, CallsType
<1>8. rxLink' \in 0 .. links
  BY <1>1 DEF CallsInv, CallsType
<1> QED
  BY Zenon, <1>1, <1>2, <1>3, <1>4, <1>5, <1>6, <1>7, <1>8 DEF RxSide

(* Connect preserves the invariant: nobody sleeps on the new link yet, and  *)
(* the receiver still has the old one.                                      *)
LEMMA ConnectStep ==
  ASSUME CallsInv, Connect
  PROVE  CallsInv'
<1>1. /\ links' = links + 1 /\ my' = links + 1 /\ UNCHANGED rxVars
      /\ \E i : TxInitLink(i)
  BY Zenon DEF Connect
<1>2. /\ TxSide' /\ used' \in Nat /\ pc' = pc /\ mine' = mine /\ Kept("has_data")
      /\ txState' \in {"idle", "connecting", "connected", "broken"}
  BY Zenon, <1>1, TxEnded
<1>3. CallsType'
  BY <1>1, <1>2 DEF CallsInv, CallsType, rxVars
<1>4. rxLink # links'
  BY <1>1 DEF CallsInv, CallsType
<1>5. RxSide'
  BY Zenon, <1>1, <1>2, <1>4, RxKept DEF CallsInv
<1> QED
  BY Zenon, <1>2, <1>3, <1>5 DEF CallsInv

(* Disconnect and NewStream preserve the invariant: the transmitter first.  *)
LEMMA TxFirstStep ==
  ASSUME CallsInv, Disconnect \/ NewStream
  PROVE  CallsInv'
<1>1. /\ UNCHANGED <<rxVars, links, inOpen>> /\ my' = 0
      /\ TxSetBroken \/ TxReset
  BY Zenon DEF Disconnect, NewStream
<1>2. /\ TxSide' /\ used' \in Nat /\ pc' = pc /\ mine' = mine /\ Kept("has_data")
      /\ txState' \in {"idle", "connecting", "connected", "broken"}
  BY Zenon, <1>1, TxEnded
<1>3. CallsType'
  BY Zenon, <1>1, <1>2 DEF CallsInv, CallsType, rxVars
<1>4. RxSide'
  BY Zenon, <1>1, <1>2, RxKept DEF CallsInv
<1> QED
  BY Zenon, <1>2, <1>3, <1>4 DEF CallsInv

(* SameId preserves the invariant: the receiver first.                      *)
LEMMA SameIdStep ==
  ASSUME CallsInv, SameId
  PROVE  CallsInv'
<1>1. UNCHANGED <<txVars, links, inOpen>> /\ my' = 0 /\ RxSetBroken
  BY Zenon DEF SameId
<1>2. /\ RxSide' /\ pc' = pc /\ mine' = mine /\ Kept("all_acked")
      /\ rxState' \in {"idle", "connecting", "connected"}
      /\ ring' \in Seq(Slot) /\ unack' \in Int /\ rxLink' \in 0 .. links
  BY Zenon, <1>1, RxEnded
<1>3. CallsType'
  BY Zenon, <1>1, <1>2 DEF CallsInv, CallsType, txVars
<1> QED
  BY Zenon, <1>1, <1>2, <1>3, TxKept DEF CallsInv

(* SecondHalf preserves the invariant.                                      *)
LEMMA SecondHalfStep ==
  ASSUME CallsInv, SecondHalf
  PROVE  CallsInv'
<1>1. UNCHANGED <<my, links, inOpen>>
  BY Zenon DEF SecondHalf
<1>2. CASE UNCHANGED txVars /\ (RxSetBroken \/ RxReset \/ RxInitLink(my))
  <2>1. /\ RxSide' /\ pc' = pc /\ mine' = mine /\ Kept("all_acked")
        /\ rxState' \in {"idle", "connecting", "connected"}
        /\ ring' \in Seq(Slot) /\ unack' \in Int /\ rxLink' \in 0 .. links
    BY Zenon, <1>1, <1>2, RxEnded
  <2>2. CallsType'
    BY Zenon, <1>1, <1>2, <2>1 DEF CallsInv, CallsType, txVars
  <2> QED
    BY Zenon, <1>2, <2>1, <2>2, TxKept DEF CallsInv
<1>3. CASE UNCHANGED rxVars /\ TxSetBroken
  <2>1. /\ TxSide' /\ used' \in Nat /\ pc' = pc /\ mine' = mine /\ Kept("has_data")
        /\ txState' \in {"idle", "connecting", "connected", "broken"}
    BY Zenon, <1>3, TxEnded
  <2>2. CallsType'
    BY Zenon, <1>1, <1>3, <2>1 DEF CallsInv, CallsType, rxVars
  <2> QED
    BY Zenon, <1>1, <1>3, <2>1, <2>2, RxKept DEF CallsInv
<1> QED
  BY Zenon, <1>2, <1>3 DEF SecondHalf

(* ReceiverConnects preserves the invariant: the ring is empty, so nobody   *)
(* that sleeps has anything to read.                                        *)
LEMMA ReceiverConnectsStep ==
  ASSUME CallsInv, ReceiverConnects
  PROVE  CallsInv'
<1>1. /\ UNCHANGED <<txVars, my, links, inOpen, threadVars, rxLink, ring, rxEos>>
      /\ rxState = "connecting" /\ rxState' = "connected" /\ unack' = 1 /\ ring = <<>>
  BY Zenon DEF ReceiverConnects, RxSetConnected, CallsInv, RxSide, RxEmpty
<1>2. CallsType'
  BY <1>1 DEF CallsInv, CallsType, txVars, threadVars
<1>3. TxSide'
  BY Zenon, <1>1, QuietKept, TxKept DEF CallsInv
<1>4. RxEmpty' /\ UnackExact'
  BY <1>1 DEF RxEmpty, UnackExact, FirstMissing
<1>5. ReadersWait'
  BY Zenon, <1>1 DEF ReadersWait, threadVars, CallsInv, RxSide, Asleep, RxCheckConnectionStatus,
     Readable
<1> QED
  BY Zenon, <1>2, <1>3, <1>4, <1>5 DEF CallsInv, RxSide

(* What of the transmitter's events is left to a step that changes neither  *)
(* stream nor receiver.                                                     *)
LEMMA TxEvent ==
  ASSUME CallsInv, UNCHANGED <<rxVars, my, links, inOpen, pc, mine>>, Kept("has_data"),
         used' \in Nat, txState' \in {"idle", "connecting", "connected", "broken"}
  PROVE  CallsType' /\ RxSide'
<1>1. CallsType'
  BY Zenon DEF CallsInv, CallsType, rxVars
<1>2. RxSide'
  BY Zenon, RxKept DEF CallsInv, rxVars
<1> QED
  BY Zenon, <1>1, <1>2

(* TransmitterConnects preserves the invariant.                             *)
LEMMA TransmitterConnectsStep ==
  ASSUME CallsInv, TransmitterConnects
  PROVE  CallsInv'
<1>1. /\ UNCHANGED <<rxVars, my, links, inOpen, threadVars, txLink, used, txEos>>
      /\ txState = "connecting" /\ txState' = "connected"
  BY Zenon DEF TransmitterConnects, TxSetConnected, channelVars
<1>2. TxSide'
  BY Zenon, <1>1 DEF CallsInv, TxSide, TxFilled, ClosersWait, Asleep, TxCheckConnectionStatus,
     threadVars
<1>3. CallsType' /\ RxSide'
  BY Zenon, <1>1, QuietKept, TxEvent DEF CallsInv, CallsType, threadVars
<1> QED
  BY Zenon, <1>2, <1>3 DEF CallsInv

(* ReceiveAck preserves the invariant: an acknowledgement that leaves       *)
(* nothing to wait for wakes the threads that wait for it.                  *)
LEMMA ReceiveAckStep ==
  ASSUME CallsInv, NEW k \in 1 .. SendCap, ReceiveAck(k)
  PROVE  CallsInv'
<1>1. PICK left : left = used - k + (IF pendingEof THEN 1 ELSE 0)
  BY Zenon
<1>2. k \in 1 .. used /\ left \in Nat
  BY <1>1 DEF ReceiveAck, Ack, CallsInv, CallsType
<1>3. /\ txState = "connected" /\ used' = left
      /\ IF txEos /\ left = 0 THEN txState' = "idle" /\ txLink' = 0 /\ txEos' = FALSE
                              ELSE UNCHANGED <<txState, txLink, txEos>>
      /\ UNCHANGED <<rxVars, my, links, inOpen>>
  BY Zenon, <1>1 DEF ReceiveAck, Ack, channelVars
<1>4. PICK conditions : NotifyAll(conditions) /\ (left = 0 => "all_acked" \in conditions)
  BY Zenon, <1>1 DEF ReceiveAck, Ack
<1>5. /\ Kept("all_acked") /\ Kept("has_data") /\ pc' = pc /\ mine' = mine
      /\ left = 0 => \A s \in Thread : ~Asleep(s, "all_acked")'
  BY Zenon, <1>4, NotifyKept
<1>6. TxFilled'
  <2>1. CASE left = 0
    BY Zenon, <1>3, <2>1 DEF TxFilled
  <2>2. CASE left # 0
    BY <1>2, <1>3, <2>2 DEF TxFilled
  <2> QED
    BY Zenon, <2>1, <2>2
<1>7. ClosersWait'
  <2>1. CASE left = 0
    BY Zenon, <1>5, <2>1 DEF ClosersWait
  <2>2. CASE left # 0
    <3> SUFFICES ASSUME NEW s \in Thread, Asleep(s, "all_acked")'
                 PROVE  TxCheckConnectionStatus(mine[s])' /\ used' > 0
      BY Zenon DEF ClosersWait
    <3>1. Asleep(s, "all_acked")
      BY Zenon, <1>5 DEF Kept, Asleep
    <3>2. TxCheckConnectionStatus(mine[s])
      BY Zenon, <3>1 DEF CallsInv, TxSide, ClosersWait
    <3> QED
      BY <1>2, <1>3, <1>5, <2>2, <3>2 DEF TxCheckConnectionStatus
  <2> QED
    BY <2>1, <2>2
<1>8. CallsType' /\ RxSide'
  BY Zenon, <1>2, <1>3, <1>5, TxEvent
<1> QED
  BY Zenon, <1>6, <1>7, <1>8 DEF CallsInv, TxSide

(* ReceiveHimark preserves the invariant.                                   *)
LEMMA ReceiveHimarkStep ==
  ASSUME CallsInv, NEW c, ReceiveHimark(c)
  PROVE  CallsInv'
<1>1. /\ UNCHANGED <<rxVars, my, links, inOpen, txState, txLink, used, txEos>>
      /\ NotifyAll({"has_space"})
  BY Zenon DEF ReceiveHimark, UpdateRecvHimark, channelVars
<1>2. Kept("all_acked") /\ Kept("has_data") /\ pc' = pc /\ mine' = mine
  BY Zenon, <1>1, NotifyKept
<1>3. TxSide'
  BY Zenon, <1>1, <1>2 DEF CallsInv, TxSide, TxFilled, ClosersWait, Asleep,
     TxCheckConnectionStatus, Kept
<1>4. CallsType' /\ RxSide'
  BY Zenon, <1>1, <1>2, TxEvent DEF CallsInv, CallsType
<1> QED
  BY Zenon, <1>3, <1>4 DEF CallsInv

(* The ring r is the one in state with a packet at position p.              *)
Placed(r, p) ==
  /\ Len(r) >= Len(ring) /\ Len(r) >= p
  /\ Len(r) = Len(ring) \/ Len(r) = p
  /\ \A j \in 1 .. Len(ring) : (j # p \/ ring[j] # "unset") => r[j] = ring[j]
  /\ \A j \in Len(ring) + 1 .. Len(r) : j # p => r[j] = "unset"

(* A packet at position p leaves the ones that are there where they are.    *)
LEMMA RingWithOne ==
  ASSUME ring \in Seq(Slot), NEW p \in Nat \ {0}, NEW type \in {"data", "fin"}
  PROVE  RingWith(p, type) \in Seq(Slot) /\ Placed(RingWith(p, type), p)
<1>1. PICK n \in Nat : n = IF p > Len(ring) THEN p ELSE Len(ring)
  OBVIOUS
<1>2. PICK r : r = RingWith(p, type)
  BY Zenon
<1>3. r = [j \in 1 .. n |-> IF j <= Len(ring) /\ (j # p \/ ring[j] # "unset") THEN ring[j]
                            ELSE IF j = p THEN type ELSE "unset"]
  BY Zenon, <1>1, <1>2 DEF RingWith
<1>4. \A j \in 1 .. n : r[j] \in Slot
  BY <1>3 DEF Slot
<1>5. r \in Seq(Slot) /\ Len(r) = n
  BY <1>3, <1>4
<1>6. Placed(r, p)
  BY <1>1, <1>3, <1>5 DEF Placed
<1> QED
  BY Zenon, <1>2, <1>5, <1>6

(* The first missing position stays so when another one is filled ...       *)
LEMMA FirstMissingKept ==
  ASSUME ring \in Seq(Slot), NEW p \in Nat \ {0}, NEW r \in Seq(Slot), Placed(r, p),
         NEW u \in Int, u # p, FirstMissing(u, ring)
  PROVE  FirstMissing(u, r)
<1>1. u \in 1 .. Len(r) + 1 /\ \A j \in 1 .. u - 1 : r[j] # "unset"
  BY DEF FirstMissing, Placed
<1>2. u <= Len(r) => r[u] = "unset"
  BY DEF FirstMissing, Placed
<1> QED
  BY Zenon, <1>1, <1>2 DEF FirstMissing

(* ... and is the one after all that has arrived when it is.                *)
LEMMA FirstMissingNext ==
  ASSUME NEW r \in Seq(Slot), NEW n \in AllReady(r)
  PROVE  FirstMissing(n + 1, r) /\ FirstMissing(1, SubSeq(r, n + 1, Len(r)))
<1>1. /\ n \in 0 .. Len(r) /\ \A j \in 1 .. n : r[j] # "unset"
      /\ n + 1 \in 0 .. Len(r) => \E j \in 1 .. n + 1 : r[j] = "unset"
  BY Zenon DEF AllReady, ReadyIn
<1>2. n + 1 <= Len(r) => r[n + 1] = "unset"
  BY <1>1
<1>3. FirstMissing(n + 1, r)
  BY <1>1, <1>2 DEF FirstMissing
<1>4. PICK u : u = n + 1
  BY Zenon
<1>5. FirstMissing(u - n, SubSeq(r, n + 1, Len(r)))
  BY <1>1, <1>3, <1>4, FirstMissingRead DEF AllReady
<1> QED
  BY <1>1, <1>3, <1>4, <1>5

(* ReceiveData preserves the invariant: a packet that makes data readable   *)
(* wakes the readers.                                                       *)
LEMMA ReceiveDataStep ==
  ASSUME CallsInv, NEW p \in 1 .. RingCap, NEW type \in {"data", "fin"}, ReceiveData(p, type)
  PROVE  CallsInv'
<1>1. PICK r : r = RingWith(p, type)
  BY Zenon
<1>2. PICK n \in AllReady(r) :
        IF p # unack THEN ring' = r /\ UNCHANGED <<unack, threadVars>>
        ELSE IF selfClosed
             THEN ring' = SubSeq(r, n + 1, Len(r)) /\ unack' = 1 /\ UNCHANGED threadVars
             ELSE ring' = r /\ unack' = n + 1 /\ NotifyAll({"has_data"})
  BY Zenon, <1>1 DEF ReceiveData, HandleDataPacket
<1>3. /\ rxState = "connected" /\ UNCHANGED <<rxState, rxLink, rxEos, txVars, my, links, inOpen>>
  BY Zenon DEF ReceiveData, HandleDataPacket, channelVars
<1>4. p \in Nat \ {0} /\ ring \in Seq(Slot) /\ unack \in Int
  BY ThreadSafeReceiverAssumption DEF CallsInv, CallsType
<1>5. r \in Seq(Slot) /\ Placed(r, p) /\ n \in 0 .. Len(r)
  BY Zenon, <1>1, <1>4, RingWithOne DEF AllReady, ReadyIn
<1>6. Kept("all_acked") /\ Kept("has_data") /\ pc' = pc /\ mine' = mine
  BY Zenon, <1>2, QuietKept, NotifyKept DEF threadVars
<1>7. TxSide'
  BY Zenon, <1>3, <1>6, TxKept DEF CallsInv
<1>8. ring' \in Seq(Slot) /\ unack' \in Int
  <2>1. SubSeq(r, n + 1, Len(r)) \in Seq(Slot)
    BY Zenon, <1>5, RingTail
  <2>2. unack' \in {unack, 1, n + 1}
    BY Zenon, <1>2
  <2>3. ring' \in {r, SubSeq(r, n + 1, Len(r))}
    BY Zenon, <1>2
  <2>4. unack' \in Int
    BY <1>4, <1>5, <2>2
  <2> QED
    BY Zenon, <1>5, <2>1, <2>3, <2>4
<1>9. CallsType'
  BY Zenon, <1>3, <1>6, <1>8 DEF CallsInv, CallsType, txVars
<1>10. RxEmpty'
  BY Zenon, <1>3 DEF RxEmpty
<1>11. PICK u, q : u = unack' /\ q = ring'
  BY Zenon
<1>12. ReadFrom => FirstMissing(unack, ring)
  BY Zenon, <1>3 DEF CallsInv, RxSide, UnackExact
<1>13. ReadFrom => FirstMissing(u, q)
  <2>1. CASE p # unack
    BY Zenon, <1>2, <1>4, <1>5, <1>11, <1>12, <2>1, FirstMissingKept
  <2>2. CASE p = unack /\ selfClosed
    BY Zenon, <1>2, <1>5, <1>11, <2>2, FirstMissingNext
  <2>3. CASE p = unack /\ ~selfClosed
    BY Zenon, <1>2, <1>5, <1>11, <2>3, FirstMissingNext
  <2> QED
    BY Zenon, <2>1, <2>2, <2>3
<1>14. UnackExact'
  <2>1. ReadFrom' => ReadFrom
    BY Zenon, <1>3, <1>6 DEF ReadFrom
  <2> QED
    BY Zenon, <1>11, <1>13, <2>1 DEF UnackExact, FirstMissing
<1>15. ReadersWait'
  <2> SUFFICES ASSUME NEW s \in Thread, Asleep(s, "has_data")'
               PROVE  RxCheckConnectionStatus(mine[s])' /\ ~Readable'
    BY Zenon DEF ReadersWait
  <2>1. Asleep(s, "has_data")
    BY Zenon, <1>6 DEF Kept, Asleep
  <2>2. RxCheckConnectionStatus(mine[s]) /\ ~Readable
    BY Zenon, <2>1 DEF CallsInv, RxSide, ReadersWait
  <2>3. ReadFrom
    BY Zenon, <2>1, <2>2 DEF ReadFrom, Asleep, RxCheckConnectionStatus
  <2>4. unack = 1
    BY <1>3, <1>4, <1>12, <2>2, <2>3 DEF FirstMissing, Readable
  <2>5. u = 1
    <3>1. ~NotifyAll({"has_data"})
      BY Zenon, NotifyKept
    <3> QED
      BY Zenon, <1>2, <1>11, <2>4, <3>1
  <2>6. ~Readable'
    BY <1>11, <1>13, <1>8, <2>3, <2>5 DEF FirstMissing, Readable
  <2> QED
    BY Zenon, <1>3, <1>6, <2>2, <2>6 DEF RxCheckConnectionStatus
<1> QED
  BY Zenon, <1>7, <1>9, <1>10, <1>14, <1>15 DEF CallsInv, RxSide

(* PeerRestarts preserves the invariant, and so does a step that leaves all *)
(* alone.                                                                   *)
LEMMA QuietStep ==
  ASSUME CallsInv, UNCHANGED <<txVars, rxVars, threadVars, my, links, inOpen>>
  PROVE  CallsInv'
<1>1. CallsType'
  BY Zenon DEF CallsInv, CallsType, txVars, rxVars, threadVars
<1> QED
  BY Zenon, <1>1, QuietKept, TxKept, RxKept DEF CallsInv, rxVars
-----------------------------------------------------------------------------
(* The invariant holds initially.                                           *)
LEMMA CallsInitially == Init => CallsInv
<1> SUFFICES ASSUME Init PROVE CallsInv
  BY Zenon
<1>1. CallsType
  BY DEF Init, TxInit, RxInit, ThreadsInit, CallsType
<1>2. TxSide
  BY Zenon DEF Init, TxInit, ThreadsInit, TxSide, TxFilled, ClosersWait, Asleep
<1>3. RxSide
  BY Zenon DEF Init, RxInit, ThreadsInit, RxSide, RxEmpty, UnackExact, ReadersWait, Asleep
<1> QED
  BY Zenon, <1>1, <1>2, <1>3 DEF CallsInv

(* Every step of the channel and of the threads preserves it.               *)
LEMMA CallsStep == CallsInv /\ [Next]_vars => CallsInv'
<1> SUFFICES ASSUME CallsInv, [Next]_vars PROVE CallsInv'
  BY Zenon
<1>1. CASE \E t \in Thread : CallWrite(t) \/ CallClose(t) \/ CallRead(t)
  BY Zenon, <1>1, CallWriteStep, CallCloseStep, CallReadStep
<1>2. CASE CloseInput \/ Connect \/ Disconnect \/ NewStream \/ SameId \/ SecondHalf
  BY Zenon, <1>2, CloseInputStep, ConnectStep, TxFirstStep, SameIdStep, SecondHalfStep
<1>3. CASE ReceiverConnects \/ TransmitterConnects
  BY Zenon, <1>3, ReceiverConnectsStep, TransmitterConnectsStep
<1>4. CASE \E k \in 1 .. SendCap : ReceiveAck(k)
  BY Zenon, <1>4, ReceiveAckStep
<1>5. CASE \E c \in -1 .. RecvCap : ReceiveHimark(c)
  BY Zenon, <1>5, ReceiveHimarkStep
<1>6. CASE \E p \in 1 .. RingCap, type \in {"data", "fin"} : ReceiveData(p, type)
  BY Zenon, <1>6, ReceiveDataStep
<1>7. CASE PeerRestarts
  BY Zenon, <1>7, QuietStep DEF PeerRestarts
<1>8. CASE UNCHANGED vars
  BY Zenon, <1>8, QuietStep DEF vars, channelVars
<1> QED
  BY Zenon, <1>1, <1>2, <1>3, <1>4, <1>5, <1>6, <1>7, <1>8 DEF Next

(* The invariant of the blocked calls, for any number of threads, links and *)
(* packets and any size of the rings.                                       *)
THEOREM CallsInvariant == Spec => []CallsInv
<1> QED
  BY CallsInitially, CallsStep, PTL DEF Spec

(* For any number of threads: no call of close() sleeps on a stream that is *)
(* gone or with nothing to wait for (ThreadSafeTransmitter's notifications  *)
(* of all_acked_).                                                          *)
THEOREM ClosersAreWoken == Spec => []ClosersWait
<1>1. CallsInv => ClosersWait
  BY Zenon DEF CallsInv, TxSide
<1> QED
  BY <1>1, CallsInvariant, PTL

(* For any number of threads: no call of read() sleeps on a stream that is  *)
(* gone, or when its next packet has arrived (ThreadSafeReceiver's          *)
(* notifications of has_data_).                                             *)
THEOREM ReadersAreWoken == Spec => []ReadersWait
<1>1. CallsInv => ReadersWait
  BY Zenon DEF CallsInv, RxSide
<1> QED
  BY <1>1, CallsInvariant, PTL
=============================================================================
