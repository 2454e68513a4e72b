------------------------ MODULE ThreadSafeTransmitter -------------------------
(***************************************************************************)
(* The calls on a Transmitter, one critical section of mutex_ each         *)
(* (thread_safe/thread_safe_transmitter.cpp): write() blocks on            *)
(* has_space_, close() blocks on all_acked_, and the calls that change     *)
(* what they wait for notify one, the other, both or neither.              *)
(*                                                                         *)
(* Of the transmitter (module Transmitter) only counts are kept: the       *)
(* packets in the ring and the credit left below the high-water mark.  A   *)
(* write is one packet.                                                    *)
(***************************************************************************)
EXTENDS BlockedThreads, Integers

CONSTANTS SendCap,   \* slots of out_ring_
          RecvCap    \* the peer's receive buffer

ASSUME ThreadSafeTransmitterAssumption ==
  SendCap \in Nat \ {0} /\ RecvCap \in Nat \ {0}

VARIABLES txState,    \* state_
          txLink,     \* my_stream_id_: 1, 2, 3, ..., or 0
          used,       \* packets in out_ring_
          credit,     \* recv_himark_ - out_ring_.end()
          txEos,      \* end_of_stream_
          pendingEof, \* has_pending_eof_
          eosStale    \* the end-of-stream packet has another control bit than the stream

txVars == <<txState, txLink, used, credit, txEos, pendingEof, eosStale>>

TxInit ==
  /\ txState = "idle" /\ txLink = 0
  /\ used = 0 /\ credit = SendCap
  /\ txEos = FALSE /\ pendingEof = FALSE /\ eosStale = FALSE

TxCheckConnectionStatus(i) == txState \in {"connecting", "connected"} /\ i = txLink
-----------------------------------------------------------------------------
(* write(): its loop from one wait to the next.                             *)
TryWrite == ~txEos /\ credit > 0 /\ used < SendCap

WriteLoop(t, i) ==
  \/ /\ ~TxCheckConnectionStatus(i)
     /\ Return(t)
     /\ UNCHANGED <<used, credit>>
  \/ /\ TxCheckConnectionStatus(i) /\ TryWrite
     /\ used' = used + 1 /\ credit' = credit - 1
     /\ Return(t)
  \/ /\ TxCheckConnectionStatus(i) /\ ~TryWrite
     /\ Wait(t, i, "has_space")
     /\ UNCHANGED <<used, credit>>

Write(t, i) ==
  /\ pc[t] = "out"
  /\ WriteLoop(t, i)
  /\ UNCHANGED <<txState, txLink, txEos, pendingEof, eosStale>>

WriteAgain(t) ==
  /\ pc[t] = "has_space" /\ t \in woken
  /\ WriteLoop(t, mine[t])
  /\ UNCHANGED <<txState, txLink, txEos, pendingEof, eosStale>>

(* close(): Transmitter::close(), then wait until nothing is pending.  The  *)
(* end-of-stream packet of a stream that is not connected yet is stamped    *)
(* with the control bit of the stream before, which may be the other one.   *)
Close(t, i) ==
  /\ pc[t] = "out" /\ TxCheckConnectionStatus(i)
  /\ txEos' = TRUE
  /\ pendingEof' = (pendingEof \/ (~txEos /\ used = SendCap))
  /\ used' = IF ~txEos /\ used < SendCap THEN used + 1 ELSE used
  /\ credit' = IF ~txEos /\ used < SendCap THEN credit - 1 ELSE credit
  /\ eosStale' \in IF ~txEos /\ txState = "connecting" THEN BOOLEAN ELSE {eosStale}
  /\ Wait(t, i, "all_acked")
  /\ UNCHANGED <<txState, txLink>>

CloseAgain(t) ==
  /\ pc[t] = "all_acked" /\ t \in woken
  /\ IF used = 0 \/ ~TxCheckConnectionStatus(mine[t])
     THEN Return(t)
     ELSE Wait(t, mine[t], "all_acked")
  /\ UNCHANGED txVars
-----------------------------------------------------------------------------
(* Faulty: all_acked_ is not notified.                                      *)
AckBug(k) ==
  LET left == used - k + (IF pendingEof THEN 1 ELSE 0) IN
  /\ txState = "connected" /\ k \in 1 .. used /\ ~eosStale
  /\ used' = left
  /\ credit' = IF pendingEof THEN credit - 1 ELSE credit
  /\ pendingEof' = FALSE
  /\ NotifyAll(IF txEos THEN {} ELSE {"has_space"})
  /\ UNCHANGED <<txState, txLink, txEos, eosStale>>

(* ack() of the first k packets of the ring: Transmitter::ack(), which      *)
(* queues the pending end-of-stream packet, and resets a closed stream      *)
(* whose ring is empty.  A closed stream has no room to write before nor    *)
(* after, so has_space_ is not notified.  An end-of-stream packet with the  *)
(* wrong control bit is discarded by the peer as cross-talk; it is then the *)
(* only packet of its stream, and nothing is ever acknowledged.             *)
Ack(k) ==
  LET left == used - k + (IF pendingEof THEN 1 ELSE 0)
      reset == txEos /\ left = 0
  IN
  /\ txState = "connected" /\ k \in 1 .. used /\ ~eosStale
  /\ used' = left
  /\ credit' = IF pendingEof THEN credit - 1 ELSE credit
  /\ pendingEof' = FALSE
  /\ IF reset THEN txState' = "idle" /\ txLink' = 0 /\ txEos' = FALSE
              ELSE UNCHANGED <<txState, txLink, txEos>>
  /\ NotifyAll((IF txEos THEN {} ELSE {"has_space"}) \cup (IF left = 0 THEN {"all_acked"} ELSE {}))
  /\ UNCHANGED eosStale

(* Faulty: has_space_ is not notified.                                      *)
UpdateRecvHimarkBug(c) ==
  /\ txState = "connected"
  /\ c \in credit .. RecvCap
  /\ credit' = c
  /\ UNCHANGED <<txState, txLink, used, txEos, pendingEof, eosStale, threadVars>>

(* updateRecvHimark(), repeated by the peer all the time: the mark does not *)
(* go back, and is at most RecvCap past the end of what was read.           *)
UpdateRecvHimark(c) ==
  /\ txState = "connected"
  /\ c \in credit .. RecvCap
  /\ credit' = c
  /\ NotifyAll({"has_space"})
  /\ UNCHANGED <<txState, txLink, used, txEos, pendingEof, eosStale>>

(* setConnected(): nobody is notified.                                      *)
TxSetConnected ==
  /\ txState' = "connected"
  /\ credit' = RecvCap - used
  /\ UNCHANGED <<txLink, used, txEos, pendingEof, eosStale, threadVars>>

(* setBroken(): both are notified.                                          *)
TxSetBroken ==
  /\ txState' = "broken" /\ used' = 0 /\ eosStale' = FALSE
  /\ NotifyAll({"has_space", "all_acked"})
  /\ UNCHANGED <<txLink, credit, txEos, pendingEof>>

(* reset(): all_acked_ only is notified ...                                 *)
TxReset ==
  /\ txState' = "idle" /\ txLink' = 0
  /\ used' = 0
  /\ txEos' = FALSE /\ pendingEof' = FALSE /\ eosStale' = FALSE
  /\ NotifyAll({"all_acked"})
  /\ UNCHANGED credit

(* ... and so it is by init().                                              *)
TxInitLink(i) ==
  /\ txState' = "connecting" /\ txLink' = i
  /\ used' = 0 /\ credit' = 0
  /\ txEos' = FALSE /\ pendingEof' = FALSE /\ eosStale' = FALSE
  /\ NotifyAll({"all_acked"})

TxTypeOK ==
  /\ txState \in {"idle", "connecting", "connected", "broken"} /\ txLink \in Nat
  /\ used \in 0 .. SendCap /\ credit \in -1 .. SendCap + RecvCap
  /\ {txEos, pendingEof, eosStale} \subseteq BOOLEAN
=============================================================================
