---------------------------- MODULE LinkMessaging -----------------------------
(***************************************************************************)
(* Messages over a link that is re-established when it breaks              *)
(* (link/link_messaging.cpp): threads that send, the receive thread that   *)
(* connects, and end().  mutex_ protects link_; a sender holds it while it *)
(* writes the parts of a message, and the write may block.                 *)
(*                                                                         *)
(* Every action is a step between two points where a thread may have to    *)
(* wait.  The link below is reduced to whether it is alive and whether its *)
(* send buffer has room (modules Handshake and ThreadSafeTransmitter).     *)
(***************************************************************************)
EXTENDS Naturals, Sequences, FiniteSets

CONSTANTS Sender,     \* the threads that send
          Parts,      \* writes that make up a message
          MaxLinks,   \* bound: connections made one after the other
          MaxWire,    \* bound: parts written
          Ends,       \* whether end() is called
          PeerReads   \* whether the peer keeps reading

ASSUME LinkMessagingAssumption ==
  /\ Parts \in Nat \ {0} /\ MaxLinks \in Nat /\ MaxWire \in Nat
  /\ Ends \in BOOLEAN /\ PeerReads \in BOOLEAN

VARIABLES closed,  \* closed_
          held,    \* whether mutex_ is held
          link,    \* the stream id of link_: 1, 2, 3, ..., or 0
          alive,   \* link_.status() is kConnecting or kConnected
          room,    \* whether a write to the link would not block
          pc,      \* where each sender is
          cid,     \* the connection id its last send() reported
          next,    \* the part of the message it writes next
          woken,   \* the senders that wait on reconnected_ and were notified
          wire,    \* history: the parts written
          rpc,     \* where the receive thread is
          epc      \* where the thread that calls end() is

vars == <<closed, held, link, alive, room, pc, cid, next, woken, wire, rpc, epc>>
senderVars == <<pc, cid, next, woken, wire>>

Init ==
  /\ closed = FALSE /\ held = FALSE
  /\ link = 0 /\ alive = FALSE /\ room = FALSE
  /\ pc = [t \in Sender |-> "out"] /\ cid = [t \in Sender |-> 0]
  /\ next = [t \in Sender |-> 1]
  /\ woken = {} /\ wire = <<>>
  /\ rpc = "test" /\ epc = "out"

Waiting == {t \in Sender : pc[t] = "wait"}

Go(t, place) == pc' = [pc EXCEPT ![t] = place]
-----------------------------------------------------------------------------
(* send() and sendContinuation(), which continues what an earlier send()    *)
(* has begun: the call, up to the mutex.                                    *)
Call(t) ==
  /\ pc[t] = "out"
  /\ Len(wire) + Parts * Cardinality(Sender) <= MaxWire
  /\ Go(t, "send") \/ (cid[t] # 0 /\ Go(t, "continue"))
  /\ UNCHANGED <<closed, held, link, alive, room, cid, next, woken, wire, rpc, epc>>

(* The loop of send() from one wait to the next: give up, take the current  *)
(* link, or wait for one.                                                   *)
SendLoop(t) ==
  /\ pc[t] = "send" \/ (pc[t] = "wait" /\ t \in woken)
  /\ ~held
  /\ woken' = woken \ {t}
  /\ \/ closed /\ Go(t, "out") /\ UNCHANGED <<held, cid>>
     \/ ~closed /\ alive /\ Go(t, "write") /\ held' = TRUE /\ cid' = [cid EXCEPT ![t] = link]
     \/ ~closed /\ ~alive /\ Go(t, "wait") /\ UNCHANGED <<held, cid>>
  /\ UNCHANGED <<closed, link, alive, room, next, wire, rpc, epc>>

(* Faulty: continues on whatever link there is.                             *)
SendContinuationBug(t) ==
  /\ pc[t] = "continue" /\ ~held
  /\ Go(t, "write") /\ held' = TRUE
  /\ UNCHANGED <<closed, link, alive, room, cid, next, woken, wire, rpc, epc>>

(* sendContinuation() once it has the mutex.                                *)
SendContinuation(t) ==
  /\ pc[t] = "continue" /\ ~held
  /\ \/ (closed \/ link # cid[t]) /\ Go(t, "out") /\ UNCHANGED held
     \/ ~closed /\ link = cid[t] /\ Go(t, "write") /\ held' = TRUE
  /\ UNCHANGED <<closed, link, alive, room, cid, next, woken, wire, rpc, epc>>

(* sendInternal(), one write of several; the mutex is released at the end.  *)
Finish(t) ==
  /\ Go(t, "out")
  /\ next' = [next EXCEPT ![t] = 1]
  /\ held' = FALSE

WritePart(t) ==
  /\ pc[t] = "write" /\ alive /\ room
  /\ wire' = Append(wire, [by |-> t, part |-> next[t], cid |-> cid[t], on |-> link])
  /\ room' \in BOOLEAN
  /\ IF next[t] = Parts
     THEN Finish(t)
     ELSE next' = [next EXCEPT ![t] = @ + 1] /\ UNCHANGED <<pc, held>>
  /\ UNCHANGED <<closed, link, alive, cid, woken, rpc, epc>>

(* Faulty: the mutex is given up for the wait, and not taken again.         *)
WriteBlocksBug(t) ==
  /\ pc[t] = "write" /\ alive /\ ~room
  /\ Go(t, "blocked")
  /\ held' = FALSE
  /\ UNCHANGED <<closed, link, alive, room, cid, next, woken, wire, rpc, epc>>

(* The link has no room: the write sleeps on has_space_.                    *)
WriteBlocks(t) ==
  /\ pc[t] = "write" /\ alive /\ ~room
  /\ Go(t, "blocked")
  /\ UNCHANGED <<closed, held, link, alive, room, cid, next, woken, wire, rpc, epc>>

(* The link is gone: the rest of the writes fail at once.                   *)
WriteFails(t) ==
  /\ pc[t] = "write" /\ ~alive
  /\ Finish(t)
  /\ UNCHANGED <<closed, link, alive, room, cid, woken, wire, rpc, epc>>
-----------------------------------------------------------------------------
(* receiveLoop(): the test of closed_ ...                                   *)
ReceiveTest ==
  /\ rpc = "test"
  /\ rpc' = IF closed THEN "done" ELSE "connect"
  /\ UNCHANGED <<closed, held, link, alive, room, senderVars, epc>>

(* Faulty: reconnected_ is not notified.                                    *)
ConnectBug ==
  /\ rpc = "connect" /\ ~held
  /\ link < MaxLinks
  /\ link' = link + 1 /\ alive' = TRUE /\ room' = FALSE
  /\ rpc' = "read"
  /\ UNCHANGED <<closed, held, senderVars, epc>>

(* ... connect() ...                                                        *)
Connect ==
  /\ rpc = "connect" /\ ~held
  /\ link < MaxLinks
  /\ link' = link + 1 /\ alive' = TRUE /\ room' = FALSE
  /\ woken' = woken \cup Waiting
  /\ rpc' = "read"
  /\ UNCHANGED <<closed, held, pc, cid, next, wire, epc>>

(* ... and a read that fails because the link is gone ...                   *)
ReadFails ==
  /\ rpc = "read" /\ ~alive
  /\ rpc' = "test"
  /\ UNCHANGED <<closed, held, link, alive, room, senderVars, epc>>

(* ... or because the peer has closed its stream or sent too large a size.  *)
ReadEnds ==
  /\ rpc = "read" /\ alive
  /\ rpc' = "test"
  /\ UNCHANGED <<closed, held, link, alive, room, senderVars, epc>>
-----------------------------------------------------------------------------
(* end(): closed_, then link_.disconnect() under the mutex, then join().    *)
EndCall ==
  /\ Ends /\ epc = "out"
  /\ closed' = TRUE
  /\ epc' = "lock"
  /\ UNCHANGED <<held, link, alive, room, senderVars, rpc>>

EndDisconnect ==
  /\ epc = "lock" /\ ~held
  /\ alive' = FALSE
  /\ woken' = woken \cup Waiting
  /\ epc' = "join"
  /\ UNCHANGED <<closed, held, link, room, pc, cid, next, wire, rpc>>

EndJoin ==
  /\ epc = "join" /\ rpc = "done"
  /\ epc' = "done"
  /\ UNCHANGED <<closed, held, link, alive, room, senderVars, rpc>>
-----------------------------------------------------------------------------
Unblocked == [t \in Sender |-> IF pc[t] = "blocked" THEN "write" ELSE pc[t]]

(* The peer: it reads, which makes room ...                                 *)
PeerMakesRoom ==
  /\ alive /\ ~room
  /\ room' = TRUE
  /\ pc' = Unblocked
  /\ UNCHANGED <<closed, held, link, alive, cid, next, woken, wire, rpc, epc>>

(* ... or it opens a new stream.  handleHandshakePacket() then breaks the   *)
(* transmitter, which wakes the blocked write ...                           *)
PeerBreaksLink ==
  /\ alive
  /\ alive' = FALSE
  /\ pc' = Unblocked
  /\ UNCHANGED <<closed, held, link, room, cid, next, woken, wire, rpc, epc>>

(* ... or, when the handshake was not finished or the peer had closed its   *)
(* stream and that was read, resets it: nobody is woken who waits for room. *)
PeerResetsLink ==
  /\ alive
  /\ alive' = FALSE
  /\ UNCHANGED <<closed, held, link, room, senderVars, rpc, epc>>

Write(t) == WritePart(t) \/ WriteBlocks(t) \/ WriteFails(t)

Receive == ReceiveTest \/ Connect \/ ReadFails

End == EndDisconnect \/ EndJoin

Next ==
  \/ \E t \in Sender : Call(t) \/ SendLoop(t) \/ SendContinuation(t) \/ Write(t)
  \/ Receive \/ ReadEnds
  \/ EndCall \/ End
  \/ PeerMakesRoom \/ PeerBreaksLink \/ PeerResetsLink

Spec == Init /\ [][Next]_vars

(* The threads are scheduled, and the mutex is fair.                        *)
Fairness ==
  /\ \A t \in Sender : SF_vars(SendLoop(t)) /\ SF_vars(SendContinuation(t)) /\ WF_vars(Write(t))
  /\ SF_vars(Receive) /\ SF_vars(End)
  /\ PeerReads => WF_vars(PeerMakesRoom)

FairSpec == Spec /\ Fairness
-----------------------------------------------------------------------------
(* The receiver can tell messages apart: on a link, every part of a message *)
(* but the last is followed by the next part of the same message.           *)
MessagesWhole ==
  \A i \in 1 .. Len(wire) - 1 :
    LET a == wire[i]
        b == wire[i + 1]
    IN  a.on = b.on =>
          IF a.part = Parts THEN b.part = 1 ELSE b.by = a.by /\ b.part = a.part + 1

(* What is sent as a continuation goes to the connection that the message   *)
(* it continues went to, and send() reports the connection it used.         *)
OnReportedLink == \A i \in DOMAIN wire : wire[i].on = wire[i].cid

(* A sender sleeps in a write to a link that was reset, with the mutex that *)
(* connect() needs.                                                         *)
Stranded == ~alive /\ \E t \in Sender : pc[t] = "blocked"

(* send() returns, while the peer reads and links are re-established,       *)
(* unless a reset has stranded a sender (see the README).                   *)
SendReturns ==
  \A t \in Sender : pc[t] # "out" ~>
    (pc[t] = "out" \/ Stranded \/ (link = MaxLinks /\ ~alive))

(* No reset strands a sender.                                               *)
NeverStranded == ~Stranded

(* end() wakes a sender that is blocked in a write.                         *)
EndWakesSenders ==
  \A t \in Sender : closed /\ pc[t] = "blocked" ~> pc[t] # "blocked"

(* end() returns: it wakes whoever is blocked and joins the receive thread, *)
(* unless that one waits at the bound on links.                             *)
EndReturns ==
  epc # "out" ~> (epc = "done" \/ (rpc = "connect" /\ link = MaxLinks))
=============================================================================
