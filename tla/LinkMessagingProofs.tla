------------------------- MODULE LinkMessagingProofs -------------------------
(***************************************************************************)
(* The senders of LinkMessaging, for any number of them and messages of    *)
(* any number of parts.                                                    *)
(***************************************************************************)
EXTENDS LinkMessaging, TLAPS

Place == {"out", "send", "continue", "wait", "write", "blocked"}

(* A sender in sendInternal().                                              *)
Busy(t) == pc[t] = "write" \/ pc[t] = "blocked"

Part == [by : Sender, part : 1 .. Parts, cid : Nat, on : Nat]

MessagingType ==
  /\ pc \in [Sender -> Place] /\ cid \in [Sender -> Nat] /\ next \in [Sender -> 1 .. Parts]
  /\ link \in Nat /\ wire \in Seq(Part)

(* sendInternal() runs in one thread at a time, which holds the mutex, on   *)
(* the link that send() has reported.                                       *)
OneBusy ==
  /\ \A t \in Sender : Busy(t) => held /\ cid[t] = link
  /\ \A t, u \in Sender : Busy(t) /\ Busy(u) => t = u
  /\ \A t \in Sender : ~Busy(t) => next[t] = 1

(* While the link lasts, a message that is begun on it is being written by  *)
(* its sender, and no other is begun.                                       *)
LastContinues ==
  wire # <<>> =>
    LET last == wire[Len(wire)]
    IN  /\ last.on <= link
        /\ last.on = link /\ alive =>
             IF last.part = Parts
             THEN \A t \in Sender : next[t] = 1
             ELSE Busy(last.by) /\ next[last.by] = last.part + 1

MessagingInv == MessagingType /\ OneBusy /\ LastContinues /\ MessagesWhole /\ OnReportedLink
-----------------------------------------------------------------------------
(* Parts are typed as they are written.                                     *)
LEMMA TypeStep == MessagingType /\ [Next]_vars => MessagingType'
<1> USE LinkMessagingAssumption DEF Place
<1> SUFFICES ASSUME MessagingType, [Next]_vars PROVE MessagingType'
  OBVIOUS
<1>1. ASSUME NEW t \in Sender, WritePart(t) PROVE MessagingType'
  <2>1. [by |-> t, part |-> next[t], cid |-> cid[t], on |-> link] \in Part
    BY DEF MessagingType, Part
  <2>2. wire' \in Seq(Part)
    BY <1>1, <2>1 DEF MessagingType, WritePart
  <2>3. pc' \in [Sender -> Place] /\ next' \in [Sender -> 1 .. Parts]
    <3>1. CASE next[t] = Parts
      <4>1. pc' = [pc EXCEPT ![t] = "out"] /\ next' = [next EXCEPT ![t] = 1]
        BY <1>1, <3>1 DEF WritePart, Finish, Go
      <4> QED
        BY <4>1 DEF MessagingType
    <3>2. CASE next[t] # Parts
      <4>1. pc' = pc /\ next' = [next EXCEPT ![t] = next[t] + 1]
        BY <1>1, <3>2 DEF WritePart
      <4>2. next[t] + 1 \in 1 .. Parts
        BY <3>2 DEF MessagingType
      <4> QED
        BY <4>1, <4>2 DEF MessagingType
    <3> QED
      BY <3>1, <3>2
  <2> QED
    BY <1>1, <2>2, <2>3 DEF MessagingType, WritePart
<1>2. ASSUME NEW t \in Sender, Call(t) \/ SendLoop(t) \/ SendContinuation(t) PROVE MessagingType'
  BY Zenon, <1>2 DEF MessagingType, Call, SendLoop, SendContinuation, Go
<1>3. ASSUME NEW t \in Sender, WriteBlocks(t) \/ WriteFails(t) PROVE MessagingType'
  <2>1. CASE WriteBlocks(t)
    BY <2>1 DEF MessagingType, WriteBlocks, Go
  <2>2. CASE WriteFails(t)
    <3>1. pc' = [pc EXCEPT ![t] = "out"] /\ next' = [next EXCEPT ![t] = 1]
      BY <2>2 DEF WriteFails, Finish, Go
    <3>2. pc' \in [Sender -> Place] /\ next' \in [Sender -> 1 .. Parts]
      BY <3>1 DEF MessagingType
    <3> QED
      BY <2>2, <3>2 DEF MessagingType, WriteFails
  <2> QED
    BY <1>3, <2>1, <2>2
<1>4. CASE Receive \/ ReadEnds \/ EndCall \/ End
  BY <1>4 DEF MessagingType, Receive, ReceiveTest, Connect, ReadFails, ReadEnds, EndCall,
     End, EndDisconnect, EndJoin, senderVars
<1>5. CASE PeerMakesRoom \/ PeerBreaksLink \/ PeerResetsLink
  BY <1>5 DEF MessagingType, PeerMakesRoom, PeerBreaksLink, PeerResetsLink, Unblocked, senderVars
<1>6. CASE UNCHANGED vars
  BY <1>6 DEF MessagingType, vars
<1> QED
  BY <1>1, <1>2, <1>3, <1>4, <1>5, <1>6 DEF Next, Write

(* The mutex keeps the others out, and connect() takes it to change link_.  *)
LEMMA OneBusyStep == MessagingType /\ OneBusy /\ [Next]_vars => OneBusy'
<1> SUFFICES ASSUME MessagingType, OneBusy, [Next]_vars PROVE OneBusy'
  OBVIOUS
<1>1. ASSUME NEW t \in Sender, WritePart(t) PROVE OneBusy'
  BY Zenon, <1>1 DEF MessagingType, OneBusy, Busy, WritePart, Finish, Go
<1>2. ASSUME NEW t \in Sender, Call(t) PROVE OneBusy'
  <2>1. UNCHANGED <<held, link, cid, next>> /\ \A u \in Sender : Busy(u)' <=> Busy(u)
    BY <1>2 DEF MessagingType, Busy, Call, Go
  <2> QED
    BY <2>1 DEF OneBusy
<1>3. ASSUME NEW t \in Sender, SendLoop(t) PROVE OneBusy'
  BY <1>3 DEF MessagingType, OneBusy, Busy, SendLoop, Go
<1>4. ASSUME NEW t \in Sender, SendContinuation(t) PROVE OneBusy'
  BY <1>4 DEF MessagingType, OneBusy, Busy, SendContinuation, Go
<1>5. ASSUME NEW t \in Sender, WriteBlocks(t) \/ WriteFails(t) PROVE OneBusy'
  <2>1. CASE WriteBlocks(t)
    <3>1. UNCHANGED <<held, link, cid, next>> /\ \A u \in Sender : Busy(u)' <=> Busy(u)
      BY <2>1 DEF MessagingType, Busy, WriteBlocks, Go
    <3> QED
      BY <3>1 DEF OneBusy
  <2>2. CASE WriteFails(t)
    <3>1. \A u \in Sender : ~Busy(u)' /\ next'[u] = 1
      BY <2>2 DEF MessagingType, OneBusy, Busy, WriteFails, Finish, Go
    <3> QED
      BY <3>1 DEF OneBusy
  <2> QED
    BY <1>5, <2>1, <2>2
<1>6. CASE Receive \/ ReadEnds \/ EndCall \/ End
  BY <1>6 DEF OneBusy, Busy, Receive, ReceiveTest, Connect, ReadFails, ReadEnds, EndCall,
     End, EndDisconnect, EndJoin, senderVars
<1>7. CASE PeerMakesRoom \/ PeerBreaksLink \/ PeerResetsLink
  BY <1>7 DEF OneBusy, Busy, PeerMakesRoom, PeerBreaksLink, PeerResetsLink, Unblocked, senderVars
<1>8. CASE UNCHANGED vars
  BY <1>8 DEF OneBusy, Busy, vars
<1> QED
  BY <1>1, <1>2, <1>3, <1>4, <1>5, <1>6, <1>7, <1>8 DEF Next, Write

(* A step that writes nothing leaves the last part continued.               *)
LEMMA LastContinuesQuiet ==
  ASSUME MessagingType, OneBusy, LastContinues, [Next]_vars, UNCHANGED wire
  PROVE  LastContinues'
<1> SUFFICES ASSUME wire # <<>> PROVE LastContinues'
  BY DEF LastContinues
<1> PICK last : last = wire[Len(wire)]
  OBVIOUS
<1>1. last \in Part /\ last.on \in Nat /\ last.by \in Sender
  <2>1. wire \in Seq(Part)
    BY DEF MessagingType
  <2>2. Len(wire) \in 1 .. Len(wire)
    BY <2>1
  <2>3. last \in Part
    BY <2>1, <2>2
  <2> QED
    BY <2>3 DEF Part
<1>2. /\ last.on <= link
      /\ last.on = link /\ alive /\ last.part = Parts => \A t \in Sender : next[t] = 1
      /\ last.on = link /\ alive /\ last.part # Parts =>
           Busy(last.by) /\ next[last.by] = last.part + 1
  BY DEF LastContinues
<1>3. SUFFICES /\ last.on <= link'
               /\ last.on = link' /\ alive' /\ last.part = Parts => \A t \in Sender : next'[t] = 1
               /\ last.on = link' /\ alive' /\ last.part # Parts =>
                    Busy(last.by)' /\ next'[last.by] = last.part + 1
  BY DEF LastContinues
<1>4. ASSUME NEW t \in Sender, WritePart(t) PROVE FALSE
  BY <1>4 DEF MessagingType, WritePart
<1>5. ASSUME NEW t \in Sender, Call(t) \/ SendLoop(t) \/ SendContinuation(t)
      PROVE /\ link' = link /\ alive' = alive /\ next' = next
            /\ \A u \in Sender : Busy(u) => Busy(u)'
  BY <1>5 DEF MessagingType, Busy, Call, SendLoop, SendContinuation, Go
<1>6. ASSUME NEW t \in Sender, WriteBlocks(t)
      PROVE /\ link' = link /\ alive' = alive /\ next' = next
            /\ \A u \in Sender : Busy(u) => Busy(u)'
  BY <1>6 DEF MessagingType, Busy, WriteBlocks, Go
<1>7. ASSUME NEW t \in Sender, WriteFails(t) PROVE link' = link /\ ~alive'
  BY <1>7 DEF WriteFails
<1>8. CASE Connect
  BY <1>1, <1>2, <1>8 DEF Connect, MessagingType
<1>9. CASE ReceiveTest \/ ReadFails \/ ReadEnds \/ EndCall \/ EndJoin
  <2>1. UNCHANGED <<link, alive, next, pc>>
    BY <1>9 DEF ReceiveTest, ReadFails, ReadEnds, EndCall, EndJoin, senderVars
  <2> QED
    BY <1>2, <2>1 DEF Busy
<1>10. CASE EndDisconnect \/ PeerBreaksLink \/ PeerResetsLink
  BY <1>2, <1>10 DEF EndDisconnect, PeerBreaksLink, PeerResetsLink
<1>11. CASE PeerMakesRoom
  BY <1>1, <1>2, <1>11 DEF PeerMakesRoom, Unblocked, Busy
<1>12. CASE UNCHANGED vars
  <2>1. UNCHANGED <<link, alive, next, pc>>
    BY <1>12 DEF vars
  <2> QED
    BY <1>2, <2>1 DEF Busy
<1>13. CASE \E t \in Sender : Call(t) \/ SendLoop(t) \/ SendContinuation(t) \/ WriteBlocks(t)
  BY <1>1, <1>2, <1>5, <1>6, <1>13
<1>14. CASE \E t \in Sender : WriteFails(t)
  BY <1>2, <1>7, <1>14
<1> QED
  BY <1>4, <1>13, <1>14, <1>8, <1>9, <1>10, <1>11, <1>12 DEF Next, Write, Receive, End

(* The part that is written continues the last one of its link.             *)
LEMMA WritePartStep ==
  ASSUME MessagingInv, NEW t \in Sender, WritePart(t)
  PROVE  LastContinues' /\ MessagesWhole' /\ OnReportedLink'
<1> USE LinkMessagingAssumption
<1> DEFINE new == [by |-> t, part |-> next[t], cid |-> cid[t], on |-> link]
           n == Len(wire)
<1>1. Busy(t) /\ alive /\ link' = link /\ alive' = alive /\ wire' = Append(wire, new)
  BY DEF WritePart, Busy
<1>2. /\ n \in Nat /\ wire \in Seq(Part) /\ new \in Part
      /\ next \in [Sender -> 1 .. Parts] /\ link \in Nat
  BY DEF MessagingInv, MessagingType, Part
<1>3. /\ Len(wire') = n + 1 /\ wire'[n + 1] = new /\ wire' # <<>>
      /\ \A i \in 1 .. n : wire'[i] = wire[i]
  BY <1>1, <1>2
<1>4. LastContinues'
  <2>1. CASE next[t] = Parts
    <3>1. next'[t] = 1 /\ \A u \in Sender : u # t => next'[u] = next[u] /\ next[u] = 1
      BY <1>1, <1>2, <2>1 DEF WritePart, Finish, MessagingInv, OneBusy
    <3>2. new.on = link' /\ new.part = Parts /\ \A u \in Sender : next'[u] = 1
      BY <1>1, <2>1, <3>1
    <3> QED
      BY <1>2, <1>3, <3>2 DEF LastContinues
  <2>2. CASE next[t] # Parts
    <3>1. pc' = pc /\ next'[t] = next[t] + 1
      BY <1>2, <2>2 DEF WritePart
    <3>2. new.on = link' /\ new.part # Parts /\ new.by = t /\ Busy(t)' /\ next'[t] = new.part + 1
      BY <1>1, <2>2, <3>1 DEF Busy
    <3> QED
      BY <1>2, <1>3, <3>2 DEF LastContinues
  <2> QED
    BY <2>1, <2>2
<1>5. MessagesWhole'
  <2> SUFFICES ASSUME NEW i \in 1 .. n, wire'[i].on = wire'[i + 1].on
               PROVE  IF wire'[i].part = Parts THEN wire'[i + 1].part = 1
                      ELSE wire'[i + 1].by = wire'[i].by /\ wire'[i + 1].part = wire'[i].part + 1
    BY <1>2, <1>3 DEF MessagesWhole
  <2>1. CASE i < n
    <3>1. i \in 1 .. Len(wire) - 1 /\ wire'[i] = wire[i] /\ wire'[i + 1] = wire[i + 1]
      BY <1>2, <1>3, <2>1
    <3> QED
      BY <3>1 DEF MessagingInv, MessagesWhole
  <2>2. CASE i = n
    <3>1. wire # <<>> /\ wire'[i] = wire[Len(wire)] /\ wire'[i + 1] = new
      BY <1>2, <1>3, <2>2
    <3>2. wire[Len(wire)] \in Part /\ wire[Len(wire)].by \in Sender
      <4>1. Len(wire) \in 1 .. Len(wire)
        BY <1>2, <2>2
      <4>2. wire[Len(wire)] \in Part
        BY <1>2, <4>1
      <4> QED
        BY <4>2 DEF Part
    <3>3. wire[Len(wire)].on = link
      BY <3>1
    <3>4. IF wire[Len(wire)].part = Parts
          THEN next[t] = 1
          ELSE Busy(wire[Len(wire)].by) /\ next[wire[Len(wire)].by] = wire[Len(wire)].part + 1
      BY <1>1, <3>1, <3>3 DEF MessagingInv, LastContinues
    <3>5. wire[Len(wire)].part # Parts => wire[Len(wire)].by = t
      BY <1>1, <3>2, <3>4 DEF MessagingInv, OneBusy
    <3> QED
      BY <3>1, <3>4, <3>5
  <2> QED
    BY <1>2, <2>1, <2>2
<1>6. OnReportedLink'
  <2>1. new.on = new.cid
    BY <1>1 DEF MessagingInv, OneBusy
  <2>2. \A i \in 1 .. n : wire[i].on = wire[i].cid
    BY <1>2 DEF MessagingInv, OnReportedLink
  <2>3. DOMAIN wire' = 1 .. n + 1
    BY <1>1, <1>2
  <2> QED
    BY <1>2, <1>3, <2>1, <2>2, <2>3 DEF OnReportedLink
<1> QED
  BY <1>4, <1>5, <1>6

(* What every step of the senders, the receive thread and end() keeps.      *)
THEOREM MessagingInvariant == Spec => []MessagingInv
<1>1. Init => MessagingInv
  BY LinkMessagingAssumption DEF Init, MessagingInv, MessagingType, Place, OneBusy, Busy,
     LastContinues, MessagesWhole, OnReportedLink
<1>2. MessagingInv /\ [Next]_vars => MessagingInv'
  <2> SUFFICES ASSUME MessagingInv, [Next]_vars PROVE MessagingInv'
    OBVIOUS
  <2>1. MessagingType' /\ OneBusy'
    BY TypeStep, OneBusyStep DEF MessagingInv
  <2>2. CASE \E t \in Sender : WritePart(t)
    BY <2>1, <2>2, WritePartStep DEF MessagingInv
  <2>3. CASE UNCHANGED wire
    BY <2>1, <2>3, LastContinuesQuiet DEF MessagingInv, MessagesWhole, OnReportedLink
  <2>4. UNCHANGED wire \/ \E t \in Sender : WritePart(t)
    BY DEF Next, vars, Call, SendLoop, SendContinuation, Write, WriteBlocks, WriteFails,
       Receive, ReceiveTest, Connect, ReadFails, ReadEnds, EndCall, End, EndDisconnect, EndJoin,
       PeerMakesRoom, PeerBreaksLink, PeerResetsLink, senderVars
  <2> QED
    BY <2>2, <2>3, <2>4
<1> QED
  BY <1>1, <1>2, PTL DEF Spec

(* The messages of send() and sendContinuation() are whole on every link,   *)
(* however many threads send: mutex_ is held from the first part to the     *)
(* last, and connect() takes it to replace link_.                           *)
THEOREM MessagesStayWhole == Spec => []MessagesWhole
<1>1. MessagingInv => MessagesWhole
  BY DEF MessagingInv
<1> QED
  BY <1>1, MessagingInvariant, PTL

(* A continuation goes to the connection that the caller names or nowhere:  *)
(* the test of the stream id in sendContinuation() and the writes after it  *)
(* are under mutex_, and so is a reconnection.                              *)
THEOREM PartsGoWhereReported == Spec => []OnReportedLink
<1>1. MessagingInv => OnReportedLink
  BY DEF MessagingInv
<1> QED
  BY <1>1, MessagingInvariant, PTL
=============================================================================
