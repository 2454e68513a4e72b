---------------------------------- MODULE Rpc ----------------------------------
(***************************************************************************)
(* An RPC client and an RPC server, each over the LinkMessaging of its     *)
(* end of a link.  Of the messaging layer (module LinkMessaging) there is: *)
(* which connection an end is on, whether its link is up, where its        *)
(* receive thread is, and the messages under way, which arrive in order    *)
(* as long as the connection lasts.                                        *)
(*                                                                         *)
(* Connections are numbered.  An end connects again when its link breaks,  *)
(* when it gets a message that is too large for it, or when its device     *)
(* restarts; the link of the other end then breaks, and it follows.        *)
(***************************************************************************)
EXTENDS RpcClient, RpcServer

CONSTANT MaxConns   \* bound: connections made one after the other

ASSUME RpcAssumption == MaxConns \in Nat

VARIABLES on,        \* on[e]: the connection of end e, 0 at first
          up,        \* up[e]: its link_.status() is kConnecting or kConnected
          rx,        \* rx[e]: where its receive thread is
          toServer,  \* the requests under way
          toClient,  \* the responses under way
          lost,      \* history: calls that will not be answered
          answers    \* history: responses sent for each call

netVars == <<on, up, rx, toServer, toClient>>
vars == <<clientVars, serverVars, netVars, lost, answers>>

End == {"client", "server"}

Peer(e) == CHOOSE f \in End : f # e

Init ==
  /\ ClientInit /\ ServerInit
  /\ on = [e \in End |-> 0] /\ up = [e \in End |-> FALSE] /\ rx = [e \in End |-> "connect"]
  /\ toServer = <<>> /\ toClient = <<>>
  /\ lost = {} /\ answers = [c \in Call |-> 0]

RxGo(e, place) == rx' = [rx EXCEPT ![e] = place]

(* What is sent arrives if the other end is, or will be, on the connection. *)
Sent(e, messages, m) == IF on[Peer(e)] > m.k THEN messages ELSE Append(messages, m)

(* What an end has not read when it leaves a connection is lost: the first  *)
(* messages, up to those of connection k.                                   *)
Unread(k, messages) ==
  {n \in 0 .. Len(messages) : /\ \A i \in 1 .. n : messages[i].k < k
                              /\ n < Len(messages) => messages[n + 1].k >= k}

From(n, messages) == SubSeq(messages, n + 1, Len(messages))
-----------------------------------------------------------------------------
(* The messaging layer.  connect(): a new connection, unless the peer waits *)
(* in one already.  A send() that is under way holds the mutex.             *)
Connect(e) ==
  /\ rx[e] = "connect"
  /\ e = "client" => \A c \in Call : cpc[c] # "sent"
  /\ LET k == IF on[Peer(e)] > on[e] THEN on[Peer(e)] ELSE on[e] + 1 IN
     /\ on' = [on EXCEPT ![e] = k]
     /\ IF e = "client"
        THEN /\ \E n \in Unread(k, toClient) : toClient' = From(n, toClient)
             /\ UNCHANGED toServer
        ELSE /\ \E n \in Unread(k, toServer) : toServer' = From(n, toServer)
             /\ UNCHANGED toClient
  /\ up' = [up EXCEPT ![e] = TRUE]
  /\ RxGo(e, "read")
  /\ UNCHANGED <<clientVars, serverVars, lost, answers>>

Breaks(e) ==
  /\ up[e] /\ on[Peer(e)] > on[e]
  /\ up' = [up EXCEPT ![e] = FALSE]
  /\ UNCHANGED <<clientVars, serverVars, on, rx, toServer, toClient, lost, answers>>

MayLeave(e) == on[e] < MaxConns /\ on[Peer(e)] < MaxConns

(* A read fails because the link is broken, or because a message is too     *)
(* large: the receiver is told of the reset, before connect().              *)
ReadFails(e) ==
  /\ rx[e] = "read"
  /\ ~up[e] \/ MayLeave(e)
  /\ IF e = "client"
     THEN ConnectionReset /\ RxGo(e, "reset") /\ UNCHANGED serverVars
     ELSE /\ handling = {} /\ UNCHANGED clientVars
          /\ IF active THEN ServerConnectionReset(on[e]) ELSE UNCHANGED serverVars
          /\ RxGo(e, "connect")
  /\ UNCHANGED <<on, up, toServer, toClient, lost, answers>>

Restarts(e) ==
  /\ MayLeave(e) /\ on[e] > 0
  /\ IF e = "client" THEN ClientRestarts /\ UNCHANGED serverVars
                     ELSE ServerRestarts /\ UNCHANGED clientVars
  /\ up' = [up EXCEPT ![e] = FALSE]
  /\ RxGo(e, "connect")
  /\ UNCHANGED <<on, toServer, toClient, lost, answers>>
-----------------------------------------------------------------------------
(* The client.                                                              *)
Submit(c) == NewStream(c) /\ UNCHANGED <<serverVars, netVars, lost, answers>>

SendRequest(c) ==
  /\ up["client"] /\ \A d \in Call : cpc[d] # "sent"
  /\ SendWritten(c)
  /\ \E timeout \in 1 .. NoTimeout :
       toServer' = Sent("client", toServer, UnaryRequest(on["client"], cid[c], c, timeout))
  /\ lost' = IF rx["client"] \in {"reset", "connect"} THEN lost \cup {c} ELSE lost
  /\ UNCHANGED <<serverVars, on, up, rx, toClient, answers>>

SendDone(c) ==
  /\ SendReturns(c, up["client"])
  /\ UNCHANGED <<serverVars, netVars, lost, answers>>

Cancel(c) ==
  /\ CancelErase(c) \/ CancelClear(c)
  /\ UNCHANGED <<serverVars, netVars, lost, answers>>

ClientReceives ==
  /\ rx["client"] = "read"
  /\ toClient # <<>> /\ Head(toClient).k = on["client"]
  /\ HandleResponse(Head(toClient))
  /\ toClient' = Tail(toClient)
  /\ RxGo("client", "complete")
  /\ UNCHANGED <<serverVars, on, up, toServer, lost, answers>>

(* The receive thread completes the calls it has claimed, then goes on.     *)
ClientCompletes ==
  /\ \/ \E r \in claimed : Complete(r) /\ UNCHANGED rx
     \/ /\ claimed = {} /\ UNCHANGED clientVars
        /\ \/ rx["client"] = "complete" /\ RxGo("client", "read")
           \/ rx["client"] = "reset" /\ RxGo("client", "connect")
  /\ UNCHANGED <<serverVars, on, up, toServer, toClient, lost, answers>>
-----------------------------------------------------------------------------
(* The server.                                                              *)
ServerReceives ==
  /\ rx["server"] = "read" /\ handling = {}
  /\ toServer # <<>> /\ Head(toServer).k = on["server"]
  /\ \/ HandleRequest(Head(toServer)) /\ lost' = IF active THEN lost ELSE lost \cup {Head(toServer).call}
     \/ ~active /\ UNCHANGED serverVars /\ lost' = lost \cup {Head(toServer).call}
  /\ toServer' = Tail(toServer)
  /\ UNCHANGED <<clientVars, on, up, rx, toClient, answers>>

ServerStep ==
  /\ \/ Dispatch \/ (\E h \in handles : Respond(h))
     \/ DeadlineTest \/ DeadlineWakes \/ Tick
  /\ UNCHANGED <<clientVars, netVars, lost, answers>>

ServerControl ==
  /\ \/ ServerEnd /\ lost' = lost \cup {pending[i].call : i \in DOMAIN pending}
     \/ ServerBegin /\ UNCHANGED lost
  /\ UNCHANGED <<clientVars, netVars, answers>>

(* Faulty: on any connection.                                               *)
MayContinueBug(r) == up["server"]

(* sendContinuation(): only on the connection of the request.               *)
MayContinue(r) == up["server"] /\ on["server"] = r.msg.k

SendResponse ==
  \E r \in responding :
    /\ ResponseSent(r)
    /\ IF MayContinue(r)
       THEN /\ toClient' = Sent("server", toClient, [r.msg EXCEPT !.k = on["server"]])
            /\ answers' = [answers EXCEPT ![r.msg.call] = @ + 1]
       ELSE UNCHANGED <<toClient, answers>>
    /\ UNCHANGED <<clientVars, on, up, rx, toServer, lost>>

Next ==
  \/ \E e \in End : Connect(e) \/ Breaks(e) \/ ReadFails(e) \/ Restarts(e)
  \/ \E c \in Call : Submit(c) \/ SendRequest(c) \/ SendDone(c) \/ Cancel(c)
  \/ ClientReceives \/ ClientCompletes
  \/ ServerReceives \/ ServerStep \/ ServerControl \/ SendResponse

Spec == Init /\ [][Next]_vars

(* Threads are scheduled, handlers respond, time passes and links break     *)
(* when the peer has left.                                                  *)
Fairness ==
  /\ \A e \in End : WF_vars(Connect(e)) /\ WF_vars(Breaks(e)) /\ WF_vars(~up[e] /\ ReadFails(e))
  /\ \A c \in Call : WF_vars(SendDone(c)) /\ WF_vars(Cancel(c))
  /\ WF_vars(ClientReceives) /\ WF_vars(ClientCompletes)
  /\ WF_vars(ServerReceives) /\ WF_vars(ServerStep) /\ WF_vars(SendResponse)

FairSpec == Spec /\ Fairness
-----------------------------------------------------------------------------
TypeOK ==
  /\ ClientTypeOK /\ ServerTypeOK
  /\ on \in [End -> 0 .. MaxConns] /\ up \in [End -> BOOLEAN]
  /\ rx \in [End -> {"connect", "read", "complete", "reset"}]

(* The callback of a call is called at most once, and not any more when the *)
(* submission has failed: the caller may have destroyed what it refers to.  *)
CallbackAllowed ==
  [][\A c \in Call : result'[c] # result[c] => result[c] = <<>> /\ cpc[c] # "failed"]_vars

(* A callback gets the response to its own call, although stream ids are    *)
(* used again after a restart and handlers outlive their connection.        *)
OwnResponse ==
  \A c \in Call : \A i \in DOMAIN result[c] : result[c][i].of \in {0, c}

(* A request is answered at most once, whoever answers: its handler, the    *)
(* deadline thread or the dispatcher.                                       *)
AnsweredOnce == \A c \in Call : answers[c] <= 1

(* A request is taken off the pending ones only to be answered, unless its  *)
(* connection is gone or the server ends: a handler of an earlier           *)
(* connection must not consume a request that has the same stream id.       *)
TakenToAnswer ==
  [][\A i \in DOMAIN pending :
       i \notin DOMAIN pending' /\ current' = current /\ active' =>
         \E r \in responding' : r.msg.k = pending[i].k /\ r.msg.call = pending[i].call]_vars

(* A call that was accepted completes, however often the connection is      *)
(* reset, unless it is in `lost': a server that was ended dropped it, or it *)
(* was sent on a link whose receiver had been reset already.                *)
CallCompletes ==
  \A c \in Call : cpc[c] = "ok" ~> (result[c] # <<>> \/ cpc[c] = "gone" \/ c \in lost)

(* end() finds the deadline thread at its end, whatever it waits for.       *)
DeadlineThreadEnds == ~active ~> dpc \in {"none", "done"}
=============================================================================
