------------------------------ MODULE RpcProofs ------------------------------
(***************************************************************************)
(* The safety of Rpc, for any number of calls, connections and restarts,   *)
(* as long as no more calls are made than there are stream ids.            *)
(***************************************************************************)
EXTENDS Rpc, TLAPS

(* What identifies a call on the wire, and the call.                        *)
Key == [k : Nat, id : Nat, call : Call]

KeyOf(m) == [k |-> m.k, id |-> m.id, call |-> m.call]

RequestMsg == [k : Nat, id : Nat, call : Call, timeout : Nat]
ResponseMsg == [k : Nat, id : Nat, call : Call, status : {"ok", "failure", "deadline"}]
Outcome(c) == [status : {"ok", "failure", "deadline", "unavailable"}, of : {0, c}]

Submitted == {"sent", "ok", "erase", "clear", "failed"}

ClientType ==
  /\ nextId \in Nat /\ cid \in [Call -> Nat] /\ armed \in [Call -> BOOLEAN]
  /\ cpc \in [Call -> Submitted \cup {"out", "send", "gone"}]
  /\ DOMAIN result = Call /\ \A c \in Call : result[c] \in Seq(Outcome(c))
  /\ \A r \in claimed : r.call \in Call /\ r.with \in Outcome(r.call)

ServerType ==
  /\ current \in Nat /\ handling \subseteq Key /\ handles \subseteq Key
  /\ \A i \in DOMAIN pending :
       /\ pending[i] \in [k : {current}, id : {i}, call : Call, left : Nat]
       /\ i \in Nat
  /\ responding \subseteq [by : {"handler", "timer"}, msg : ResponseMsg]

NetType ==
  /\ on \in [End -> Nat] /\ up \in [End -> BOOLEAN]
  /\ rx \in [End -> {"connect", "read", "complete", "reset"}]
  /\ toServer \in Seq(RequestMsg) /\ toClient \in Seq(ResponseMsg)
  /\ answers \in [Call -> Nat]
  /\ \A e \in End : up[e] \/ rx[e] # "connect" => on[e] > 0

(* Calls up to s have been submitted, those up to b to a client that has    *)
(* been restarted since; the others have got the stream ids from 1 on.      *)
Numbered(b, s) ==
  /\ b <= s /\ s <= MaxCalls
  /\ \A c \in Call : /\ cpc[c] = "out" <=> s < c
                     /\ cpc[c] = "gone" <=> c <= b
                     /\ b < c /\ c <= s => cid[c] = c - b
  /\ s < MaxCalls => nextId = s - b + 1

CallsNumbered == \E b, s \in 0 .. MaxCalls : Numbered(b, s)

(* The registry has calls of this client under their stream ids.            *)
RegistryExact ==
  \A i \in DOMAIN calls :
    /\ calls[i] \in Call /\ cid[calls[i]] = i
    /\ cpc[calls[i]] # "out" /\ cpc[calls[i]] # "gone"

(* A callback that is there has not been called, nor given up.              *)
CallbackWaits ==
  \A c \in Call : /\ armed[c] => cpc[c] # "out" /\ cpc[c] # "failed"
                  /\ armed[c] \/ cpc[c] = "out" => result[c] = <<>>

(* The keys in requests, at the server and in responses.                    *)
Known(x) ==
  \/ \E i \in 1 .. Len(toServer) : KeyOf(toServer[i]) = x
  \/ \E i \in DOMAIN pending : KeyOf(pending[i]) = x
  \/ x \in handling \/ x \in handles
  \/ \E r \in responding : KeyOf(r.msg) = x
  \/ \E i \in 1 .. Len(toClient) : KeyOf(toClient[i]) = x

(* The client has been restarted and has not connected again.               *)
Restarted == rx["client"] = "connect" /\ ~up["client"]

(* The calls of an earlier client were made on earlier connections.         *)
KeysExact ==
  \A x \in Key : Known(x) =>
    /\ x.id = cid[x.call] /\ 0 < x.k /\ x.k <= on["client"]
    /\ cpc[x.call] \in Submitted \cup {"gone"}
    /\ cpc[x.call] = "gone" => x.k < on["client"] \/ Restarted

KeysUnique ==
  \A x, y \in Key : Known(x) /\ Known(y) /\ x.k = y.k /\ x.id = y.id => x.call = y.call

Requested(c) == \E i \in 1 .. Len(toServer) : toServer[i].call = c
Pending(c) == \E i \in DOMAIN pending : pending[i].call = c
Responding(c) == \E r \in responding : r.msg.call = c

(* A call is in one place only, from its request to its response.           *)
OnePlace ==
  /\ \A i, j \in 1 .. Len(toServer) : toServer[i].call = toServer[j].call => i = j
  /\ \A r, q \in responding : r.msg.call = q.msg.call => r = q
  /\ \A c \in Call :
       /\ Requested(c) => ~Pending(c) /\ ~Responding(c) /\ answers[c] = 0
       /\ Pending(c) => ~Responding(c) /\ answers[c] = 0
       /\ Responding(c) => answers[c] = 0
       /\ cpc[c] = "out" \/ cpc[c] = "send" => answers[c] = 0
       /\ answers[c] <= 1

RpcInv ==
  /\ ClientType /\ ServerType /\ NetType
  /\ CallsNumbered /\ RegistryExact /\ CallbackWaits
  /\ KeysExact /\ KeysUnique /\ OnePlace
-----------------------------------------------------------------------------
(* The other end.                                                           *)
LEMMA Peers == Peer("client") = "server" /\ Peer("server") = "client"
BY Zenon DEF Peer, End

(* Going on from message n on drops messages, and no more.                  *)
LEMMA FromKeeps ==
  ASSUME NEW S, NEW s \in Seq(S), NEW n \in 0 .. Len(s)
  PROVE  /\ From(n, s) \in Seq(S)
         /\ \A i \in 1 .. Len(From(n, s)) : i + n \in 1 .. Len(s) /\ From(n, s)[i] = s[i + n]
BY DEF From

(* The first message, and the rest.                                         *)
LEMMA HeadTail ==
  ASSUME NEW S, NEW s \in Seq(S), s # <<>>
  PROVE  /\ Len(s) \in Nat /\ Len(s) > 0 /\ Head(s) = s[1] /\ s[1] \in S
         /\ Tail(s) \in Seq(S) /\ Len(Tail(s)) = Len(s) - 1
         /\ \A i \in 1 .. Len(Tail(s)) : i + 1 \in 1 .. Len(s) /\ Tail(s)[i] = s[i + 1]
OBVIOUS

(* One more message at the end.                                             *)
LEMMA AppendKeeps ==
  ASSUME NEW S, NEW s \in Seq(S), NEW m \in S
  PROVE  /\ Append(s, m) \in Seq(S) /\ Len(Append(s, m)) = Len(s) + 1 /\ Len(s) \in Nat
         /\ \A i \in 1 .. Len(Append(s, m)) :
              \/ i \in 1 .. Len(s) /\ Append(s, m)[i] = s[i]
              \/ i = Len(s) + 1 /\ Append(s, m)[i] = m
OBVIOUS
-----------------------------------------------------------------------------
(* The client.                                                              *)
ClientInv == ClientType /\ CallsNumbered /\ RegistryExact /\ CallbackWaits

(* What a step of the client that is not a restart leaves to the others.    *)
ClientKeeps ==
  \A c \in Call :
    /\ cpc[c] \in Submitted \cup {"gone"} =>
         cid'[c] = cid[c] /\ cpc'[c] \in Submitted \cup {"gone"}
    /\ cpc'[c] = "gone" => cpc[c] = "gone"
    /\ cpc'[c] = "out" \/ cpc'[c] = "send" => cpc[c] = "out" \/ cpc[c] = "send"

(* A step that changes no variable of the client.                           *)
LEMMA ClientUnchanged ==
  ASSUME ClientInv, UNCHANGED clientVars
  PROVE  ClientInv' /\ ClientKeeps
<1>1. /\ nextId' = nextId /\ calls' = calls /\ cpc' = cpc /\ cid' = cid
      /\ armed' = armed /\ claimed' = claimed /\ result' = result
  BY Zenon DEF clientVars
<1> QED
  BY <1>1, Zenon DEF ClientInv, ClientType, CallsNumbered, Numbered, RegistryExact, CallbackWaits,
                     ClientKeeps

(* The stream ids of the calls of one client differ.                        *)
LEMMA OwnIds ==
  ASSUME CallsNumbered, NEW c \in Call, NEW d \in Call, cid[c] = cid[d],
         cpc[c] # "out", cpc[c] # "gone", cpc[d] # "out", cpc[d] # "gone"
  PROVE  c = d
<1>1. PICK b \in 0 .. MaxCalls, s \in 0 .. MaxCalls : Numbered(b, s)
  BY Zenon DEF CallsNumbered
<1> QED
  BY <1>1, RpcClientAssumption DEF Numbered, Call

(* The next call gets the next number, and a stream id no call has.         *)
LEMMA NewStreamStep ==
  ASSUME ClientInv, MaxCalls <= MaxId, NEW c \in Call, NewStream(c)
  PROVE  ClientInv' /\ ClientKeeps
<1> USE RpcClientAssumption
<1>1. PICK b \in 0 .. MaxCalls, s \in 0 .. MaxCalls : Numbered(b, s)
  BY Zenon DEF CallsNumbered, ClientInv
<1>2. /\ cpc[c] = "out" /\ \A d \in 1 .. c - 1 : cpc[d] # "out"
      /\ nextId' = IF nextId + 1 > MaxId THEN 1 ELSE nextId + 1
      /\ claimed' = claimed /\ result' = result
  BY Zenon DEF NewStream, IsNext
<1>3. /\ cpc \in [Call -> Submitted \cup {"out", "send", "gone"}] /\ cid \in [Call -> Nat]
      /\ armed \in [Call -> BOOLEAN] /\ nextId \in Nat
  BY Zenon DEF ClientInv, ClientType
<1>4. /\ cpc' \in [Call -> Submitted \cup {"out", "send", "gone"}]
      /\ cpc'[c] = "send" /\ \A d \in Call : d # c => cpc'[d] = cpc[d]
  BY Zenon, <1>3 DEF NewStream, Go
<1>5. /\ cid' \in [Call -> Nat]
      /\ cid'[c] = nextId /\ \A d \in Call : d # c => cid'[d] = cid[d]
  BY Zenon, <1>3 DEF NewStream
<1>6. /\ armed' \in [Call -> BOOLEAN] /\ \A d \in Call : d # c => armed'[d] = armed[d]
  BY Zenon, <1>3 DEF NewStream
<1>7. c = s + 1
  <2>1. s < c
    BY Zenon, <1>1, <1>2 DEF Numbered
  <2>2. \A d \in 1 .. c - 1 : d <= s
    BY <1>1, <1>2 DEF Numbered, Call
  <2> QED
    BY <2>1, <2>2 DEF Call
<1>8. nextId = s - b + 1 /\ s < MaxCalls /\ b <= s
  BY <1>1, <1>7 DEF Numbered, Call
<1>9. ClientType'
  BY <1>2, <1>3, <1>4, <1>5, <1>6 DEF ClientInv, ClientType
<1>10. CallsNumbered'
  <2>1. \A d \in Call : /\ cpc'[d] = "out" <=> s + 1 < d
                        /\ cpc'[d] = "gone" <=> d <= b
                        /\ b < d /\ d <= s + 1 => cid'[d] = d - b
    <3> TAKE d \in Call
    <3>1. CASE d = c
      BY <1>4, <1>5, <1>7, <1>8, <3>1
    <3>2. CASE d # c
      <4>1. s + 1 < d <=> s < d
        BY <1>7, <3>2 DEF Call
      <4>2. d <= s + 1 <=> d <= s
        BY <1>7, <3>2 DEF Call
      <4> QED
        BY Zenon, <1>1, <1>4, <1>5, <3>2, <4>1, <4>2 DEF Numbered
    <3> QED
      BY Zenon, <3>1, <3>2
  <2>2. s + 1 < MaxCalls => nextId' = (s + 1) - b + 1
    BY <1>2, <1>8
  <2>3. s + 1 \in 0 .. MaxCalls /\ b <= s + 1
    BY <1>8
  <2> QED
    BY <2>1, <2>2, <2>3 DEF CallsNumbered, Numbered
<1>11. RegistryExact'
  <2>1. calls' = IF nextId \in DOMAIN calls THEN calls ELSE With(calls, nextId, c)
    BY Zenon DEF NewStream
  <2>2. \A i \in DOMAIN calls :
          /\ calls[i] \in Call /\ cid[calls[i]] = i /\ calls[i] # c
          /\ cpc[calls[i]] # "out" /\ cpc[calls[i]] # "gone"
    BY Zenon, <1>2 DEF ClientInv, RegistryExact
  <2>3. CASE nextId \in DOMAIN calls
    BY Zenon, <1>4, <1>5, <2>1, <2>2, <2>3 DEF RegistryExact
  <2>4. CASE nextId \notin DOMAIN calls
    <3>1. calls' = With(calls, nextId, c)
      BY Zenon, <2>1, <2>4
    <3>2. DOMAIN calls' = DOMAIN calls \cup {nextId} /\ calls'[nextId] = c
      BY Zenon, <3>1 DEF With
    <3>3. \A i \in DOMAIN calls : calls'[i] = calls[i]
      BY Zenon, <2>4, <3>1 DEF With
    <3> QED
      BY <1>4, <1>5, <2>2, <3>2, <3>3 DEF RegistryExact
  <2> QED
    BY Zenon, <2>3, <2>4
<1>12. CallbackWaits'
  BY Zenon, <1>2, <1>4, <1>6 DEF ClientInv, CallbackWaits
<1>13. ClientKeeps
  BY Zenon, <1>2, <1>4, <1>5 DEF ClientKeeps, Submitted
<1> QED
  BY Zenon, <1>9, <1>10, <1>11, <1>12, <1>13 DEF ClientInv

(* Going on with a submission.                                              *)
LEMMA SubmissionStep ==
  ASSUME ClientInv, NEW c \in Call, NEW place \in Submitted, Go(c, place),
         cpc[c] \in Submitted \cup {"send"},
         calls' = calls \/ calls' = Except(calls, cid[c]),
         armed' \in [Call -> BOOLEAN], \A d \in Call : armed'[d] => armed[d],
         armed'[c] => place # "failed",
         UNCHANGED <<nextId, cid, claimed, result>>
  PROVE  ClientInv' /\ ClientKeeps
<1>1. cpc \in [Call -> Submitted \cup {"out", "send", "gone"}]
  BY Zenon DEF ClientInv, ClientType
<1>2. /\ cpc' \in [Call -> Submitted \cup {"out", "send", "gone"}]
      /\ cpc'[c] = place /\ \A d \in Call : d # c => cpc'[d] = cpc[d]
  BY Zenon, <1>1 DEF Go
<1>3. cpc[c] # "out" /\ cpc[c] # "gone" /\ place # "out" /\ place # "gone" /\ place # "send"
  BY Zenon DEF Submitted
<1>4. ClientType'
  BY Zenon, <1>2 DEF ClientInv, ClientType
<1>5. CallsNumbered'
  <2>1. PICK b \in 0 .. MaxCalls, s \in 0 .. MaxCalls : Numbered(b, s)
    BY Zenon DEF CallsNumbered, ClientInv
  <2>2. Numbered(b, s)'
    BY Zenon, <1>2, <1>3, <2>1 DEF Numbered
  <2> QED
    BY Zenon, <2>2 DEF CallsNumbered
<1>6. RegistryExact'
  <2>1. \A i \in DOMAIN calls' : i \in DOMAIN calls /\ calls'[i] = calls[i]
    BY Zenon DEF Except
  <2> QED
    BY <1>2, <1>3, <2>1 DEF ClientInv, RegistryExact
<1>7. CallbackWaits'
  BY Zenon, <1>2, <1>3 DEF ClientInv, CallbackWaits
<1>8. ClientKeeps
  BY Zenon, <1>2, <1>3 DEF ClientKeeps, Submitted
<1> QED
  BY Zenon, <1>4, <1>5, <1>6, <1>7, <1>8 DEF ClientInv

(* Calls leave the registry, with an outcome that is theirs.                *)
LEMMA ClaimedStep ==
  ASSUME ClientInv, UNCHANGED <<nextId, cpc, cid, armed, result>>,
         \A i \in DOMAIN calls' : i \in DOMAIN calls /\ calls'[i] = calls[i],
         \A r \in claimed' : r.call \in Call /\ r.with \in Outcome(r.call)
  PROVE  ClientInv' /\ ClientKeeps
<1>1. ClientType'
  BY Zenon DEF ClientInv, ClientType
<1>2. CallsNumbered'
  BY Zenon DEF ClientInv, CallsNumbered, Numbered
<1>3. RegistryExact'
  BY Zenon DEF ClientInv, RegistryExact
<1>4. CallbackWaits' /\ ClientKeeps
  BY Zenon DEF ClientInv, CallbackWaits, ClientKeeps
<1> QED
  BY Zenon, <1>1, <1>2, <1>3, <1>4 DEF ClientInv

(* complete(): the callback is taken, and called if it was there.           *)
LEMMA CompleteStep ==
  ASSUME ClientInv, NEW r \in claimed, Complete(r)
  PROVE  /\ ClientInv' /\ ClientKeeps
         /\ \A c \in Call : result'[c] # result[c] => result[c] = <<>> /\ cpc[c] # "failed"
<1>1. PICK d, w : d = r.call /\ w = r.with
  BY Zenon
<1>2. d \in Call /\ w \in Outcome(d)
  BY Zenon, <1>1 DEF ClientInv, ClientType
<1>3. /\ claimed' \subseteq claimed /\ armed' = [armed EXCEPT ![d] = FALSE]
      /\ result' = IF armed[d] THEN [result EXCEPT ![d] = Append(@, w)] ELSE result
      /\ nextId' = nextId /\ calls' = calls /\ cpc' = cpc /\ cid' = cid
  BY Zenon, <1>1 DEF Complete
<1>4. armed \in [Call -> BOOLEAN] /\ DOMAIN result = Call /\ \A c \in Call : result[c] \in Seq(Outcome(c))
  BY Zenon DEF ClientInv, ClientType
<1>5. armed' \in [Call -> BOOLEAN] /\ ~armed'[d] /\ \A c \in Call : c # d => armed'[c] = armed[c]
  BY Zenon, <1>2, <1>3, <1>4
<1>6. DOMAIN result' = Call /\ \A c \in Call : c # d => result'[c] = result[c]
  BY Zenon, <1>2, <1>3, <1>4
<1>7. result'[d] = (IF armed[d] THEN Append(result[d], w) ELSE result[d])
  BY Zenon, <1>2, <1>3, <1>4
<1>8. result'[d] \in Seq(Outcome(d))
  BY <1>2, <1>4, <1>7
<1>9. ClientType'
  BY Zenon, <1>3, <1>4, <1>5, <1>6, <1>8 DEF ClientInv, ClientType
<1>10. CallsNumbered' /\ RegistryExact' /\ ClientKeeps
  BY Zenon, <1>3 DEF ClientInv, CallsNumbered, Numbered, RegistryExact, ClientKeeps
<1>11. armed[d] => cpc[d] # "out" /\ cpc[d] # "failed" /\ result[d] = <<>>
  BY Zenon, <1>2 DEF ClientInv, CallbackWaits
<1>12. CallbackWaits'
  <2> SUFFICES ASSUME NEW c \in Call
               PROVE  /\ armed'[c] => cpc[c] # "out" /\ cpc[c] # "failed"
                      /\ armed'[c] \/ cpc[c] = "out" => result'[c] = <<>>
    BY Zenon, <1>3 DEF CallbackWaits
  <2>1. CASE c # d
    BY Zenon, <1>5, <1>6, <2>1 DEF ClientInv, CallbackWaits
  <2>2. CASE c = d
    BY Zenon, <1>2, <1>5, <1>7, <1>11, <2>2 DEF ClientInv, CallbackWaits
  <2> QED
    BY Zenon, <2>1, <2>2
<1> QED
  BY Zenon, <1>6, <1>7, <1>9, <1>10, <1>11, <1>12 DEF ClientInv

(* After a restart the calls so far are gone, and stream ids begin again.   *)
LEMMA ClientRestartStep ==
  ASSUME ClientInv, ClientRestarts
  PROVE  /\ ClientInv' /\ cid' = cid
         /\ \A c \in Call : /\ cpc'[c] = IF cpc[c] = "out" THEN "out" ELSE "gone"
                            /\ result'[c] = result[c]
<1>1. /\ nextId' = 1 /\ DOMAIN calls' = {} /\ claimed' = {} /\ cid' = cid /\ result' = result
      /\ \A c \in Call : cpc'[c] = IF cpc[c] = "out" THEN "out" ELSE "gone"
      /\ armed' \in [Call -> BOOLEAN] /\ \A c \in Call : ~armed'[c]
      /\ cpc' \in [Call -> Submitted \cup {"out", "send", "gone"}]
  BY Zenon DEF ClientRestarts
<1>2. ClientType'
  BY Zenon, <1>1 DEF ClientInv, ClientType
<1>3. CallsNumbered'
  <2>1. PICK b \in 0 .. MaxCalls, s \in 0 .. MaxCalls : Numbered(b, s)
    BY Zenon DEF CallsNumbered, ClientInv
  <2>2. \A c \in Call : c <= s <=> ~(s < c)
    BY DEF Call
  <2>3. Numbered(s, s)'
    BY <1>1, <2>1, <2>2 DEF Numbered
  <2> QED
    BY Zenon, <2>3 DEF CallsNumbered
<1>4. RegistryExact'
  BY Zenon, <1>1 DEF RegistryExact
<1>5. CallbackWaits'
  BY Zenon, <1>1 DEF ClientInv, CallbackWaits
<1> QED
  BY Zenon, <1>1, <1>2, <1>3, <1>4, <1>5 DEF ClientInv

(* connectionReset(): every call of the registry gets no response.          *)
LEMMA ResetStep ==
  ASSUME ClientInv, ConnectionReset
  PROVE  ClientInv' /\ ClientKeeps /\ result' = result
<1>1. /\ DOMAIN calls' = {} /\ UNCHANGED <<nextId, cpc, cid, armed, result>>
      /\ claimed' = {[call |-> calls[i], with |-> Unavailable] : i \in DOMAIN calls}
  BY Zenon DEF ConnectionReset
<1>2. \A r \in claimed' : r.call \in Call /\ r.with \in Outcome(r.call)
  BY <1>1 DEF ClientInv, RegistryExact, Unavailable, Outcome
<1> QED
  BY Zenon, <1>1, <1>2, ClaimedStep

(* handleResponse(): a response on the client's connection is to the call   *)
(* that the registry has under its stream id.                               *)
LEMMA ResponseStep ==
  ASSUME ClientInv, NEW m \in ResponseMsg, HandleResponse(m), m.id = cid[m.call],
         cpc[m.call] \in Submitted
  PROVE  ClientInv' /\ ClientKeeps /\ result' = result
<1>1. PICK i, c : i = m.id /\ c = m.call
  BY Zenon
<1>2. c \in Call /\ m.status \in {"ok", "failure", "deadline"}
  BY Zenon, <1>1 DEF ResponseMsg
<1>3. /\ UNCHANGED <<nextId, cpc, cid, armed, result>> /\ calls' = Except(calls, i)
      /\ claimed' = IF i \in DOMAIN calls
                    THEN {[call |-> calls[i], with |-> [status |-> m.status, of |-> c]]} ELSE {}
  BY Zenon, <1>1 DEF HandleResponse
<1>4. i \in DOMAIN calls => calls[i] = c
  BY <1>1, <1>2, OwnIds DEF ClientInv, RegistryExact, Submitted
<1>5. \A r \in claimed' : r.call \in Call /\ r.with \in Outcome(r.call)
  BY <1>2, <1>3, <1>4 DEF Outcome
<1>6. \A j \in DOMAIN calls' : j \in DOMAIN calls /\ calls'[j] = calls[j]
  BY Zenon, <1>3 DEF Except
<1> QED
  BY Zenon, <1>3, <1>5, <1>6, ClaimedStep
-----------------------------------------------------------------------------
(* Keys.                                                                    *)

(* A key of a message, a request or a handle is a key.                      *)
LEMMA KnownTyped ==
  ASSUME ServerType, NetType, NEW x, Known(x)
  PROVE  x \in Key
<1>1. \A m \in RequestMsg : KeyOf(m) \in Key
  BY Zenon DEF RequestMsg, KeyOf, Key
<1>2. \A m \in ResponseMsg : KeyOf(m) \in Key
  BY Zenon DEF ResponseMsg, KeyOf, Key
<1>3. \A i \in 1 .. Len(toServer) : toServer[i] \in RequestMsg
  BY DEF NetType
<1>4. \A i \in 1 .. Len(toClient) : toClient[i] \in ResponseMsg
  BY DEF NetType
<1>5. \A i \in DOMAIN pending : KeyOf(pending[i]) \in Key
  BY DEF ServerType, KeyOf, Key
<1>6. \A r \in responding : r.msg \in ResponseMsg
  BY Zenon DEF ServerType
<1> QED
  BY Zenon, <1>1, <1>2, <1>3, <1>4, <1>5, <1>6 DEF Known, ServerType

(* No new key, and no restart of the client.                                *)
LEMMA KeysStep ==
  ASSUME NetType, NetType', KeysExact, KeysUnique, ClientKeeps,
         \A x \in Key : Known(x)' => Known(x),
         on["client"] <= on'["client"],
         Restarted => Restarted' \/ on["client"] < on'["client"]
  PROVE  KeysExact' /\ KeysUnique'
<1>1. on["client"] \in Nat /\ on'["client"] \in Nat
  BY Zenon DEF NetType, End
<1>2. KeysExact'
  <2> SUFFICES ASSUME NEW x \in Key, Known(x)
               PROVE  /\ x.id = cid'[x.call] /\ 0 < x.k /\ x.k <= on'["client"]
                      /\ cpc'[x.call] \in Submitted \cup {"gone"}
                      /\ cpc'[x.call] = "gone" => x.k < on'["client"] \/ Restarted'
    BY Zenon DEF KeysExact
  <2>1. /\ x.id = cid[x.call] /\ 0 < x.k /\ x.k <= on["client"]
        /\ cpc[x.call] \in Submitted \cup {"gone"}
        /\ cpc[x.call] = "gone" => x.k < on["client"] \/ Restarted
    BY Zenon DEF KeysExact
  <2>2. x.k \in Nat /\ x.call \in Call
    BY Zenon DEF Key
  <2>3. /\ cid'[x.call] = cid[x.call] /\ cpc'[x.call] \in Submitted \cup {"gone"}
        /\ cpc'[x.call] = "gone" => cpc[x.call] = "gone"
    BY Zenon, <2>1, <2>2 DEF ClientKeeps
  <2> QED
    BY <1>1, <2>1, <2>2, <2>3
<1>3. KeysUnique'
  BY Zenon DEF KeysUnique
<1> QED
  BY Zenon, <1>2, <1>3

(* Calls leave places, and take none.                                       *)
LEMMA PlacesStep ==
  ASSUME OnePlace, ClientKeeps, NEW n \in Nat,
         \A i \in 1 .. Len(toServer') : i + n \in 1 .. Len(toServer) /\ toServer'[i] = toServer[i + n],
         \A i \in DOMAIN pending' : \E j \in DOMAIN pending : pending'[i].call = pending[j].call,
         responding' \subseteq responding, answers' = answers
  PROVE  OnePlace'
<1>1. \A i, j \in 1 .. Len(toServer') : toServer'[i].call = toServer'[j].call => i = j
  <2> SUFFICES ASSUME NEW i \in 1 .. Len(toServer'), NEW j \in 1 .. Len(toServer'),
                      toServer'[i].call = toServer'[j].call
               PROVE  i = j
    BY Zenon
  <2>1. PICK a, b : a = i + n /\ b = j + n
    BY Zenon
  <2>2. /\ a \in 1 .. Len(toServer) /\ b \in 1 .. Len(toServer)
        /\ toServer[a].call = toServer[b].call
    BY Zenon, <2>1
  <2>3. a = b
    BY Zenon, <2>2 DEF OnePlace
  <2> QED
    BY <2>1, <2>3
<1>2. \A c : /\ Requested(c)' => Requested(c)
             /\ Pending(c)' => Pending(c)
             /\ Responding(c)' => Responding(c)
  BY DEF Requested, Pending, Responding
<1>3. \A r, q \in responding' : r.msg.call = q.msg.call => r = q
  BY Zenon DEF OnePlace
<1>4. ASSUME NEW c \in Call
      PROVE  /\ Requested(c)' => ~Pending(c)' /\ ~Responding(c)' /\ answers'[c] = 0
             /\ Pending(c)' => ~Responding(c)' /\ answers'[c] = 0
             /\ Responding(c)' => answers'[c] = 0
             /\ cpc'[c] = "out" \/ cpc'[c] = "send" => answers'[c] = 0
             /\ answers'[c] <= 1
  BY Zenon, <1>2 DEF OnePlace, ClientKeeps
<1> QED
  BY Zenon, <1>1, <1>3, <1>4 DEF OnePlace

RpcKeeps ==
  /\ ClientInv' /\ ClientKeeps /\ ServerType' /\ NetType'
  /\ on["client"] <= on'["client"]
  /\ Restarted => Restarted' \/ on["client"] < on'["client"]

(* Messages and requests are taken off, and handles come from those known.  *)
LEMMA ShrinkStep ==
  ASSUME RpcInv, RpcKeeps, NEW n \in Nat, NEW k \in Nat,
         \A i \in 1 .. Len(toServer') : i + n \in 1 .. Len(toServer) /\ toServer'[i] = toServer[i + n],
         \A i \in 1 .. Len(toClient') : i + k \in 1 .. Len(toClient) /\ toClient'[i] = toClient[i + k],
         \A i \in DOMAIN pending' : i \in DOMAIN pending /\ KeyOf(pending'[i]) = KeyOf(pending[i]),
         \A h : h \in handling' \/ h \in handles' => Known(h),
         responding' \subseteq responding, answers' = answers
  PROVE  RpcInv'
<1>1. \A x : Known(x)' => Known(x)
  <2> SUFFICES ASSUME NEW x, Known(x)' PROVE Known(x)
    BY Zenon
  <2>1. CASE \E i \in 1 .. Len(toServer') : KeyOf(toServer'[i]) = x
    BY <2>1 DEF Known
  <2>2. CASE \E i \in DOMAIN pending' : KeyOf(pending'[i]) = x
    BY Zenon, <2>2 DEF Known
  <2>3. CASE x \in handling' \/ x \in handles'
    BY Zenon, <2>3
  <2>4. CASE \E r \in responding' : KeyOf(r.msg) = x
    BY Zenon, <2>4 DEF Known
  <2>5. CASE \E i \in 1 .. Len(toClient') : KeyOf(toClient'[i]) = x
    BY <2>5 DEF Known
  <2> QED
    BY Zenon, <2>1, <2>2, <2>3, <2>4, <2>5 DEF Known
<1>2. KeysExact' /\ KeysUnique'
  BY Zenon, <1>1, KeysStep DEF RpcInv, RpcKeeps
<1>3. \A i \in DOMAIN pending' : \E j \in DOMAIN pending : pending'[i].call = pending[j].call
  <2> SUFFICES ASSUME NEW i \in DOMAIN pending' PROVE pending'[i].call = pending[i].call
    BY Zenon
  <2>1. KeyOf(pending'[i]).call = KeyOf(pending[i]).call
    BY Zenon
  <2> QED
    BY Zenon, <2>1 DEF KeyOf
<1>4. OnePlace'
  BY Zenon, <1>3, PlacesStep DEF RpcInv, RpcKeeps
<1> QED
  BY Zenon, <1>2, <1>4 DEF RpcInv, RpcKeeps, ClientInv

(* The same for a step the server has no part in ...                        *)
LEMMA ServerSame ==
  ASSUME RpcInv, ClientInv', ClientKeeps, NetType', UNCHANGED <<serverVars, answers>>,
         on["client"] <= on'["client"],
         Restarted => Restarted' \/ on["client"] < on'["client"],
         NEW n \in Nat, NEW k \in Nat,
         \A i \in 1 .. Len(toServer') : i + n \in 1 .. Len(toServer) /\ toServer'[i] = toServer[i + n],
         \A i \in 1 .. Len(toClient') : i + k \in 1 .. Len(toClient) /\ toClient'[i] = toClient[i + k]
  PROVE  RpcInv'
<1>1. /\ current' = current /\ pending' = pending /\ handling' = handling
      /\ handles' = handles /\ responding' = responding /\ answers' = answers
  BY Zenon DEF serverVars
<1>2. ServerType'
  BY Zenon, <1>1 DEF RpcInv, ServerType
<1>3. RpcKeeps
  BY Zenon, <1>2 DEF RpcKeeps
<1>4. \A h : h \in handling' \/ h \in handles' => Known(h)
  BY Zenon, <1>1 DEF Known
<1> QED
  BY Zenon, <1>1, <1>3, <1>4, ShrinkStep

(* ... for one of the client alone ...                                      *)
LEMMA ClientOnly ==
  ASSUME RpcInv, ClientInv', ClientKeeps, UNCHANGED <<serverVars, netVars, answers>>
  PROVE  RpcInv'
<1>1. /\ on' = on /\ up' = up /\ rx' = rx /\ toServer' = toServer /\ toClient' = toClient
      /\ answers' = answers
  BY Zenon DEF netVars
<1>2. NetType'
  BY Zenon, <1>1 DEF RpcInv, NetType
<1>3. on["client"] <= on'["client"] /\ (Restarted => Restarted')
  BY <1>1 DEF RpcInv, NetType, End, Restarted
<1>4. /\ \A i \in 1 .. Len(toServer') : i + 0 \in 1 .. Len(toServer) /\ toServer'[i] = toServer[i + 0]
      /\ \A i \in 1 .. Len(toClient') : i + 0 \in 1 .. Len(toClient) /\ toClient'[i] = toClient[i + 0]
  BY <1>1
<1>5. UNCHANGED <<serverVars, answers>> /\ 0 \in Nat
  BY Zenon
<1> QED
  BY Zenon, <1>2, <1>3, <1>4, <1>5, ServerSame

(* ... and for one of the server alone.                                     *)
LEMMA ServerOnly ==
  ASSUME RpcInv, ServerType', UNCHANGED <<clientVars, on, up, toServer, toClient, answers>>,
         NetType', rx'["client"] = rx["client"],
         \A i \in DOMAIN pending' : i \in DOMAIN pending /\ KeyOf(pending'[i]) = KeyOf(pending[i]),
         \A h : h \in handling' \/ h \in handles' => Known(h),
         responding' \subseteq responding
  PROVE  RpcInv'
<1>1. on' = on /\ up' = up /\ toServer' = toServer /\ toClient' = toClient /\ answers' = answers
  BY Zenon
<1>2. ClientInv' /\ ClientKeeps
  BY Zenon, ClientUnchanged DEF RpcInv, ClientInv
<1>3. on["client"] <= on'["client"] /\ (Restarted => Restarted')
  BY <1>1 DEF RpcInv, NetType, End, Restarted
<1>4. /\ \A i \in 1 .. Len(toServer') : i + 0 \in 1 .. Len(toServer) /\ toServer'[i] = toServer[i + 0]
      /\ \A i \in 1 .. Len(toClient') : i + 0 \in 1 .. Len(toClient) /\ toClient'[i] = toClient[i + 0]
  BY <1>1
<1>5. RpcKeeps
  BY Zenon, <1>2, <1>3 DEF RpcKeeps
<1>6. 0 \in Nat
  BY Zenon
<1> QED
  BY Zenon, <1>1, <1>4, <1>5, <1>6, ShrinkStep
-----------------------------------------------------------------------------
(* The messaging layer.                                                     *)

(* An end gets to a later connection, and loses what it has not read.       *)
LEMMA ConnectStep ==
  ASSUME RpcInv, NEW e \in End, Connect(e)
  PROVE  RpcInv'
<1>1. /\ on \in [End -> Nat] /\ up \in [End -> BOOLEAN]
      /\ rx \in [End -> {"connect", "read", "complete", "reset"}]
      /\ toServer \in Seq(RequestMsg) /\ toClient \in Seq(ResponseMsg)
      /\ answers \in [Call -> Nat]
      /\ \A f \in End : up[f] \/ rx[f] # "connect" => on[f] > 0
  BY Zenon DEF RpcInv, NetType
<1>2. Peer(e) \in End /\ "client" \in End
  BY Zenon, Peers DEF End
<1>3. PICK k : k = IF on[Peer(e)] > on[e] THEN on[Peer(e)] ELSE on[e] + 1
  BY Zenon
<1>4. k \in Nat /\ k > on[e]
  BY <1>1, <1>2, <1>3
<1>5. /\ on' = [on EXCEPT ![e] = k] /\ up' = [up EXCEPT ![e] = TRUE]
      /\ rx' = [rx EXCEPT ![e] = "read"] /\ UNCHANGED <<clientVars, serverVars, answers>>
  BY Zenon, <1>3 DEF Connect, RxGo
<1>6. PICK n \in Nat, m \in Nat :
        /\ n \in 0 .. Len(toServer) /\ toServer' = From(n, toServer)
        /\ m \in 0 .. Len(toClient) /\ toClient' = From(m, toClient)
  <2>1. /\ From(0, toServer) = toServer /\ From(0, toClient) = toClient
        /\ Len(toServer) \in Nat /\ Len(toClient) \in Nat
    BY <1>1 DEF From
  <2>2. CASE e = "client"
    <3>1. PICK m \in Unread(k, toClient) : toClient' = From(m, toClient)
      BY Zenon, <1>3, <2>2 DEF Connect
    <3>2. m \in 0 .. Len(toClient)
      BY Zenon DEF Unread
    <3>3. toServer' = toServer
      BY Zenon, <2>2 DEF Connect
    <3> QED
      BY <2>1, <3>1, <3>2, <3>3
  <2>3. CASE e = "server"
    <3>1. PICK n \in Unread(k, toServer) : toServer' = From(n, toServer)
      BY Zenon, <1>3, <2>3 DEF Connect
    <3>2. n \in 0 .. Len(toServer)
      BY DEF Unread
    <3>3. toClient' = toClient
      BY Zenon, <2>3 DEF Connect
    <3> QED
      BY <2>1, <3>1, <3>2, <3>3
  <2> QED
    BY Zenon, <2>2, <2>3 DEF End
<1>7. /\ toServer' \in Seq(RequestMsg)
      /\ \A i \in 1 .. Len(toServer') : i + n \in 1 .. Len(toServer) /\ toServer'[i] = toServer[i + n]
  BY Zenon, <1>1, <1>6, FromKeeps
<1>8. /\ toClient' \in Seq(ResponseMsg)
      /\ \A i \in 1 .. Len(toClient') : i + m \in 1 .. Len(toClient) /\ toClient'[i] = toClient[i + m]
  BY Zenon, <1>1, <1>6, FromKeeps
<1>9. NetType'
  <2>1. \A f \in End : up'[f] \/ rx'[f] # "connect" => on'[f] > 0
    BY <1>1, <1>4, <1>5
  <2> QED
    BY Zenon, <1>1, <1>4, <1>5, <1>7, <1>8, <2>1 DEF NetType
<1>10. on["client"] <= on'["client"]
  BY <1>1, <1>2, <1>4, <1>5
<1>11. Restarted => Restarted' \/ on["client"] < on'["client"]
  <2>1. CASE e = "client"
    BY Zenon, <1>1, <1>2, <1>4, <1>5, <2>1
  <2>2. CASE e # "client"
    BY Zenon, <1>1, <1>2, <1>5, <2>2 DEF Restarted
  <2> QED
    BY Zenon, <2>1, <2>2
<1>12. ClientInv' /\ ClientKeeps
  BY Zenon, <1>5, ClientUnchanged DEF RpcInv, ClientInv
<1> QED
  BY Zenon, <1>5, <1>7, <1>8, <1>9, <1>10, <1>11, <1>12, ServerSame

(* The link of an end that the other end has left breaks.                   *)
LEMMA BreaksStep ==
  ASSUME RpcInv, NEW e \in End, Breaks(e)
  PROVE  RpcInv'
<1>1. /\ up' = [up EXCEPT ![e] = FALSE] /\ on' = on /\ rx' = rx
      /\ toServer' = toServer /\ toClient' = toClient
      /\ UNCHANGED <<clientVars, serverVars, answers>>
  BY Zenon DEF Breaks
<1>2. up \in [End -> BOOLEAN] /\ "client" \in End /\ on \in [End -> Nat]
  BY Zenon DEF RpcInv, NetType, End
<1>3. \A f \in End : up'[f] => up[f]
  BY Zenon, <1>1, <1>2
<1>4. NetType'
  BY Zenon, <1>1, <1>2, <1>3 DEF RpcInv, NetType
<1>5. on["client"] <= on'["client"] /\ (Restarted => Restarted')
  BY <1>1, <1>2, <1>3 DEF Restarted
<1>6. ClientInv' /\ ClientKeeps
  BY Zenon, <1>1, ClientUnchanged DEF RpcInv, ClientInv
<1>7. /\ \A i \in 1 .. Len(toServer') : i + 0 \in 1 .. Len(toServer) /\ toServer'[i] = toServer[i + 0]
      /\ \A i \in 1 .. Len(toClient') : i + 0 \in 1 .. Len(toClient) /\ toClient'[i] = toClient[i + 0]
      /\ 0 \in Nat
  BY <1>1
<1> QED
  BY Zenon, <1>1, <1>4, <1>5, <1>6, <1>7, ServerSame

(* The receive thread of the client goes on, with a step of the client.     *)
LEMMA ReceiverMoves ==
  ASSUME RpcInv, ClientInv', ClientKeeps, UNCHANGED <<serverVars, on, up, toServer, answers>>,
         NEW place \in {"read", "complete", "reset", "connect"}, RxGo("client", place),
         rx["client"] # "connect", NEW k \in Nat, toClient' \in Seq(ResponseMsg),
         \A i \in 1 .. Len(toClient') : i + k \in 1 .. Len(toClient) /\ toClient'[i] = toClient[i + k]
  PROVE  RpcInv'
<1>1. /\ on \in [End -> Nat] /\ up \in [End -> BOOLEAN] /\ "client" \in End
      /\ rx \in [End -> {"connect", "read", "complete", "reset"}]
      /\ toServer \in Seq(RequestMsg) /\ answers \in [Call -> Nat]
      /\ \A f \in End : up[f] \/ rx[f] # "connect" => on[f] > 0
  BY Zenon DEF RpcInv, NetType, End
<1>2. /\ rx' = [rx EXCEPT !["client"] = place] /\ on' = on /\ up' = up
      /\ toServer' = toServer /\ answers' = answers
  BY Zenon DEF RxGo
<1>3. \A f \in End : up'[f] \/ rx'[f] # "connect" => on'[f] > 0
  BY Zenon, <1>1, <1>2
<1>4. NetType'
  BY Zenon, <1>1, <1>2, <1>3 DEF NetType
<1>5. on["client"] <= on'["client"] /\ ~Restarted
  BY <1>1, <1>2 DEF Restarted
<1>6. \A i \in 1 .. Len(toServer') : i + 0 \in 1 .. Len(toServer) /\ toServer'[i] = toServer[i + 0]
  BY <1>2
<1>7. UNCHANGED <<serverVars, answers>> /\ 0 \in Nat
  BY Zenon
<1> QED
  BY Zenon, <1>4, <1>5, <1>6, <1>7, ServerSame

(* A read fails: the client, or the server, is told of the reset.           *)
LEMMA ReadFailsStep ==
  ASSUME RpcInv, NEW e \in End, ReadFails(e)
  PROVE  RpcInv'
<1>1. rx[e] = "read" /\ UNCHANGED <<on, up, toServer, toClient, answers>>
  BY Zenon DEF ReadFails
<1>2. /\ on \in [End -> Nat] /\ up \in [End -> BOOLEAN] /\ "client" \in End /\ "server" \in End
      /\ rx \in [End -> {"connect", "read", "complete", "reset"}]
      /\ toServer \in Seq(RequestMsg) /\ toClient \in Seq(ResponseMsg) /\ answers \in [Call -> Nat]
      /\ \A f \in End : up[f] \/ rx[f] # "connect" => on[f] > 0
  BY Zenon DEF RpcInv, NetType, End
<1>3. CASE e = "client"
  <2>1. ConnectionReset /\ RxGo("client", "reset") /\ UNCHANGED serverVars
    BY Zenon, <1>3 DEF ReadFails
  <2>2. ClientInv' /\ ClientKeeps
    BY Zenon, <2>1, ResetStep DEF RpcInv, ClientInv
  <2>3. \A i \in 1 .. Len(toClient') : i + 0 \in 1 .. Len(toClient) /\ toClient'[i] = toClient[i + 0]
    BY <1>1
  <2>4. toClient' \in Seq(ResponseMsg) /\ rx["client"] # "connect" /\ 0 \in Nat
        /\ UNCHANGED <<serverVars, on, up, toServer, answers>>
    BY Zenon, <1>1, <1>2, <1>3, <2>1
  <2> QED
    BY Zenon, <2>1, <2>2, <2>3, <2>4, ReceiverMoves
<1>4. CASE e = "server"
  <2>1. /\ UNCHANGED clientVars /\ rx' = [rx EXCEPT !["server"] = "connect"]
        /\ ServerConnectionReset(on["server"]) \/ UNCHANGED serverVars
    BY Zenon, <1>4 DEF ReadFails, RxGo
  <2>2. /\ handling' = handling /\ handles' = handles /\ responding' = responding
        /\ \/ current' = current /\ pending' = pending
           \/ current' = 0 /\ DOMAIN pending' = {}
    BY Zenon, <2>1 DEF ServerConnectionReset, serverVars, Nothing
  <2>3. ServerType'
    BY <2>2 DEF RpcInv, ServerType
  <2>4. \A i \in DOMAIN pending' : i \in DOMAIN pending /\ KeyOf(pending'[i]) = KeyOf(pending[i])
    BY Zenon, <2>2
  <2>5. \A h : h \in handling' \/ h \in handles' => Known(h)
    BY Zenon, <2>2 DEF Known
  <2>6. rx'["client"] = rx["client"]
    BY Zenon, <1>2, <2>1
  <2>7. NetType'
    <3>1. \A f \in End : up'[f] \/ rx'[f] # "connect" => on'[f] > 0
      BY Zenon, <1>1, <1>2, <2>1
    <3> QED
      BY Zenon, <1>1, <1>2, <2>1, <3>1 DEF NetType
  <2>8. UNCHANGED <<clientVars, on, up, toServer, toClient, answers>>
    BY Zenon, <1>1, <2>1
  <2>9. responding' \subseteq responding
    BY Zenon, <2>2
  <2> QED
    BY Zenon, <2>3, <2>4, <2>5, <2>6, <2>7, <2>8, <2>9, ServerOnly
<1> QED
  BY Zenon, <1>3, <1>4 DEF End

(* The client's device restarts: what is known belongs to calls that are    *)
(* gone, and the connection they were made on will not be the client's.     *)
LEMMA ClientRestart ==
  ASSUME RpcInv, Restarts("client")
  PROVE  RpcInv'
<1>1. /\ ClientRestarts /\ UNCHANGED <<serverVars, on, toServer, toClient, answers>>
      /\ up' = [up EXCEPT !["client"] = FALSE] /\ rx' = [rx EXCEPT !["client"] = "connect"]
      /\ on["client"] > 0
  BY Zenon DEF Restarts, RxGo
<1>2. /\ current' = current /\ pending' = pending /\ handling' = handling
      /\ handles' = handles /\ responding' = responding /\ answers' = answers
      /\ on' = on /\ toServer' = toServer /\ toClient' = toClient
  BY Zenon, <1>1 DEF serverVars
<1>3. /\ ClientInv' /\ cid' = cid
      /\ \A c \in Call : cpc'[c] = IF cpc[c] = "out" THEN "out" ELSE "gone"
  BY Zenon, <1>1, ClientRestartStep DEF RpcInv, ClientInv
<1>4. /\ on \in [End -> Nat] /\ up \in [End -> BOOLEAN] /\ "client" \in End
      /\ rx \in [End -> {"connect", "read", "complete", "reset"}]
      /\ \A f \in End : up[f] \/ rx[f] # "connect" => on[f] > 0
  BY Zenon DEF RpcInv, NetType, End
<1>5. ServerType'
  BY Zenon, <1>2 DEF RpcInv, ServerType
<1>6. \A f \in End : up'[f] \/ rx'[f] # "connect" => on'[f] > 0
  BY Zenon, <1>1, <1>2, <1>4
<1>7. NetType'
  BY Zenon, <1>1, <1>2, <1>4, <1>6 DEF RpcInv, NetType
<1>8. Restarted'
  BY Zenon, <1>1, <1>4 DEF Restarted
<1>9. \A x : Known(x)' <=> Known(x)
  BY Zenon, <1>2 DEF Known
<1>10. KeysExact'
  BY Zenon, <1>2, <1>3, <1>8, <1>9 DEF RpcInv, KeysExact, Key, Submitted
<1>11. KeysUnique'
  BY Zenon, <1>9 DEF RpcInv, KeysUnique
<1>12. \A c : /\ Requested(c)' <=> Requested(c)
              /\ Pending(c)' <=> Pending(c)
              /\ Responding(c)' <=> Responding(c)
  BY Zenon, <1>2 DEF Requested, Pending, Responding
<1>13. \A c \in Call : cpc'[c] = "out" \/ cpc'[c] = "send" => cpc[c] = "out"
  BY Zenon, <1>3
<1>14. OnePlace'
  BY Zenon, <1>2, <1>12, <1>13 DEF RpcInv, OnePlace
<1> QED
  BY Zenon, <1>3, <1>5, <1>7, <1>10, <1>11, <1>14 DEF RpcInv, ClientInv

(* The server's device restarts, with nothing pending.                      *)
LEMMA ServerRestart ==
  ASSUME RpcInv, Restarts("server")
  PROVE  RpcInv'
<1>1. /\ UNCHANGED <<clientVars, on, toServer, toClient, answers>>
      /\ up' = [up EXCEPT !["server"] = FALSE] /\ rx' = [rx EXCEPT !["server"] = "connect"]
      /\ current' = 0 /\ DOMAIN pending' = {}
      /\ handling' = {} /\ handles' = {} /\ responding' = {}
  BY Zenon DEF Restarts, RxGo, ServerRestarts, Nothing
<1>2. /\ on \in [End -> Nat] /\ up \in [End -> BOOLEAN] /\ "client" \in End /\ "server" \in End
      /\ rx \in [End -> {"connect", "read", "complete", "reset"}]
      /\ \A f \in End : up[f] \/ rx[f] # "connect" => on[f] > 0
  BY Zenon DEF RpcInv, NetType, End
<1>3. ServerType'
  BY Zenon, <1>1 DEF ServerType
<1>4. /\ on' = on /\ toServer' = toServer /\ toClient' = toClient /\ answers' = answers
      /\ up'["client"] = up["client"] /\ rx'["client"] = rx["client"]
  BY Zenon, <1>1, <1>2
<1>5. \A f \in End : up'[f] \/ rx'[f] # "connect" => on'[f] > 0
  BY Zenon, <1>1, <1>2
<1>6. NetType'
  BY Zenon, <1>1, <1>2, <1>5 DEF RpcInv, NetType
<1>7. ClientInv' /\ ClientKeeps
  BY Zenon, <1>1, ClientUnchanged DEF RpcInv, ClientInv
<1>8. RpcKeeps
  BY <1>2, <1>3, <1>4, <1>6, <1>7 DEF RpcKeeps, Restarted
<1>9. /\ \A i \in 1 .. Len(toServer') : i + 0 \in 1 .. Len(toServer) /\ toServer'[i] = toServer[i + 0]
      /\ \A i \in 1 .. Len(toClient') : i + 0 \in 1 .. Len(toClient) /\ toClient'[i] = toClient[i + 0]
      /\ 0 \in Nat
  BY <1>4
<1> QED
  BY Zenon, <1>1, <1>4, <1>8, <1>9, ShrinkStep
-----------------------------------------------------------------------------
(* Actions of the client.                                                   *)

(* A call that is in some place has been sent.                              *)
LEMMA PlaceKnown ==
  ASSUME RpcInv, NEW c \in Call, Requested(c) \/ Pending(c) \/ Responding(c)
  PROVE  cpc[c] \in Submitted \cup {"gone"}
<1>1. \E x : Known(x) /\ x.call = c
  <2>1. CASE Requested(c)
    <3>1. PICK i \in 1 .. Len(toServer) : toServer[i].call = c
      BY Zenon, <2>1 DEF Requested
    <3>2. KeyOf(toServer[i]).call = c /\ Known(KeyOf(toServer[i]))
      BY Zenon, <3>1 DEF Known, KeyOf
    <3> QED
      BY Zenon, <3>2
  <2>2. CASE Pending(c)
    <3>1. PICK i \in DOMAIN pending : pending[i].call = c
      BY Zenon, <2>2 DEF Pending
    <3>2. KeyOf(pending[i]).call = c /\ Known(KeyOf(pending[i]))
      BY Zenon, <3>1 DEF Known, KeyOf
    <3> QED
      BY Zenon, <3>2
  <2>3. CASE Responding(c)
    <3>1. PICK r \in responding : r.msg.call = c
      BY Zenon, <2>3 DEF Responding
    <3>2. KeyOf(r.msg).call = c /\ Known(KeyOf(r.msg))
      BY Zenon, <3>1 DEF Known, KeyOf
    <3> QED
      BY Zenon, <3>2
  <2> QED
    BY Zenon, <2>1, <2>2, <2>3
<1>2. PICK x \in Key : Known(x) /\ x.call = c
  BY Zenon, <1>1, KnownTyped DEF RpcInv
<1> QED
  BY Zenon, <1>2 DEF RpcInv, KeysExact

(* send() writes a request on the client's connection.                      *)
LEMMA SendRequestStep ==
  ASSUME RpcInv, NEW c \in Call, SendRequest(c)
  PROVE  RpcInv'
<1>1. PICK timeout \in 1 .. NoTimeout :
        toServer' = Sent("client", toServer, UnaryRequest(on["client"], cid[c], c, timeout))
  BY Zenon DEF SendRequest
<1>2. PICK m : m = UnaryRequest(on["client"], cid[c], c, timeout)
  BY Zenon
<1>3. /\ up["client"] /\ UNCHANGED <<serverVars, on, up, rx, toClient, answers>>
      /\ cpc[c] = "send" /\ Go(c, "sent")
      /\ UNCHANGED <<nextId, calls, cid, armed, claimed, result>>
  BY Zenon DEF SendRequest, SendWritten
<1>4. /\ current' = current /\ pending' = pending /\ handling' = handling
      /\ handles' = handles /\ responding' = responding /\ answers' = answers
      /\ on' = on /\ up' = up /\ rx' = rx /\ toClient' = toClient /\ cid' = cid
  BY Zenon, <1>3 DEF serverVars
<1>5. /\ on \in [End -> Nat] /\ on["client"] \in Nat /\ on["client"] > 0
      /\ up["client"] \in BOOLEAN /\ toServer \in Seq(RequestMsg) /\ Len(toServer) \in Nat
  BY <1>3 DEF RpcInv, NetType, End
<1>6. cid \in [Call -> Nat] /\ cpc \in [Call -> Submitted \cup {"out", "send", "gone"}]
  BY Zenon DEF RpcInv, ClientType
<1>7. ClientInv' /\ ClientKeeps
  <2>1. /\ "sent" \in Submitted /\ "sent" # "failed"
        /\ armed' \in [Call -> BOOLEAN] /\ \A d \in Call : armed'[d] => armed[d]
    BY Zenon, <1>3 DEF Submitted, RpcInv, ClientType
  <2> QED
    BY Zenon, <1>3, <2>1, SubmissionStep DEF RpcInv, ClientInv
<1>8. /\ m \in RequestMsg /\ m.call = c /\ KeyOf(m) \in Key
      /\ KeyOf(m).k = on["client"] /\ KeyOf(m).id = cid[c] /\ KeyOf(m).call = c
  <2>1. timeout \in Nat
    BY RpcMessagesAssumption DEF NoTimeout
  <2> QED
    BY Zenon, <1>2, <1>5, <1>6, <2>1 DEF UnaryRequest, RequestMsg, KeyOf, Key
<1>9. toServer' = toServer \/ toServer' = Append(toServer, m)
  BY Zenon, <1>1, <1>2 DEF Sent
<1>10. /\ toServer' \in Seq(RequestMsg)
       /\ \A i \in 1 .. Len(toServer') :
            \/ i \in 1 .. Len(toServer) /\ toServer'[i] = toServer[i]
            \/ i = Len(toServer) + 1 /\ toServer'[i] = m
  <2>1. CASE toServer' = toServer
    BY Zenon, <1>5, <2>1
  <2>2. CASE toServer' = Append(toServer, m)
    BY <1>5, <1>8, <2>2, AppendKeeps
  <2> QED
    BY Zenon, <1>9, <2>1, <2>2
<1>11. ServerType'
  BY Zenon, <1>4 DEF RpcInv, ServerType
<1>12. NetType'
  BY Zenon, <1>4, <1>10 DEF RpcInv, NetType
<1>13. \A x : Known(x)' => Known(x) \/ x = KeyOf(m)
  <2> SUFFICES ASSUME NEW x, Known(x)' PROVE Known(x) \/ x = KeyOf(m)
    BY Zenon
  <2>1. CASE \E i \in 1 .. Len(toServer') : KeyOf(toServer'[i]) = x
    BY Zenon, <1>10, <2>1 DEF Known
  <2>2. CASE ~\E i \in 1 .. Len(toServer') : KeyOf(toServer'[i]) = x
    BY Zenon, <1>4, <2>2 DEF Known
  <2> QED
    BY Zenon, <2>1, <2>2
<1>14. ~Restarted
  BY Zenon, <1>3 DEF Restarted
<1>15. cpc'[c] \in Submitted /\ cpc'[c] # "gone"
  BY Zenon, <1>3, <1>6 DEF Go, Submitted
<1>16. KeysExact'
  <2> SUFFICES ASSUME NEW x \in Key, Known(x)'
               PROVE  /\ x.id = cid'[x.call] /\ 0 < x.k /\ x.k <= on'["client"]
                      /\ cpc'[x.call] \in Submitted \cup {"gone"}
                      /\ cpc'[x.call] = "gone" => x.k < on'["client"] \/ Restarted'
    BY Zenon DEF KeysExact
  <2>1. CASE x = KeyOf(m)
    BY <1>4, <1>5, <1>8, <1>15, <2>1
  <2>2. CASE Known(x)
    <3>1. /\ x.id = cid[x.call] /\ 0 < x.k /\ x.k <= on["client"]
          /\ cpc[x.call] \in Submitted \cup {"gone"}
          /\ cpc[x.call] = "gone" => x.k < on["client"]
      BY Zenon, <1>14, <2>2 DEF RpcInv, KeysExact
    <3>2. /\ cpc'[x.call] \in Submitted \cup {"gone"}
          /\ cpc'[x.call] = "gone" => cpc[x.call] = "gone"
      BY Zenon, <1>7, <3>1 DEF ClientKeeps, Key
    <3> QED
      BY Zenon, <1>4, <3>1, <3>2
  <2> QED
    BY Zenon, <1>13, <2>1, <2>2
<1>17. \A x \in Key : Known(x) /\ x.k = on["client"] /\ x.id = cid[c] => x.call = c
  <2> SUFFICES ASSUME NEW x \in Key, Known(x), x.k = on["client"], x.id = cid[c]
               PROVE  x.call = c
    BY Zenon
  <2>1. /\ x.id = cid[x.call] /\ cpc[x.call] \in Submitted \cup {"gone"}
        /\ cpc[x.call] = "gone" => x.k < on["client"]
    BY Zenon, <1>14 DEF RpcInv, KeysExact
  <2>2. x.call \in Call /\ cpc[x.call] # "gone" /\ cpc[x.call] # "out"
    BY <1>5, <2>1 DEF Key, Submitted
  <2> QED
    BY Zenon, <1>3, <2>1, <2>2, OwnIds DEF RpcInv
<1>18. KeysUnique'
  <2> SUFFICES ASSUME NEW x \in Key, NEW y \in Key, Known(x)', Known(y)', x.k = y.k, x.id = y.id
               PROVE  x.call = y.call
    BY Zenon DEF KeysUnique
  <2>1. CASE Known(x) /\ Known(y)
    BY Zenon, <2>1 DEF RpcInv, KeysUnique
  <2>2. CASE x = KeyOf(m) \/ y = KeyOf(m)
    BY Zenon, <1>8, <1>13, <1>17, <2>2
  <2> QED
    BY Zenon, <1>13, <2>1, <2>2
<1>19. ~Requested(c) /\ ~Pending(c) /\ ~Responding(c) /\ answers[c] = 0
  <2>1. cpc[c] \notin Submitted \cup {"gone"}
    BY Zenon, <1>3 DEF Submitted
  <2> QED
    BY Zenon, <1>3, <2>1, PlaceKnown DEF RpcInv, OnePlace
<1>20. \A i, j \in 1 .. Len(toServer') : toServer'[i].call = toServer'[j].call => i = j
  BY <1>8, <1>10, <1>19 DEF RpcInv, OnePlace, Requested
<1>21. \A d : /\ Requested(d)' => Requested(d) \/ d = c
              /\ Pending(d)' <=> Pending(d)
              /\ Responding(d)' <=> Responding(d)
  <2>1. \A d : Requested(d)' => Requested(d) \/ d = c
    BY Zenon, <1>8, <1>10 DEF Requested
  <2>2. \A d : (Pending(d)' <=> Pending(d)) /\ (Responding(d)' <=> Responding(d))
    BY Zenon, <1>4 DEF Pending, Responding
  <2> QED
    BY Zenon, <2>1, <2>2
<1>22. OnePlace'
  BY <1>4, <1>7, <1>19, <1>20, <1>21 DEF RpcInv, OnePlace, ClientKeeps
<1> QED
  BY Zenon, <1>7, <1>11, <1>12, <1>16, <1>18, <1>22 DEF RpcInv, ClientInv

(* The other steps of a submission change nothing outside the client.       *)
LEMMA SubmitStep ==
  ASSUME RpcInv, MaxCalls <= MaxId, NEW c \in Call, Submit(c) \/ SendDone(c) \/ Cancel(c)
  PROVE  RpcInv'
<1> USE DEF Submitted
<1>1. ClientInv
  BY Zenon DEF RpcInv, ClientInv
<1>2. UNCHANGED <<serverVars, netVars, answers>>
  BY Zenon DEF Submit, SendDone, Cancel
<1>3. CASE Submit(c)
  BY Zenon, <1>1, <1>2, <1>3, NewStreamStep, ClientOnly DEF Submit
<1>4. CASE SendDone(c)
  <2>1. PICK place \in {"ok", "erase"} : Go(c, place)
    BY Zenon, <1>4 DEF SendDone, SendReturns
  <2>2. cpc[c] = "sent" /\ UNCHANGED <<nextId, calls, cid, armed, claimed, result>>
    BY Zenon, <1>4 DEF SendDone, SendReturns
  <2>3. armed' \in [Call -> BOOLEAN] /\ \A d \in Call : armed'[d] => armed[d]
    BY Zenon, <1>1, <2>2 DEF ClientInv, ClientType
  <2>4. ClientInv' /\ ClientKeeps
    BY Zenon, <1>1, <2>1, <2>2, <2>3, SubmissionStep
  <2> QED
    BY Zenon, <1>2, <2>4, ClientOnly
<1>5. CASE CancelErase(c)
  <2>1. /\ cpc[c] = "erase" /\ Go(c, "clear") /\ calls' = Except(calls, cid[c])
        /\ UNCHANGED <<nextId, cid, armed, claimed, result>>
    BY Zenon, <1>5 DEF CancelErase
  <2>2. armed' \in [Call -> BOOLEAN] /\ \A d \in Call : armed'[d] => armed[d]
    BY Zenon, <1>1, <2>1 DEF ClientInv, ClientType
  <2>3. ClientInv' /\ ClientKeeps
    BY Zenon, <1>1, <2>1, <2>2, SubmissionStep
  <2> QED
    BY Zenon, <1>2, <2>3, ClientOnly
<1>6. CASE CancelClear(c)
  <2>1. /\ cpc[c] = "clear" /\ Go(c, "failed") /\ armed' = [armed EXCEPT ![c] = FALSE]
        /\ UNCHANGED <<nextId, calls, cid, claimed, result>>
    BY Zenon, <1>6 DEF CancelClear
  <2>2. /\ "failed" \in Submitted /\ cpc[c] \in Submitted \cup {"send"}
        /\ armed' \in [Call -> BOOLEAN] /\ ~armed'[c] /\ \A d \in Call : armed'[d] => armed[d]
    BY Zenon, <1>1, <2>1 DEF ClientInv, ClientType
  <2>3. ClientInv' /\ ClientKeeps
    BY Zenon, <1>1, <2>1, <2>2, SubmissionStep
  <2> QED
    BY <1>2, <2>3, ClientOnly
<1> QED
  BY Zenon, <1>3, <1>4, <1>5, <1>6 DEF Cancel

(* A response arrives, on the client's connection.                          *)
LEMMA ClientReceivesStep ==
  ASSUME RpcInv, ClientReceives
  PROVE  RpcInv' /\ result' = result
<1>1. /\ rx["client"] = "read" /\ toClient # <<>> /\ Head(toClient).k = on["client"]
      /\ HandleResponse(Head(toClient)) /\ toClient' = Tail(toClient)
      /\ RxGo("client", "complete")
      /\ UNCHANGED <<serverVars, on, up, toServer, answers>>
  BY Zenon DEF ClientReceives
<1>2. toClient \in Seq(ResponseMsg) /\ on["client"] \in Nat
  BY Zenon DEF RpcInv, NetType, End
<1>3. PICK m : m = Head(toClient)
  BY Zenon
<1>4. /\ m = toClient[1] /\ m \in ResponseMsg /\ toClient' \in Seq(ResponseMsg)
      /\ \A i \in 1 .. Len(toClient') : i + 1 \in 1 .. Len(toClient) /\ toClient'[i] = toClient[i + 1]
      /\ 1 \in 1 .. Len(toClient)
  BY <1>1, <1>2, <1>3, HeadTail
<1>5. Known(KeyOf(m)) /\ KeyOf(m) \in Key
  BY Zenon, <1>4 DEF Known, KeyOf, ResponseMsg, Key
<1>6. /\ KeyOf(m).id = cid[KeyOf(m).call] /\ KeyOf(m).k = on["client"]
      /\ cpc[KeyOf(m).call] \in Submitted \cup {"gone"}
      /\ cpc[KeyOf(m).call] = "gone" => KeyOf(m).k < on["client"]
  BY Zenon, <1>1, <1>3, <1>5 DEF RpcInv, KeysExact, Restarted, KeyOf
<1>7. m.id = cid[m.call] /\ cpc[m.call] \in Submitted
  BY <1>2, <1>6 DEF KeyOf
<1>8. ClientInv' /\ ClientKeeps /\ result' = result
  BY Zenon, <1>1, <1>3, <1>4, <1>7, ResponseStep DEF RpcInv, ClientInv
<1>9. 1 \in Nat /\ rx["client"] # "connect"
  BY Zenon, <1>1
<1> QED
  BY Zenon, <1>1, <1>4, <1>8, <1>9, ReceiverMoves

(* The receive thread completes a call, or goes on.                         *)
LEMMA ClientCompletesStep ==
  ASSUME RpcInv, ClientCompletes
  PROVE  /\ RpcInv'
         /\ \A c \in Call : result'[c] # result[c] => result[c] = <<>> /\ cpc[c] # "failed"
<1>1. UNCHANGED <<serverVars, on, up, toServer, toClient, answers>> /\ ClientInv
  BY Zenon DEF ClientCompletes, RpcInv, ClientInv
<1>2. ASSUME NEW r \in claimed, Complete(r), UNCHANGED rx
      PROVE  /\ RpcInv'
             /\ \A c \in Call : result'[c] # result[c] => result[c] = <<>> /\ cpc[c] # "failed"
  <2>1. UNCHANGED <<serverVars, netVars, answers>>
    BY Zenon, <1>1, <1>2 DEF netVars
  <2> QED
    BY Zenon, <1>1, <1>2, <2>1, CompleteStep, ClientOnly
<1>3. ASSUME NEW place \in {"read", "connect"}, RxGo("client", place), UNCHANGED clientVars,
             rx["client"] # "connect"
      PROVE  RpcInv' /\ result' = result
  <2>1. ClientInv' /\ ClientKeeps /\ result' = result
    BY Zenon, <1>1, <1>3, ClientUnchanged DEF clientVars
  <2>2. \A i \in 1 .. Len(toClient') : i + 0 \in 1 .. Len(toClient) /\ toClient'[i] = toClient[i + 0]
    BY <1>1
  <2>3. toClient' \in Seq(ResponseMsg) /\ 0 \in Nat
    BY Zenon, <1>1 DEF RpcInv, NetType
  <2> QED
    BY Zenon, <1>1, <1>3, <2>1, <2>2, <2>3, ReceiverMoves
<1>4. \/ \E r \in claimed : Complete(r) /\ UNCHANGED rx
      \/ /\ UNCHANGED clientVars /\ rx["client"] # "connect"
         /\ \E place \in {"read", "connect"} : RxGo("client", place)
  BY Zenon DEF ClientCompletes
<1> QED
  BY Zenon, <1>2, <1>3, <1>4
-----------------------------------------------------------------------------
(* Actions of the server.                                                   *)

(* What TakenToAnswer says of a step.                                       *)
Taken ==
  \A i \in DOMAIN pending :
    i \notin DOMAIN pending' /\ current' = current /\ active' =>
      \E r \in responding' : r.msg.k = pending[i].k /\ r.msg.call = pending[i].call

(* A pending request has the key of its stream id, and no other has.        *)
LEMMA PendingKeys ==
  ASSUME RpcInv, NEW i \in DOMAIN pending
  PROVE  /\ pending[i] \in [k : {current}, id : {i}, call : Call, left : Nat]
         /\ Known(KeyOf(pending[i])) /\ KeyOf(pending[i]) \in Key
         /\ i = cid[pending[i].call] /\ current > 0
         /\ KeyOf(pending[i]) = [k |-> current, id |-> i, call |-> pending[i].call]
<1>1. pending[i] \in [k : {current}, id : {i}, call : Call, left : Nat]
  BY Zenon DEF RpcInv, ServerType
<1>2. KeyOf(pending[i]) = [k |-> current, id |-> i, call |-> pending[i].call]
  BY Zenon, <1>1 DEF KeyOf
<1>3. Known(KeyOf(pending[i]))
  BY Zenon DEF Known
<1>4. KeyOf(pending[i]) \in Key
  BY Zenon, <1>3, KnownTyped DEF RpcInv
<1>5. /\ KeyOf(pending[i]).id = cid[KeyOf(pending[i]).call] /\ 0 < KeyOf(pending[i]).k
      /\ KeyOf(pending[i]).k \in Nat
  BY Zenon, <1>3, <1>4 DEF RpcInv, KeysExact, Key
<1> QED
  BY <1>1, <1>2, <1>3, <1>4, <1>5

(* A pending request is claimed by the one who will answer it.              *)
LEMMA ClaimStep ==
  ASSUME RpcInv, NEW i \in DOMAIN pending, pending' = Except(pending, i),
         NEW by \in {"handler", "timer"}, NEW m \in ResponseMsg, KeyOf(m) = KeyOf(pending[i]),
         responding' = responding \cup {[by |-> by, msg |-> m]}, current' = current,
         \A h : h \in handling' \/ h \in handles' => Known(h),
         UNCHANGED <<clientVars, netVars, answers>>
  PROVE  RpcInv' /\ Taken
<1>1. /\ on' = on /\ up' = up /\ rx' = rx /\ toServer' = toServer /\ toClient' = toClient
      /\ answers' = answers
  BY Zenon DEF netVars
<1>2. PICK r : r = [by |-> by, msg |-> m]
  BY Zenon
<1>3. /\ r.msg = m /\ r \in [by : {"handler", "timer"}, msg : ResponseMsg]
      /\ responding' = responding \cup {r}
  BY Zenon, <1>2
<1>4. KeyOf(m).call = KeyOf(pending[i]).call /\ KeyOf(m).k = KeyOf(pending[i]).k
  BY Zenon
<1>5. m.call = pending[i].call /\ m.k = pending[i].k
  BY Zenon, <1>4 DEF KeyOf
<1>6. \A j \in DOMAIN pending' : j \in DOMAIN pending /\ j # i /\ pending'[j] = pending[j]
  BY Zenon DEF Except
<1>7. \A j \in DOMAIN pending : j # i => j \in DOMAIN pending'
  BY Zenon DEF Except
<1>8. \A h : h \in handling' \/ h \in handles' => h \in Key
  BY Zenon, KnownTyped DEF RpcInv
<1>9. ServerType'
  BY Zenon, <1>3, <1>6, <1>8 DEF RpcInv, ServerType
<1>10. NetType'
  BY Zenon, <1>1 DEF RpcInv, NetType
<1>11. ClientInv' /\ ClientKeeps
  BY Zenon, ClientUnchanged DEF RpcInv, ClientInv
<1>12. \A x : Known(x)' => Known(x)
  <2> SUFFICES ASSUME NEW x, Known(x)' PROVE Known(x)
    BY Zenon
  <2>1. CASE \E j \in DOMAIN pending' : KeyOf(pending'[j]) = x
    BY Zenon, <1>6, <2>1 DEF Known
  <2>2. CASE \E q \in responding' : KeyOf(q.msg) = x
    BY Zenon, <1>3, <2>2 DEF Known
  <2>3. CASE x \in handling' \/ x \in handles'
    BY Zenon, <2>3
  <2>4. CASE \/ \E j \in 1 .. Len(toServer') : KeyOf(toServer'[j]) = x
             \/ \E j \in 1 .. Len(toClient') : KeyOf(toClient'[j]) = x
    BY Zenon, <1>1, <2>4 DEF Known
  <2> QED
    BY Zenon, <2>1, <2>2, <2>3, <2>4 DEF Known
<1>13. on["client"] <= on'["client"] /\ (Restarted => Restarted')
  BY <1>1 DEF RpcInv, NetType, End, Restarted
<1>14. KeysExact' /\ KeysUnique'
  BY Zenon, <1>10, <1>11, <1>12, <1>13, KeysStep DEF RpcInv
<1>15. PICK c : c = pending[i].call
  BY Zenon
<1>16. c \in Call /\ ~Requested(c) /\ ~Responding(c) /\ answers[c] = 0
  <2>1. Pending(c) /\ c \in Call
    BY Zenon, <1>15, PendingKeys DEF Pending
  <2> QED
    BY Zenon, <2>1 DEF RpcInv, OnePlace
<1>17. \A j \in DOMAIN pending : j # i => pending[j].call # c
  BY Zenon, <1>15, PendingKeys
<1>18. \A d : /\ Requested(d)' <=> Requested(d)
              /\ Pending(d)' => Pending(d) /\ d # c
              /\ Responding(d)' => Responding(d) \/ d = c
  <2>1. \A d : Requested(d)' <=> Requested(d)
    BY Zenon, <1>1 DEF Requested
  <2>2. \A d : Pending(d)' => Pending(d) /\ d # c
    BY Zenon, <1>6, <1>17 DEF Pending
  <2>3. \A d : Responding(d)' => Responding(d) \/ d = c
    BY Zenon, <1>3, <1>5, <1>15 DEF Responding
  <2> QED
    BY Zenon, <2>1, <2>2, <2>3
<1>19. \A p, q \in responding' : p.msg.call = q.msg.call => p = q
  BY SMTT(30), <1>3, <1>5, <1>15, <1>16 DEF RpcInv, OnePlace, Responding
<1>20. OnePlace'
  BY <1>1, <1>11, <1>16, <1>18, <1>19 DEF RpcInv, OnePlace, ClientKeeps
<1>21. Taken
  BY Zenon, <1>3, <1>5, <1>7 DEF Taken
<1> QED
  BY Zenon, <1>9, <1>10, <1>11, <1>14, <1>20, <1>21 DEF RpcInv, ClientInv

(* A handle that may claim a request is the one of this request.            *)
LEMMA HandleClaims ==
  ASSUME RpcInv, NEW h, Known(h), NEW status \in {"ok", "failure"}, Claim(h, status),
         current' = current, \A g : g \in handling' \/ g \in handles' => Known(g),
         UNCHANGED <<clientVars, netVars, answers>>
  PROVE  RpcInv' /\ Taken
<1>1. h \in Key
  BY Zenon, KnownTyped DEF RpcInv
<1>2. CASE MayRespond(h)
  <2>1. h.k = current /\ h.id \in DOMAIN pending
    BY Zenon, <1>2 DEF MayRespond
  <2>2. PICK i : i = h.id
    BY Zenon
  <2>3. /\ Known(KeyOf(pending[i])) /\ KeyOf(pending[i]) \in Key
        /\ KeyOf(pending[i]) = [k |-> current, id |-> i, call |-> pending[i].call]
    BY Zenon, <2>1, <2>2, PendingKeys
  <2>4. h.call = KeyOf(pending[i]).call
    BY <1>1, <2>1, <2>2, <2>3 DEF RpcInv, KeysUnique
  <2>5. PICK m : m = Response(h, status)
    BY Zenon
  <2>6. m \in ResponseMsg /\ m.k = h.k /\ m.id = h.id /\ m.call = h.call
    BY Zenon, <1>1, <2>5 DEF Response, UnaryResponse, ResponseMsg, Key
  <2>7. KeyOf(m) = KeyOf(pending[i])
    BY Zenon, <2>1, <2>2, <2>3, <2>4, <2>6 DEF KeyOf
  <2>8. /\ pending' = Except(pending, i)
        /\ responding' = responding \cup {[by |-> "handler", msg |-> m]}
    BY Zenon, <1>2, <2>2, <2>5 DEF Claim
  <2> QED
    BY Zenon, <2>1, <2>2, <2>6, <2>7, <2>8, ClaimStep
<1>3. CASE ~MayRespond(h)
  <2>1. responding' = responding /\ pending' = pending
    BY Zenon, <1>3 DEF Claim
  <2>2. \A g : g \in handling' \/ g \in handles' => g \in Key
    BY Zenon, KnownTyped DEF RpcInv
  <2>3. ServerType'
    BY Zenon, <2>1, <2>2 DEF RpcInv, ServerType
  <2>4. NetType' /\ rx'["client"] = rx["client"]
    BY Zenon DEF RpcInv, NetType, netVars
  <2>5. UNCHANGED <<clientVars, on, up, toServer, toClient, answers>>
    BY Zenon DEF netVars
  <2>6. RpcInv'
    BY Zenon, <2>1, <2>3, <2>4, <2>5, ServerOnly
  <2> QED
    BY Zenon, <2>1, <2>6 DEF Taken
<1> QED
  BY Zenon, <1>2, <1>3

(* A step of the server that takes requests off only as Taken allows.       *)
LEMMA ServerQuiet ==
  ASSUME RpcInv, UNCHANGED <<clientVars, netVars, answers>>, current' = current,
         \A i \in DOMAIN pending' : /\ i \in DOMAIN pending /\ KeyOf(pending'[i]) = KeyOf(pending[i])
                                    /\ pending'[i] \in [k : {current}, id : {i}, call : Call, left : Nat],
         \A i \in DOMAIN pending : i \notin DOMAIN pending' => ~active',
         \A h : h \in handling' \/ h \in handles' => Known(h), responding' = responding
  PROVE  RpcInv' /\ Taken
<1>1. \A h : h \in handling' \/ h \in handles' => h \in Key
  BY Zenon, KnownTyped DEF RpcInv
<1>2. ServerType'
  BY Zenon, <1>1 DEF RpcInv, ServerType
<1>3. NetType' /\ rx'["client"] = rx["client"]
  BY Zenon DEF RpcInv, NetType, netVars
<1>4. UNCHANGED <<clientVars, on, up, toServer, toClient, answers>> /\ responding' \subseteq responding
  BY Zenon DEF netVars
<1>5. RpcInv'
  BY Zenon, <1>2, <1>3, <1>4, ServerOnly
<1> QED
  BY Zenon, <1>5 DEF Taken

(* The dispatcher, a handler, the deadline thread, and time.                *)
LEMMA ServerStepStep ==
  ASSUME RpcInv, ServerStep
  PROVE  RpcInv' /\ Taken
<1>1. UNCHANGED <<clientVars, netVars, answers>>
  BY Zenon DEF ServerStep
<1>2. \A h : h \in handling \/ h \in handles => Known(h)
  BY Zenon DEF Known
<1>3. \A i \in DOMAIN pending : pending[i] \in [k : {current}, id : {i}, call : Call, left : Nat]
  BY Zenon, PendingKeys
<1>4. CASE Dispatch
  <2>1. PICK h \in handling :
          /\ handling' = {} /\ current' = current
          /\ \/ Claim(h, "failure") /\ handles' = handles
             \/ handles' = handles \cup {h} /\ responding' = responding /\ pending' = pending
    BY Zenon, <1>4 DEF Dispatch
  <2>2. Known(h) /\ \A g : g \in handling' \/ g \in handles' => Known(g)
    BY Zenon, <1>2, <2>1
  <2>3. CASE Claim(h, "failure")
    BY Zenon, <1>1, <2>1, <2>2, <2>3, HandleClaims
  <2>4. CASE responding' = responding /\ pending' = pending
    BY Zenon, <1>1, <1>3, <2>1, <2>2, <2>4, ServerQuiet
  <2> QED
    BY Zenon, <2>1, <2>3, <2>4
<1>5. ASSUME NEW h \in handles, Respond(h)
      PROVE  RpcInv' /\ Taken
  <2>1. /\ Claim(h, "ok") /\ current' = current /\ handling' = handling /\ handles' = handles
    BY Zenon, <1>5 DEF Respond
  <2>2. Known(h) /\ \A g : g \in handling' \/ g \in handles' => Known(g)
    BY Zenon, <1>2, <2>1
  <2> QED
    BY Zenon, <1>1, <2>1, <2>2, HandleClaims
<1>6. CASE DeadlineTest
  <2>1. /\ current' = current /\ handling' = handling /\ handles' = handles
        /\ \/ pending' = pending /\ responding' = responding
           \/ \E i \in Earliest :
                /\ pending' = Except(pending, i) /\ pending[i].left = 0
                /\ responding' = responding \cup
                     {[by |-> "timer", msg |-> Response(pending[i], "deadline")]}
    BY Zenon, <1>6 DEF DeadlineTest
  <2>2. \A g : g \in handling' \/ g \in handles' => Known(g)
    BY Zenon, <1>2, <2>1
  <2>3. CASE pending' = pending /\ responding' = responding
    BY Zenon, <1>1, <1>3, <2>1, <2>2, <2>3, ServerQuiet
  <2>4. ASSUME NEW i \in Earliest, pending' = Except(pending, i),
               responding' = responding \cup
                 {[by |-> "timer", msg |-> Response(pending[i], "deadline")]}
        PROVE  RpcInv' /\ Taken
    <3>1. i \in DOMAIN pending
      BY Zenon DEF Earliest, Timed
    <3>2. PICK m : m = Response(pending[i], "deadline")
      BY Zenon
    <3>3. pending[i].k \in Nat /\ pending[i].id \in Nat /\ pending[i].call \in Call
      BY Zenon, <1>3, <3>1 DEF RpcInv, ServerType
    <3>4. m \in ResponseMsg /\ KeyOf(m) = KeyOf(pending[i])
      BY Zenon, <3>2, <3>3 DEF Response, UnaryResponse, ResponseMsg, KeyOf
    <3>5. responding' = responding \cup {[by |-> "timer", msg |-> m]}
      BY Zenon, <2>4, <3>2
    <3> QED
      BY Zenon, <1>1, <2>1, <2>2, <2>4, <3>1, <3>4, <3>5, ClaimStep
  <2> QED
    BY Zenon, <2>1, <2>3, <2>4
<1>7. CASE DeadlineWakes
  <2>1. /\ current' = current /\ handling' = handling /\ handles' = handles
        /\ pending' = pending /\ responding' = responding
    BY Zenon, <1>7 DEF DeadlineWakes
  <2> QED
    BY Zenon, <1>1, <1>2, <1>3, <2>1, ServerQuiet
<1>8. CASE Tick
  <2>1. /\ current' = current /\ handling' = handling /\ handles' = handles
        /\ responding' = responding
        /\ pending' = [i \in DOMAIN pending |-> [pending[i] EXCEPT !.left = Less(@)]]
    BY Zenon, <1>8 DEF Tick
  <2>2. \A n \in Nat : Less(n) \in Nat
    BY DEF Less
  <2>3. DOMAIN pending' = DOMAIN pending
    BY Zenon, <2>1
  <2>4. \A i \in DOMAIN pending :
          /\ KeyOf(pending'[i]) = KeyOf(pending[i])
          /\ pending'[i] \in [k : {current}, id : {i}, call : Call, left : Nat]
    <3> SUFFICES ASSUME NEW i \in DOMAIN pending
                 PROVE  /\ KeyOf(pending'[i]) = KeyOf(pending[i])
                        /\ pending'[i] \in [k : {current}, id : {i}, call : Call, left : Nat]
      BY Zenon
    <3>1. PICK p : p = pending[i]
      BY Zenon
    <3>2. p \in [k : {current}, id : {i}, call : Call, left : Nat]
      BY Zenon, <1>3, <3>1
    <3>3. pending'[i] = [p EXCEPT !.left = Less(p.left)]
      BY Zenon, <2>1, <3>1
    <3> QED
      BY Zenon, <2>2, <3>1, <3>2, <3>3 DEF KeyOf
  <2> QED
    BY Zenon, <1>1, <1>2, <2>1, <2>3, <2>4, ServerQuiet
<1> QED
  BY Zenon, <1>4, <1>5, <1>6, <1>7, <1>8 DEF ServerStep

(* end() and begin().                                                       *)
LEMMA ServerControlStep ==
  ASSUME RpcInv, ServerControl
  PROVE  RpcInv' /\ Taken
<1>1. UNCHANGED <<clientVars, netVars, answers>> /\ (ServerEnd \/ ServerBegin)
  BY Zenon DEF ServerControl
<1>2. /\ current' = current /\ handling' = handling /\ handles' = handles
      /\ responding' = responding
      /\ pending' = pending \/ (DOMAIN pending' = {} /\ ~active')
  BY Zenon, <1>1 DEF ServerEnd, ServerBegin, Nothing
<1>3. \A h : h \in handling' \/ h \in handles' => Known(h)
  BY Zenon, <1>2 DEF Known
<1>4. \A i \in DOMAIN pending : pending[i] \in [k : {current}, id : {i}, call : Call, left : Nat]
  BY PendingKeys
<1>5. /\ \A i \in DOMAIN pending' :
           /\ i \in DOMAIN pending /\ KeyOf(pending'[i]) = KeyOf(pending[i])
           /\ pending'[i] \in [k : {current}, id : {i}, call : Call, left : Nat]
      /\ \A i \in DOMAIN pending : i \notin DOMAIN pending' => ~active'
  BY Zenon, <1>2, <1>4
<1> QED
  BY Zenon, <1>1, <1>2, <1>3, <1>5, ServerQuiet

(* A request arrives: it is recorded, or dropped.                           *)
LEMMA ServerReceivesStep ==
  ASSUME RpcInv, ServerReceives
  PROVE  RpcInv' /\ Taken
<1>1. /\ toServer # <<>> /\ toServer' = Tail(toServer)
      /\ UNCHANGED <<clientVars, on, up, rx, toClient, answers>>
  BY Zenon DEF ServerReceives
<1>2. toServer \in Seq(RequestMsg)
  BY Zenon DEF RpcInv, NetType
<1>3. PICK m : m = Head(toServer)
  OBVIOUS
<1>4. /\ m = toServer[1] /\ m \in RequestMsg /\ toServer' \in Seq(RequestMsg)
      /\ \A i \in 1 .. Len(toServer') : i + 1 \in 1 .. Len(toServer) /\ toServer'[i] = toServer[i + 1]
      /\ 1 \in 1 .. Len(toServer) /\ 1 \in Nat
  BY <1>1, <1>2, <1>3, HeadTail
<1>5. /\ KeyOf(m) \in Key /\ Known(KeyOf(m)) /\ m.k \in Nat /\ m.id \in Nat
      /\ m.call \in Call /\ m.timeout \in Nat
  BY Zenon, <1>4 DEF Known, KeyOf, Key, RequestMsg
<1>6. NetType'
  BY Zenon, <1>1, <1>4 DEF RpcInv, NetType
<1>7. ClientInv' /\ ClientKeeps
  BY Zenon, <1>1, ClientUnchanged DEF RpcInv, ClientInv
<1>8. on["client"] <= on'["client"] /\ (Restarted => Restarted')
  BY <1>1 DEF RpcInv, NetType, End, Restarted
<1>9. \A i \in 1 .. Len(toClient') : i + 0 \in 1 .. Len(toClient) /\ toClient'[i] = toClient[i + 0]
  BY <1>1
<1>10. \A h : h \in handling \/ h \in handles => Known(h)
  BY DEF Known
<1>11. PICK old : old = Reconnected(m.k)
  BY Zenon
<1>12. \A i \in DOMAIN old : i \in DOMAIN pending /\ old[i] = pending[i] /\ m.k = current
  BY Zenon, <1>11 DEF Reconnected, Nothing
<1>13. m.k = current => old = pending
  BY Zenon, <1>11 DEF Reconnected
<1>14. CASE pending' = old /\ current' = m.k /\ UNCHANGED <<handling, handles, responding>>
  <2>1. ServerType'
    BY Zenon, <1>5, <1>12, <1>14 DEF RpcInv, ServerType
  <2>2. RpcKeeps
    BY Zenon, <1>6, <1>7, <1>8, <2>1 DEF RpcKeeps
  <2>3. /\ \A i \in DOMAIN pending' : i \in DOMAIN pending /\ KeyOf(pending'[i]) = KeyOf(pending[i])
        /\ \A h : h \in handling' \/ h \in handles' => Known(h)
        /\ responding' \subseteq responding /\ answers' = answers /\ 0 \in Nat
    BY Zenon, <1>1, <1>10, <1>12, <1>14
  <2>4. RpcInv'
    BY Zenon, <1>4, <1>9, <2>2, <2>3, ShrinkStep
  <2> QED
    BY Zenon, <1>13, <1>14, <2>4 DEF Taken
<1>15. CASE UNCHANGED serverVars
  <2>1. UNCHANGED <<serverVars, answers>> /\ 0 \in Nat
    BY Zenon, <1>1, <1>15
  <2>2. RpcInv'
    BY Zenon, <1>4, <1>6, <1>7, <1>8, <1>9, <2>1, ServerSame
  <2> QED
    BY Zenon, <1>15, <2>2 DEF Taken, serverVars
<1>16. CASE /\ current' = m.k /\ m.id \notin DOMAIN old /\ pending' = With(old, m.id, Request(m))
            /\ handling' = {[k |-> m.k, id |-> m.id, call |-> m.call]}
            /\ UNCHANGED <<handles, responding>>
  <2>1. PICK j, p : j = m.id /\ p = Request(m)
    BY Zenon
  <2>2. /\ p \in [k : {m.k}, id : {j}, call : Call, left : Nat] /\ KeyOf(p) = KeyOf(m)
        /\ p.call = m.call
    BY Zenon, <1>5, <2>1 DEF Request, KeyOf
  <2>3. /\ DOMAIN pending' = DOMAIN old \cup {j} /\ pending'[j] = p
        /\ \A i \in DOMAIN old : pending'[i] = old[i]
    BY Zenon, <1>16, <2>1 DEF With
  <2>4. handling' = {KeyOf(m)}
    BY Zenon, <1>16 DEF KeyOf
  <2>5. ServerType'
    BY <1>5, <1>12, <1>16, <2>1, <2>2, <2>3, <2>4 DEF RpcInv, ServerType
  <2>6. \A x : Known(x)' => Known(x)
    <3> SUFFICES ASSUME NEW x, Known(x)' PROVE Known(x)
      BY Zenon
    <3>1. CASE \E i \in DOMAIN pending' : KeyOf(pending'[i]) = x
      BY Zenon, <1>5, <1>12, <2>2, <2>3, <3>1 DEF Known
    <3>2. CASE x \in handling' \/ x \in handles'
      BY Zenon, <1>5, <1>10, <1>16, <2>4, <3>2
    <3>3. CASE \E i \in 1 .. Len(toServer') : KeyOf(toServer'[i]) = x
      BY Zenon, <1>4, <3>3 DEF Known
    <3>4. CASE \/ \E r \in responding' : KeyOf(r.msg) = x
               \/ \E i \in 1 .. Len(toClient') : KeyOf(toClient'[i]) = x
      BY Zenon, <1>1, <1>16, <3>4 DEF Known
    <3> QED
      BY Zenon, <3>1, <3>2, <3>3, <3>4 DEF Known
  <2>7. KeysExact' /\ KeysUnique'
    BY Zenon, <1>6, <1>7, <1>8, <2>6, KeysStep DEF RpcInv
  <2>8. PICK c : c = m.call
    BY Zenon
  <2>9. c \in Call /\ ~Pending(c) /\ ~Responding(c) /\ answers[c] = 0
    <3>1. Requested(c)
      BY Zenon, <1>4, <2>8 DEF Requested
    <3> QED
      BY Zenon, <1>5, <2>8, <3>1 DEF RpcInv, OnePlace
  <2>10. \A i \in 1 .. Len(toServer') : toServer'[i].call # c
    <3> SUFFICES ASSUME NEW i \in 1 .. Len(toServer'), toServer'[i].call = c PROVE FALSE
      BY Zenon
    <3>1. PICK a : a = i + 1
      BY Zenon
    <3>2. a \in 1 .. Len(toServer) /\ toServer[a].call = toServer[1].call
      BY Zenon, <1>4, <2>8, <3>1
    <3>3. a = 1
      BY Zenon, <1>4, <3>2 DEF RpcInv, OnePlace
    <3> QED
      BY <3>1, <3>3
  <2>11. \A i, l \in 1 .. Len(toServer') : toServer'[i].call = toServer'[l].call => i = l
    <3> SUFFICES ASSUME NEW i \in 1 .. Len(toServer'), NEW l \in 1 .. Len(toServer'),
                        toServer'[i].call = toServer'[l].call
                 PROVE  i = l
      BY Zenon
    <3>1. PICK a, b : a = i + 1 /\ b = l + 1
      BY Zenon
    <3>2. /\ a \in 1 .. Len(toServer) /\ b \in 1 .. Len(toServer)
          /\ toServer[a].call = toServer[b].call
      BY Zenon, <1>4, <3>1
    <3>3. a = b
      BY Zenon, <3>2 DEF RpcInv, OnePlace
    <3> QED
      BY <3>1, <3>3
  <2>12. \A d : /\ Requested(d)' => Requested(d) /\ d # c
                /\ Pending(d)' => Pending(d) \/ d = c
                /\ Responding(d)' <=> Responding(d)
    <3>1. \A d : Requested(d)' => Requested(d) /\ d # c
      BY Zenon, <1>4, <2>10 DEF Requested
    <3>2. \A d : Pending(d)' => Pending(d) \/ d = c
      BY Zenon, <1>12, <2>2, <2>3, <2>8 DEF Pending
    <3>3. \A d : Responding(d)' <=> Responding(d)
      BY ZenonT(40), <1>16 DEF Responding
    <3> QED
      BY Zenon, <3>1, <3>2, <3>3
  <2>13. OnePlace'
    BY <1>1, <1>7, <1>16, <2>9, <2>11, <2>12 DEF RpcInv, OnePlace, ClientKeeps
  <2>14. Taken
    BY Zenon, <1>13, <1>16, <2>3 DEF Taken
  <2> QED
    BY Zenon, <1>6, <1>7, <2>5, <2>7, <2>13, <2>14 DEF RpcInv, ClientInv
<1> QED
  BY Zenon, <1>3, <1>11, <1>14, <1>15, <1>16 DEF ServerReceives, HandleRequest

(* A response is sent, on the connection of its request, or dropped.        *)
LEMMA SendResponseStep ==
  ASSUME RpcInv, SendResponse
  PROVE  RpcInv' /\ Taken
<1>1. PICK r \in responding :
        /\ ResponseSent(r)
        /\ IF MayContinue(r)
           THEN /\ toClient' = Sent("server", toClient, [r.msg EXCEPT !.k = on["server"]])
                /\ answers' = [answers EXCEPT ![r.msg.call] = @ + 1]
           ELSE UNCHANGED <<toClient, answers>>
        /\ UNCHANGED <<clientVars, on, up, rx, toServer, lost>>
  BY Zenon DEF SendResponse
<1>2. /\ responding' = responding \ {r} /\ current' = current /\ pending' = pending
      /\ handling' = handling /\ handles' = handles
      /\ on' = on /\ up' = up /\ rx' = rx /\ toServer' = toServer
  BY Zenon, <1>1 DEF ResponseSent
<1>3. ClientInv' /\ ClientKeeps
  BY Zenon, <1>1, ClientUnchanged DEF RpcInv, ClientInv
<1>4. ServerType'
  BY Zenon, <1>2 DEF RpcInv, ServerType
<1>5. Taken
  BY Zenon, <1>2 DEF Taken
<1>6. PICK m, c : m = r.msg /\ c = m.call
  BY Zenon
<1>7. m \in ResponseMsg /\ c \in Call /\ Known(KeyOf(m))
  BY Zenon, <1>6 DEF RpcInv, ServerType, ResponseMsg, Known
<1>8. /\ toClient \in Seq(ResponseMsg) /\ Len(toClient) \in Nat /\ answers \in [Call -> Nat]
      /\ on["client"] \in Nat
  BY DEF RpcInv, NetType, End
<1>9. /\ toClient' = toClient \/ toClient' = Append(toClient, m)
      /\ answers' = answers \/ answers' = [answers EXCEPT ![c] = answers[c] + 1]
  <2>1. CASE MayContinue(r)
    <3>1. [r.msg EXCEPT !.k = on["server"]] = m
      BY Zenon, <1>6, <1>7, <2>1 DEF MayContinue, ResponseMsg
    <3> QED
      BY Zenon, <1>1, <1>6, <2>1, <3>1 DEF Sent
  <2>2. CASE ~MayContinue(r)
    BY Zenon, <1>1, <2>2
  <2> QED
    BY Zenon, <2>1, <2>2
<1>10. /\ toClient' \in Seq(ResponseMsg)
       /\ \A i \in 1 .. Len(toClient') :
            \/ i \in 1 .. Len(toClient) /\ toClient'[i] = toClient[i]
            \/ toClient'[i] = m
  <2>1. CASE toClient' = toClient
    BY Zenon, <1>8, <2>1
  <2>2. CASE toClient' = Append(toClient, m)
    BY Zenon, <1>7, <1>8, <2>2, AppendKeeps
  <2> QED
    BY Zenon, <1>9, <2>1, <2>2
<1>11. /\ answers' \in [Call -> Nat] /\ answers'[c] <= answers[c] + 1
       /\ \A d \in Call : d # c => answers'[d] = answers[d]
  BY <1>7, <1>8, <1>9
<1>12. NetType'
  BY Zenon, <1>2, <1>10, <1>11 DEF RpcInv, NetType
<1>13. \A x : Known(x)' => Known(x)
  <2> SUFFICES ASSUME NEW x, Known(x)' PROVE Known(x)
    BY Zenon
  <2>1. CASE \E i \in 1 .. Len(toClient') : KeyOf(toClient'[i]) = x
    BY Zenon, <1>7, <1>10, <2>1 DEF Known
  <2>2. CASE ~\E i \in 1 .. Len(toClient') : KeyOf(toClient'[i]) = x
    BY Zenon, <1>2, <2>2 DEF Known
  <2> QED
    BY Zenon, <2>1, <2>2
<1>14. on["client"] <= on'["client"] /\ (Restarted => Restarted')
  BY <1>2, <1>8 DEF Restarted
<1>15. KeysExact' /\ KeysUnique'
  BY Zenon, <1>3, <1>12, <1>13, <1>14, KeysStep DEF RpcInv
<1>16. Responding(c) /\ \A q \in responding : q.msg.call = c => q = r
  BY Zenon, <1>6 DEF RpcInv, OnePlace, Responding
<1>17. /\ ~Requested(c) /\ ~Pending(c) /\ answers[c] = 0
       /\ cpc[c] # "out" /\ cpc[c] # "send"
  <2>1. ~Requested(c) /\ ~Pending(c) /\ answers[c] = 0
    BY Zenon, <1>7, <1>16 DEF RpcInv, OnePlace
  <2> QED
    BY Zenon, <1>7, <1>16, <2>1, PlaceKnown DEF Submitted
<1>18. \A d : /\ Requested(d)' <=> Requested(d)
              /\ Pending(d)' <=> Pending(d)
              /\ Responding(d)' => Responding(d) /\ d # c
  BY Zenon, <1>2, <1>16 DEF Requested, Pending, Responding
<1>19. OnePlace'
  BY <1>2, <1>3, <1>11, <1>17, <1>18 DEF RpcInv, OnePlace, ClientKeeps
<1> QED
  BY Zenon, <1>3, <1>4, <1>5, <1>12, <1>15, <1>19 DEF RpcInv, ClientInv
-----------------------------------------------------------------------------
(* The theorems.                                                            *)
(* At the start nothing has been called.                                    *)
LEMMA RpcInitially ==
  ASSUME Init
  PROVE  RpcInv
<1> USE RpcClientAssumption
<1>1. /\ nextId = 1 /\ DOMAIN calls = {} /\ claimed = {}
      /\ cpc = [c \in Call |-> "out"] /\ cid = [c \in Call |-> 0]
      /\ armed = [c \in Call |-> FALSE] /\ result = [c \in Call |-> <<>>]
      /\ current = 0 /\ DOMAIN pending = {} /\ handling = {} /\ handles = {} /\ responding = {}
      /\ on = [e \in End |-> 0] /\ up = [e \in End |-> FALSE] /\ rx = [e \in End |-> "connect"]
      /\ toServer = <<>> /\ toClient = <<>> /\ answers = [c \in Call |-> 0]
  BY Zenon DEF Init, ClientInit, ServerInit, Nothing
<1>2. ClientType /\ ServerType /\ NetType
  BY <1>1 DEF ClientType, ServerType, NetType
<1>3. CallsNumbered
  <2>1. Numbered(0, 0)
    BY <1>1 DEF Numbered, Call
  <2> QED
    BY <2>1 DEF CallsNumbered
<1>4. RegistryExact /\ CallbackWaits
  BY Zenon, <1>1 DEF RegistryExact, CallbackWaits
<1>5. Len(toServer) = 0 /\ Len(toClient) = 0
  BY Zenon, <1>1
<1>6. \A x : ~Known(x)
  BY <1>1, <1>5 DEF Known
<1>7. KeysExact /\ KeysUnique
  BY Zenon, <1>6 DEF KeysExact, KeysUnique
<1>8. OnePlace
  BY <1>1, <1>5 DEF OnePlace, Requested, Pending, Responding
<1> QED
  BY Zenon, <1>2, <1>3, <1>4, <1>7, <1>8 DEF RpcInv

(* A step keeps the invariant, calls a callback that waits only, and takes  *)
(* requests to answer them only.                                            *)
LEMMA RpcStep ==
  ASSUME RpcInv, [Next]_vars, MaxCalls <= MaxId
  PROVE  /\ RpcInv' /\ Taken
         /\ \A c \in Call : result'[c] # result[c] => result[c] = <<>> /\ cpc[c] # "failed"
<1>1. \A i \in DOMAIN pending : current > 0 /\ current \in Nat
  BY Zenon, PendingKeys DEF RpcInv, ServerType
<1>2. ASSUME NEW e \in End, Connect(e) \/ Breaks(e) \/ ReadFails(e) \/ Restarts(e)
      PROVE  RpcInv' /\ Taken /\ result' = result
  <2>1. RpcInv'
    BY Zenon, <1>2, ConnectStep, BreaksStep, ReadFailsStep, ClientRestart, ServerRestart DEF End
  <2>2. pending' = pending \/ (current' = current => current = 0)
    BY Zenon, <1>2 DEF Connect, Breaks, ReadFails, Restarts, serverVars, ServerConnectionReset,
                ServerRestarts
  <2>3. Taken
    BY <1>1, <2>2 DEF Taken
  <2>4. result' = result
    BY Zenon, <1>2 DEF Connect, Breaks, ReadFails, Restarts, clientVars, ConnectionReset,
       ClientRestarts
  <2> QED
    BY Zenon, <2>1, <2>3, <2>4
<1>3. ASSUME NEW c \in Call, Submit(c) \/ SendRequest(c) \/ SendDone(c) \/ Cancel(c)
      PROVE  RpcInv' /\ Taken /\ result' = result
  <2>1. RpcInv'
    BY Zenon, <1>3, SubmitStep, SendRequestStep
  <2>2. pending' = pending /\ result' = result
    BY Zenon, <1>3 DEF Submit, SendRequest, SendDone, Cancel, serverVars, NewStream, SendWritten,
                SendReturns, CancelErase, CancelClear
  <2> QED
    BY Zenon, <2>1, <2>2 DEF Taken
<1>4. CASE ClientReceives
  <2>1. pending' = pending
    BY Zenon, <1>4 DEF ClientReceives, serverVars
  <2> QED
    BY Zenon, <1>4, <2>1, ClientReceivesStep DEF Taken
<1>5. CASE ClientCompletes
  <2>1. pending' = pending
    BY Zenon, <1>5 DEF ClientCompletes, serverVars
  <2> QED
    BY Zenon, <1>5, <2>1, ClientCompletesStep DEF Taken
<1>6. CASE ServerReceives \/ ServerStep \/ ServerControl \/ SendResponse
  <2>1. result' = result
    BY Zenon, <1>6 DEF ServerReceives, ServerStep, ServerControl, SendResponse, clientVars
  <2> QED
    BY Zenon, <1>6, <2>1, ServerReceivesStep, ServerStepStep, ServerControlStep, SendResponseStep
<1>7. CASE UNCHANGED vars
  <2>1. /\ UNCHANGED clientVars /\ UNCHANGED <<serverVars, netVars, answers>>
        /\ pending' = pending /\ result' = result
    BY Zenon, <1>7 DEF vars, serverVars, clientVars
  <2>2. RpcInv'
    BY Zenon, <2>1, ClientUnchanged, ClientOnly DEF RpcInv, ClientInv
  <2> QED
    BY Zenon, <2>1, <2>2 DEF Taken
<1> QED
  BY Zenon, <1>2, <1>3, <1>4, <1>5, <1>6, <1>7 DEF Next

(* What holds of client and server at every time, as long as stream ids     *)
(* are not used up by one client (client.cpp numbers 2^24 - 1 calls before  *)
(* it begins again).                                                        *)
THEOREM RpcInvariant ==
  ASSUME MaxCalls <= MaxId
  PROVE  Spec => []RpcInv
<1>1. Init => RpcInv
  BY Zenon, RpcInitially
<1>2. RpcInv /\ [Next]_vars => RpcInv'
  BY Zenon, RpcStep
<1> QED
  BY <1>1, <1>2, PTL DEF Spec

(* A callback gets the response to its own call (handleResponse() finds it  *)
(* by its stream id), however often the client restarts and begins to       *)
(* number again, and however long a handler keeps its handle.               *)
THEOREM CallbacksGetOwnResponse ==
  ASSUME MaxCalls <= MaxId
  PROVE  Spec => []OwnResponse
<1>1. RpcInv => OwnResponse
  <2> SUFFICES ASSUME RpcInv, NEW c \in Call, NEW i \in DOMAIN result[c]
               PROVE  result[c][i].of \in {0, c}
    BY Zenon DEF OwnResponse
  <2>1. result[c] \in Seq(Outcome(c))
    BY Zenon DEF RpcInv, ClientType
  <2>2. result[c][i] \in Outcome(c)
    BY <2>1
  <2> QED
    BY Zenon, <2>2 DEF Outcome
<1> QED
  BY <1>1, RpcInvariant, PTL

(* At most one response is sent for a request, by its handler, the          *)
(* dispatcher or the deadline thread (prepForResponse() and deadlineLoop()).*)
THEOREM AnswersAreUnique ==
  ASSUME MaxCalls <= MaxId
  PROVE  Spec => []AnsweredOnce
<1>1. RpcInv => AnsweredOnce
  BY Zenon DEF RpcInv, OnePlace, AnsweredOnce
<1> QED
  BY <1>1, RpcInvariant, PTL

(* A callback is called once, and not when its submission has failed:       *)
(* complete() and cancelSend() agree on who has it.                         *)
THEOREM CallbackCalledOnce ==
  ASSUME MaxCalls <= MaxId
  PROVE  Spec => CallbackAllowed
<1>1. RpcInv /\ [Next]_vars =>
        [\A c \in Call : result'[c] # result[c] => result[c] = <<>> /\ cpc[c] # "failed"]_vars
  BY Zenon, RpcStep
<1> QED
  BY <1>1, RpcInvariant, PTL DEF Spec, CallbackAllowed

(* A request leaves the pending ones with an answer to it on its way, or    *)
(* with its connection or the server: no handle of an earlier connection    *)
(* takes it (prepForResponse()).                                            *)
THEOREM RequestsTakenToAnswer ==
  ASSUME MaxCalls <= MaxId
  PROVE  Spec => TakenToAnswer
<1>1. RpcInv /\ [Next]_vars => [Taken]_vars
  BY Zenon, RpcStep
<1> QED
  BY <1>1, RpcInvariant, PTL DEF Spec, TakenToAnswer, Taken
=============================================================================
