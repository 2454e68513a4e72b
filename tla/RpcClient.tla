------------------------------- MODULE RpcClient -------------------------------
(***************************************************************************)
(* The client of unary RPCs (rpc/client.cpp): calls that are submitted by  *)
(* any thread, and completed by the receive thread of the messaging layer, *)
(* with the server's response or because the connection was reset.         *)
(*                                                                         *)
(* Each action is one critical section: of mutex_, which protects the      *)
(* registry of calls, or of the mutex of one call, which protects its      *)
(* callback.  A call is numbered by the order of submission; its stream id *)
(* is what the wire carries.                                               *)
(***************************************************************************)
EXTENDS RpcMessages

CONSTANTS MaxCalls,    \* bound: calls submitted
          MaxId        \* the largest stream id, 0x00FFFFFF in the code

ASSUME RpcClientAssumption == MaxCalls \in Nat /\ MaxId \in Nat \ {0}

VARIABLES nextId,   \* next_stream_id_
          calls,    \* outgoing_calls_: stream id -> call
          cpc,      \* where the submission of each call is
          cid,      \* the stream id of each call
          armed,    \* whether its callback is still there (call->cb)
          claimed,  \* the calls that the receive thread is completing, with their results
          result    \* history: what the callback of each call was called with

clientVars == <<nextId, calls, cpc, cid, armed, claimed, result>>

Call == 1 .. MaxCalls

(* A callback's status, and the call whose response it gets (0 for none).   *)
Unavailable == [status |-> "unavailable", of |-> 0]

ClientInit ==
  /\ nextId = 1 /\ calls = [i \in {} |-> 0]
  /\ cpc = [c \in Call |-> "out"] /\ cid = [c \in Call |-> 0]
  /\ armed = [c \in Call |-> FALSE]
  /\ claimed = {} /\ result = [c \in Call |-> <<>>]

Go(c, place) == cpc' = [cpc EXCEPT ![c] = place]

(* Calls are submitted in the order of their numbers.                       *)
IsNext(c) == cpc[c] = "out" /\ \A d \in 1 .. c - 1 : cpc[d] # "out"

(* sendUnaryRpc(): new_stream(), which takes the next stream id and puts    *)
(* the call into the registry ...                                           *)
NewStream(c) ==
  /\ IsNext(c)
  /\ cid' = [cid EXCEPT ![c] = nextId]
  /\ nextId' = IF nextId + 1 > MaxId THEN 1 ELSE nextId + 1
  /\ calls' = IF nextId \in DOMAIN calls THEN calls ELSE With(calls, nextId, c)
  /\ armed' = [armed EXCEPT ![c] = TRUE]
  /\ Go(c, "send")
  /\ UNCHANGED <<claimed, result>>

(* ... send() of the messaging layer, which writes the request and then     *)
(* tells whether the link is still open ...                                 *)
SendWritten(c) ==
  /\ cpc[c] = "send" /\ Go(c, "sent")
  /\ UNCHANGED <<nextId, calls, cid, armed, claimed, result>>

SendReturns(c, open) ==
  /\ cpc[c] = "sent" /\ Go(c, IF open THEN "ok" ELSE "erase")
  /\ UNCHANGED <<nextId, calls, cid, armed, claimed, result>>

(* ... and cancelSend(), if it is not: the registry first ...               *)
CancelErase(c) ==
  /\ cpc[c] = "erase" /\ Go(c, "clear")
  /\ calls' = Except(calls, cid[c])
  /\ UNCHANGED <<nextId, cid, armed, claimed, result>>

(* Faulty: the callback is left to whoever has claimed it.                  *)
CancelClearBug(c) ==
  /\ cpc[c] = "clear" /\ Go(c, "failed")
  /\ UNCHANGED <<nextId, calls, cid, armed, claimed, result>>

(* ... and the callback then.                                               *)
CancelClear(c) ==
  /\ cpc[c] = "clear" /\ Go(c, "failed")
  /\ armed' = [armed EXCEPT ![c] = FALSE]
  /\ UNCHANGED <<nextId, calls, cid, claimed, result>>
-----------------------------------------------------------------------------
(* handleResponse(): the call leaves the registry.                          *)
HandleResponse(m) ==
  /\ claimed' = IF m.id \in DOMAIN calls
                THEN {[call |-> calls[m.id], with |-> [status |-> m.status, of |-> m.call]]}
                ELSE {}
  /\ calls' = Except(calls, m.id)
  /\ UNCHANGED <<nextId, cpc, cid, armed, result>>

(* Faulty: calls that send() has accepted are left to the server.           *)
ConnectionResetBug ==
  LET old == {i \in DOMAIN calls : cpc[calls[i]] # "ok"} IN
  /\ claimed' = {[call |-> calls[i], with |-> Unavailable] : i \in old}
  /\ calls' = [i \in DOMAIN calls \ old |-> calls[i]]
  /\ UNCHANGED <<nextId, cpc, cid, armed, result>>

(* connectionReset(): all calls leave the registry.                         *)
ConnectionReset ==
  /\ claimed' = {[call |-> calls[i], with |-> Unavailable] : i \in DOMAIN calls}
  /\ calls' = [i \in {} |-> 0]
  /\ UNCHANGED <<nextId, cpc, cid, armed, result>>

(* complete(): the callback, if it is still there, is taken and called.     *)
Complete(r) ==
  /\ r \in claimed /\ claimed' = claimed \ {r}
  /\ result' = IF armed[r.call] THEN [result EXCEPT ![r.call] = Append(@, r.with)] ELSE result
  /\ armed' = [armed EXCEPT ![r.call] = FALSE]
  /\ UNCHANGED <<nextId, calls, cpc, cid>>

(* The device restarts: the calls under way are gone, and a new client      *)
(* begins with the first stream id.                                         *)
ClientRestarts ==
  /\ nextId' = 1 /\ calls' = [i \in {} |-> 0] /\ claimed' = {}
  /\ cpc' = [c \in Call |-> IF cpc[c] = "out" THEN "out" ELSE "gone"]
  /\ armed' = [c \in Call |-> FALSE]
  /\ UNCHANGED <<cid, result>>

ClientTypeOK ==
  /\ nextId \in 1 .. MaxId
  /\ DOMAIN calls \subseteq 1 .. MaxId /\ \A i \in DOMAIN calls : calls[i] \in Call
  /\ cpc \in [Call -> {"out", "send", "sent", "ok", "erase", "clear", "failed", "gone"}]
  /\ cid \in [Call -> 0 .. MaxId] /\ armed \in [Call -> BOOLEAN]
  /\ {r.call : r \in claimed} \subseteq Call
=============================================================================
