------------------------------- MODULE RpcServer -------------------------------
(***************************************************************************)
(* The server of unary RPCs (rpc/server.cpp): requests that the receive    *)
(* thread of the messaging layer hands to handlers, responses that         *)
(* handlers send now or later from any thread, and the thread that answers *)
(* requests whose deadline has passed.                                     *)
(*                                                                         *)
(* Each action is one critical section of mutex_.  Deadlines are the time  *)
(* that is left; Tick lets it pass.  A response that has been claimed is   *)
(* sent later, without the mutex.                                          *)
(***************************************************************************)
EXTENDS RpcMessages

VARIABLES active,     \* active_
          current,    \* connection_id_
          pending,    \* pending_calls_: stream id -> request
          handling,   \* the request the receive thread has accepted, as a set
          handles,    \* the RequestHandles of handlers
          responding, \* the responses that have been claimed and not sent
          dpc,        \* where the deadline thread is
          until       \* the time until which it waits

serverVars == <<active, current, pending, handling, handles, responding, dpc, until>>

Nothing == [i \in {} |-> 0]

ServerInit ==
  /\ active = TRUE /\ current = 0 /\ pending = Nothing
  /\ handling = {} /\ handles = {} /\ responding = {}
  /\ dpc = "none" /\ until = 0

Timer(place) ==
  /\ dpc' = place
  /\ until' = IF place = "until" THEN until ELSE 0

(* deadlines_changed_.notify_all()                                          *)
NotifyTimer == Timer(IF dpc \in {"wait", "until"} THEN "test" ELSE dpc)
-----------------------------------------------------------------------------
(* reconnected(): requests of an earlier connection are forgotten.          *)
Reconnected(k) == IF k = current THEN pending ELSE Nothing

Request(m) == [k |-> m.k, id |-> m.id, call |-> m.call, left |-> m.timeout]

(* handleRequest(): reconnected(), and a request that is not a duplicate is *)
(* recorded; the deadline thread is started when it is first needed.  (The  *)
(* two critical sections are one here: what may come between them, end()    *)
(* and the deadline thread, may as well come before.)                       *)
HandleRequest(m) ==
  /\ current' = m.k
  /\ IF active /\ m.id \notin DOMAIN Reconnected(m.k)
     THEN /\ pending' = With(Reconnected(m.k), m.id, Request(m))
          /\ handling' = {[k |-> m.k, id |-> m.id, call |-> m.call]}
          /\ IF m.timeout # NoTimeout /\ dpc = "none" THEN Timer("test") ELSE NotifyTimer
     ELSE /\ pending' = Reconnected(m.k)
          /\ IF m.k = current THEN Timer(dpc) ELSE NotifyTimer
          /\ UNCHANGED handling
  /\ UNCHANGED <<active, handles, responding>>

(* Faulty: a handle may claim a request of another connection.              *)
MayRespondBug(h) == h.id \in DOMAIN pending

(* prepForResponse(): whether handle h may claim the request ...            *)
MayRespond(h) ==
  /\ h.k = current
  /\ h.id \in DOMAIN pending /\ pending[h.id].k = h.k

(* ... with which status ...                                                *)
Response(h, status) ==
  UnaryResponse(h.k, h.id, h.call, IF pending[h.id].left = 0 THEN "deadline" ELSE status)

(* Faulty: the request stays.                                               *)
ClaimBug(h, status) ==
  IF MayRespond(h)
  THEN /\ responding' = responding \cup {[by |-> "handler", msg |-> Response(h, status)]}
       /\ NotifyTimer /\ UNCHANGED pending
  ELSE UNCHANGED <<responding, pending, dpc, until>>

(* ... and that it is claimed once.                                         *)
Claim(h, status) ==
  IF MayRespond(h)
  THEN /\ responding' = responding \cup {[by |-> "handler", msg |-> Response(h, status)]}
       /\ pending' = Except(pending, h.id)
       /\ NotifyTimer
  ELSE UNCHANGED <<responding, pending, dpc, until>>

(* The rest of handleRequest(): a deadline that has passed already, an      *)
(* unknown function, or the handler is called.  (If the request is gone,    *)
(* whether the handler runs makes no difference: its handle claims nothing.)*)
Dispatch ==
  \E h \in handling :
    /\ handling' = {}
    /\ \/ Claim(h, "failure") /\ UNCHANGED handles
       \/ /\ h.id \in DOMAIN pending => pending[h.id].left # 0
          /\ handles' = handles \cup {h}
          /\ UNCHANGED <<responding, pending, dpc, until>>
    /\ UNCHANGED <<active, current>>

(* A handler responds, at any time, and perhaps more than once.             *)
Respond(h) ==
  /\ h \in handles /\ MayRespond(h)
  /\ Claim(h, "ok")
  /\ UNCHANGED <<active, current, handling, handles>>

(* connectionReset()                                                        *)
ServerConnectionReset(k) ==
  /\ IF k # current THEN UNCHANGED <<current, pending, dpc, until>>
     ELSE current' = 0 /\ pending' = Nothing /\ NotifyTimer
  /\ UNCHANGED <<active, handling, handles, responding>>
-----------------------------------------------------------------------------
Timed == {i \in DOMAIN pending : pending[i].left # NoTimeout}

Earliest == {i \in Timed : \A j \in Timed : pending[i].left <= pending[j].left}

(* deadlineLoop(), from one wait to the next.                               *)
DeadlineTest ==
  /\ dpc = "test"
  /\ \/ /\ ~active /\ dpc' = "done"
        /\ UNCHANGED <<pending, responding, until>>
     \/ /\ active /\ Timed = {} /\ dpc' = "wait"
        /\ UNCHANGED <<pending, responding, until>>
     \/ \E i \in Earliest :
          /\ active /\ pending[i].left > 0
          /\ dpc' = "until" /\ until' = pending[i].left
          /\ UNCHANGED <<pending, responding>>
     \/ \E i \in Earliest :
          /\ active /\ pending[i].left = 0
          /\ responding' = responding \cup
                             {[by |-> "timer", msg |-> Response(pending[i], "deadline")]}
          /\ pending' = Except(pending, i)
          /\ dpc' = "send" /\ UNCHANGED until
  /\ UNCHANGED <<active, current, handling, handles>>

(* wait_until() times out.                                                  *)
DeadlineWakes ==
  /\ dpc = "until" /\ until = 0
  /\ dpc' = "test"
  /\ UNCHANGED <<active, current, pending, handling, handles, responding, until>>

Less(n) == IF n \in {0, NoTimeout} THEN n ELSE n - 1

Tick ==
  /\ \/ \E i \in Timed : pending[i].left > 0
     \/ dpc = "until" /\ until > 0
  /\ pending' = [i \in DOMAIN pending |-> [pending[i] EXCEPT !.left = Less(@)]]
  /\ until' = Less(until)
  /\ UNCHANGED <<active, current, handling, handles, responding, dpc>>

(* Faulty: the deadline thread is not notified.                             *)
ServerEndBug ==
  /\ active /\ active' = FALSE
  /\ pending' = Nothing
  /\ UNCHANGED <<current, handling, handles, responding, dpc, until>>

(* end(), up to where it joins the deadline thread.                         *)
ServerEnd ==
  /\ active /\ active' = FALSE
  /\ pending' = Nothing
  /\ NotifyTimer
  /\ UNCHANGED <<current, handling, handles, responding>>

(* begin() again, when end() has joined the deadline thread.                *)
ServerBegin ==
  /\ ~active /\ dpc \in {"none", "done"}
  /\ active' = TRUE /\ dpc' = "none"
  /\ UNCHANGED <<current, pending, handling, handles, responding, until>>

(* sendResponse() has handed the response to the messaging layer; the       *)
(* deadline thread goes on with its loop.                                   *)
ResponseSent(r) ==
  /\ r \in responding /\ responding' = responding \ {r}
  /\ dpc' = IF r.by = "timer" THEN "test" ELSE dpc
  /\ UNCHANGED <<active, current, pending, handling, handles, until>>

(* The device restarts: a new server with nothing pending.                  *)
ServerRestarts ==
  /\ active /\ current' = 0 /\ pending' = Nothing
  /\ handling' = {} /\ handles' = {} /\ responding' = {}
  /\ dpc' = "none" /\ until' = 0
  /\ UNCHANGED active

ServerTypeOK ==
  /\ active \in BOOLEAN /\ current \in Nat
  /\ \A i \in DOMAIN pending : pending[i].id = i /\ pending[i].left \in 0 .. NoTimeout
  /\ dpc \in {"none", "test", "wait", "until", "send", "done"} /\ until \in 0 .. MaxTimeout
=============================================================================
