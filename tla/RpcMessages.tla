------------------------------ MODULE RpcMessages ------------------------------
(***************************************************************************)
(* The messages of unary RPCs (rpc/internal/header.cpp).  Field k is the   *)
(* connection a message travels on and field call the call it is about:    *)
(* neither is on the wire, which has the stream id only.                   *)
(***************************************************************************)
EXTENDS Integers, Sequences

CONSTANT MaxTimeout   \* the longest timeout

ASSUME RpcMessagesAssumption == MaxTimeout \in Nat

(* The timeout of a request without one (has_timeout_ is false).            *)
NoTimeout == MaxTimeout + 1

UnaryRequest(k, id, call, timeout) ==
  [k |-> k, id |-> id, call |-> call, timeout |-> timeout]

UnaryResponse(k, id, call, status) ==
  [k |-> k, id |-> id, call |-> call, status |-> status]

(* A registry of stream ids with one more, and with one less.               *)
With(f, id, value) == [i \in DOMAIN f \cup {id} |-> IF i = id THEN value ELSE f[i]]

Except(f, id) == [i \in DOMAIN f \ {id} |-> f[i]]
=============================================================================
