------------------------------ MODULE RpcHeader ------------------------------
(***************************************************************************)
(* The header of a message of the RPC layer as bytes                       *)
(* (rpc/internal/header.cpp).  Bytes are as in Serialization; the integers *)
(* of variable length are roo_io's, with the high bit of a byte saying     *)
(* that there are more.                                                    *)
(***************************************************************************)
EXTENDS Serialization
LOCAL INSTANCE SequencesExt

CONSTANTS MaxVar  \* ReadVarU32 rejects larger numbers, 2^32 - 1 in the code

High == Base \div 2

ASSUME RpcHeaderAssumption == Base % 32 = 0 /\ MaxVar \in Nat

RECURSIVE WriteVar(_)
WriteVar(n) == IF n < High THEN <<n>> ELSE <<High + (n % High)>> \o WriteVar(n \div High)

(* The number at the beginning of s and how many bytes it has, 0 if there   *)
(* is none.                                                                 *)
ReadVar(s) ==
  LET last == {k \in DOMAIN s : s[k] < High}
      len == CHOOSE k \in last : \A j \in last : k <= j
      n == FoldRight(LAMBDA b, m : (b % High) + High * m, SubSeq(s, 1, len), 0)
  IN  IF last = {} THEN [len |-> 0]
      ELSE IF n > MaxVar THEN [len |-> 0] ELSE [len |-> len, n |-> n]

(* NewUnaryRequest() without and with a timeout, NewUnaryResponse().        *)
UnaryRequestHeader(function, stream) ==
  [request |-> TRUE, first |-> TRUE, last |-> TRUE, hasTimeout |-> FALSE,
   stream |-> stream, function |-> function, timeout |-> 0]

UnaryRequestHeaderWithTimeout(function, stream, timeout) ==
  [UnaryRequestHeader(function, stream) EXCEPT !.hasTimeout = TRUE, !.timeout = timeout]

UnaryResponseHeader(stream, status) ==
  [request |-> FALSE, first |-> TRUE, last |-> TRUE, hasTimeout |-> FALSE,
   stream |-> stream, status |-> status]

Bit(b, n) == IF b THEN n ELSE 0
Has(mask, n) == (mask \div n) % 2 = 1

SerializeHeader(h) ==
  <<Bit(h.request, 1) + Bit(h.first, 2) + Bit(h.last, 4) + Bit(h.hasTimeout, 8)>>
  \o StoreBe(h.stream, 3)
  \o IF h.request /\ h.first
     THEN WriteVar(h.function) \o (IF h.hasTimeout THEN WriteVar(h.timeout) ELSE <<>>)
     ELSE IF ~h.request /\ h.last THEN <<h.status>> ELSE <<>>

NoHeader == [len |-> 0]

(* The rest of a header of a new request.                                   *)
DeserializeRequest(h, s) ==
  LET function == ReadVar(SubSeq(s, 5, Len(s)))
      timeout == ReadVar(SubSeq(s, 5 + function.len, Len(s)))
      new(ms) == h @@ [function |-> function.n, timeout |-> ms]
  IN  IF function.len = 0 THEN NoHeader
      ELSE IF ~h.hasTimeout THEN [len |-> 4 + function.len, header |-> new(0)]
      ELSE IF timeout.len = 0 THEN NoHeader
      ELSE [len |-> 4 + function.len + timeout.len, header |-> new(timeout.n)]

(* deserialize(): the header and its length, 0 if it is invalid.            *)
DeserializeHeader(s) ==
  LET h == [request |-> Has(s[1], 1), first |-> Has(s[1], 2), last |-> Has(s[1], 4),
            hasTimeout |-> Has(s[1], 8), stream |-> LoadBeU(SubSeq(s, 2, 4))]
  IN  IF Len(s) < 4 THEN NoHeader
      ELSE IF s[1] >= 16 THEN NoHeader
      ELSE IF h.request /\ h.first THEN DeserializeRequest(h, s)
      ELSE IF h.request \/ ~h.last THEN [len |-> 4, header |-> h]
      ELSE IF Len(s) < 5 THEN NoHeader
      ELSE [len |-> 5, header |-> h @@ [status |-> s[5]]]
=============================================================================
