------------------------------- MODULE MCWire -------------------------------
(***************************************************************************)
(* What is on the wire, for TLC: the sequence numbers of RingBuffer, the   *)
(* messages of MessageStack and the delays of RetryBackoff, side by side.  *)
(* They do not interact: one of them moves while the others rest.          *)
(***************************************************************************)
EXTENDS RingBuffer, MessageStack, RetryBackoff

(* Payloads with the edges of every type, in tuples, pairs and nested.      *)
Edges(size) ==
  {<<Integer(size, FALSE), n>> : n \in {0, 1, Base ^ size - 1}} \cup
  {<<Integer(size, TRUE), n>> : n \in {-1, -(Base ^ size \div 2), Base ^ size \div 2 - 1}}

Zeros(n) == [i \in 1 .. n |-> 0]

Strings == {<<String, s>> : s \in {<<>>, <<0>>, <<1, Base - 1>>}}

Simples == Edges(1) \cup Edges(2) \cup Strings \cup
           {<<Void, 0>>, <<Bool, TRUE>>, <<Bool, FALSE>>}

PairOf(p, q) == <<Tuple(<<p[1], q[1]>>), <<p[2], q[2]>>>>

Nested == {<<Tuple(<<String, Tuple(<<Bool, Void>>), Integer(2, TRUE)>>), <<s, <<b, 0>>, -2>>>> :
             s \in {<<>>, <<0, 0, 0>>}, b \in BOOLEAN}

(* Members at the limit of their length, and past it; a message that is too *)
(* large.                                                                   *)
Long == {<<String, Zeros(MaxRecv)>>} \cup {<<Tuple(<<String, Bool>>), <<Zeros(n), TRUE>>>> : n \in {Base ^ 2 - 1, Base ^ 2}}

SomePayloads ==
  Simples \cup Edges(4) \cup {PairOf(p, q) : p \in Simples, q \in Strings} \cup Nested \cup Long

(* Requests and responses with the edges of every field.                    *)
Headers ==
  {UnaryRequestHeader(0, 0), UnaryRequestHeader(High, Base ^ 3 - 1),
   UnaryRequestHeaderWithTimeout(High - 1, Base, MaxVar), UnaryResponseHeader(1, 0),
   UnaryResponseHeader(Base ^ 2, 13)}

Call(h, p) == [header |-> h, type |-> p[1], val |-> p[2]]

SomeCalls ==
  {Call(h, <<Tuple(<<Bool, String>>), <<TRUE, <<0>>>>>>) : h \in Headers}
    \cup {Call(UnaryRequestHeader(1, 2), p) : p \in Long \cup {<<Void, 0>>}}

SomeTypes ==
  {Void, Bool, String, Integer(1, TRUE), Integer(2, FALSE), Tuple(<<Bool, Integer(1, FALSE)>>),
   Tuple(<<String, Void>>), Tuple(<<Tuple(<<Bool, Bool>>), String>>)}

(* The delays of OutBuffer, and of Channel with half of its cap.            *)
SomeDelays == {<<5000, 200000>>, <<1000, 500000>>}

(* A value to be serialized, or bytes to be deserialized.                   *)
VARIABLE sample

NoSample == [what |-> "none"]

TakeSample ==
  /\ sample = NoSample
  /\ \/ \E p \in SomePayloads : sample' = [what |-> "value", type |-> p[1], val |-> p[2]]
     \/ \E t \in SomeTypes, s \in UNION {[1 .. n -> {0, 1, 2}] : n \in 0 .. 6} :
          sample' = [what |-> "bytes", type |-> t, bytes |-> s]

DropSample == sample # NoSample /\ sample' = NoSample

allVars == <<ringVars, stackVars, backoffVars, sample>>

MCInit == RingInit /\ StackInit /\ BackoffInit /\ sample = NoSample

(* The other parts move with one of the callers only.                       *)
BackoffRests == retries = 0 /\ caller = <<5000, 200000>> /\ UNCHANGED backoffVars

MCNext ==
  \/ StackInit /\ sample = NoSample /\ BackoffRests /\ RingNext /\ UNCHANGED <<stackVars, sample>>
  \/ RingInit /\ sample = NoSample /\ BackoffRests /\ StackNext /\ UNCHANGED <<ringVars, sample>>
  \/ RingInit /\ StackInit /\ sample = NoSample /\ MarkSent /\ UNCHANGED <<ringVars, stackVars, sample>>
  \/ RingInit /\ StackInit /\ BackoffRests /\ (TakeSample \/ DropSample) /\ UNCHANGED <<ringVars, stackVars>>

MCSpec == MCInit /\ [][MCNext]_allVars
-----------------------------------------------------------------------------
(* Serializer and Deserializer of a type are inverse to each other: a value *)
(* comes back as it was, unless a member is too long for its length, which  *)
(* is an error; and what is accepted is an encoding, not a number of the    *)
(* wrong length, a member that runs past the end or one followed by more.   *)
SerializersInverse ==
  /\ sample.what = "value" =>
       LET s == Serialize(sample.type, sample.val)
       IN  s.ok => Deserialize(sample.type, s.data) = Ok(sample.val)
  /\ sample.what = "bytes" =>
       LET d == Deserialize(sample.type, sample.bytes)
       IN  d.ok => Serialize(sample.type, d.val) = [ok |-> TRUE, data |-> sample.bytes]
=============================================================================
