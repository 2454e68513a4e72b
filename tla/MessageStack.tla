---------------------------- MODULE MessageStack ----------------------------
(***************************************************************************)
(* One direction of a connection, from a typed call to the handler of its  *)
(* peer, at the level of bytes: the arguments (Serialization), the header  *)
(* of the RPC layer (RpcHeader), the channel number that MuxMessaging puts *)
(* before it (messaging/mux_messaging.cpp), and the size that              *)
(* LinkMessaging puts before it all (link/link_messaging.cpp).  Logical    *)
(* channels come and go at the receiving end, and the connection may be    *)
(* reset between any two messages, or in the middle of one.                *)
(***************************************************************************)
EXTENDS RpcHeader

CONSTANTS Channels,     \* channel numbers in use
          Calls,        \* what is sent: a header, and the type and value of arguments
          MaxRecv,      \* max_recv_packet_size_
          MaxMessages   \* bound: messages sent

VARIABLES stream,     \* bytes on the link that are not read yet
          receivers,  \* the channels that are registered at the receiving end
          sent,       \* history: what was sent
          outcome,    \* history: what became of each of those, in order
          connection, \* the connection id: 1, 2, 3, ...
          heard,      \* the connection a channel had messages of since its reset
          astray      \* reading began inside a packet of an earlier connection

stackVars == <<stream, receivers, sent, outcome, connection, heard, astray>>

StackInit ==
  /\ stream = <<>> /\ receivers = {} /\ sent = <<>> /\ outcome = <<>>
  /\ connection = 1 /\ heard = [c \in Channels |-> 0] /\ astray = FALSE

(* Messages that were sent and are neither delivered nor lost.              *)
Underway == Len(sent) - Len(outcome)

(* Faulty: the first channel only is told.                                  *)
ResetBug(inside) ==
  /\ stream' = <<>> /\ astray' = inside
  /\ outcome' = outcome \o [k \in 1 .. Underway |-> [how |-> "reset"]]
  /\ connection' = connection + 1
  /\ heard' = [c \in Channels |-> IF \A d \in receivers : c <= d THEN 0 ELSE heard[c]]
  /\ UNCHANGED <<receivers, sent>>

(* MuxMessaging::reset(), and what comes with it: what is under way is not  *)
(* received, and receiveLoop() connects again.  Receiver::init() keeps the  *)
(* packet that is being read: inside says whether there is one.             *)
Reset(inside) ==
  /\ stream' = <<>> /\ astray' = inside
  /\ outcome' = outcome \o [k \in 1 .. Underway |-> [how |-> "reset"]]
  /\ connection' = connection + 1
  /\ heard' = [c \in Channels |-> IF c \in receivers THEN 0 ELSE heard[c]]
  /\ UNCHANGED <<receivers, sent>>

(* MuxMessaging::Channel::send().                                           *)
MuxHeader(channel, header) == <<channel>> \o header

(* LinkMessaging::sendInternal().                                           *)
LinkMessage(header, payload) ==
  StoreBe(Len(header) + Len(payload), 4) \o header \o payload

(* UnaryStub::call() and RpcClient::sendUnaryRpc(), which sends nothing if  *)
(* the arguments cannot be serialized, or a response that can be (the       *)
(* server does not look, and would send what there is of one that cannot).  *)
SendMessage(channel, header, type, val) ==
  LET payload == Serialize(type, val) IN
  /\ Len(sent) < MaxMessages
  /\ payload.ok
  /\ stream' = stream \o LinkMessage(MuxHeader(channel, SerializeHeader(header)), payload.data)
  /\ sent' = Append(sent, [channel |-> channel, header |-> header, type |-> type, val |-> val])
  /\ UNCHANGED <<receivers, outcome, connection, heard, astray>>

(* Channel::Channel() and ~Channel() at the receiving end.                  *)
RegisterChannel(channel) ==
  /\ channel \notin receivers
  /\ receivers' = receivers \cup {channel}
  /\ heard' = [heard EXCEPT ![channel] = 0]
  /\ UNCHANGED <<stream, sent, outcome, connection, astray>>

UnregisterChannel(channel) ==
  /\ channel \in receivers
  /\ receivers' = receivers \ {channel}
  /\ UNCHANGED <<stream, sent, outcome, connection, heard, astray>>

(* handleRequest() or handleResponse() and the Deserializer: data is what   *)
(* the channel is given, type what the function takes.                      *)
Handled(channel, data, type) ==
  LET h == DeserializeHeader(data)
      arg == Deserialize(type, SubSeq(data, h.len + 1, Len(data)))
  IN  IF h.len = 0 THEN [how |-> "no header", channel |-> channel]
      ELSE IF ~arg.ok THEN [how |-> "invalid", channel |-> channel]
      ELSE [how |-> "delivered", channel |-> channel, header |-> h.header, val |-> arg.val]

(* Dispatcher::received() and MuxMessaging::received().                     *)
Dispatched(data, type) ==
  IF Len(data) < 1 THEN [how |-> "too short"]
  ELSE IF data[1] \notin receivers THEN [how |-> "unknown", channel |-> data[1]]
  ELSE Handled(data[1], SubSeq(data, 2, Len(data)), type)

Size == LoadBeU(SubSeq(stream, 1, 4))

(* Faulty: the size is taken to count itself.                               *)
MessageBug == SubSeq(stream, 5, Size)

(* The message that the size is followed by.                                *)
Message == SubSeq(stream, 5, 4 + Size)

(* receiveLoop() reads a message ...                                        *)
ReceiveMessage ==
  LET o == Dispatched(Message, sent[Len(outcome) + 1].type) IN
  /\ ~astray /\ Len(stream) >= 4 /\ Size <= MaxRecv /\ Len(stream) >= 4 + Size
  /\ outcome' = Append(outcome, o)
  /\ stream' = SubSeq(stream, 5 + Len(Message), Len(stream))
  /\ heard' = IF o.how \in {"delivered", "invalid", "no header"}
              THEN [heard EXCEPT ![o.channel] = connection] ELSE heard
  /\ UNCHANGED <<receivers, sent, connection, astray>>

(* ... or a size that it does not accept.  It connects again and does not   *)
(* read the rest of the message, which may begin in the packet of the size; *)
(* tryRead() then begins the new connection with the rest of that packet.   *)
ReceiveTooLarge ==
  /\ ~astray /\ Len(stream) >= 4 /\ Size > MaxRecv
  /\ \E inside \in BOOLEAN : Reset(inside)

(* What it reads there are not the messages that are sent: it dispatches    *)
(* anything, to any channel ...                                             *)
ReceiveAstray(channel) ==
  /\ astray /\ channel \in receivers
  /\ heard' = [heard EXCEPT ![channel] = connection]
  /\ UNCHANGED <<stream, receivers, sent, outcome, connection, astray>>

(* ... until the connection breaks, as any may, or a number is too large    *)
(* for a size.  A packet that was being read by mistake may be kept again.  *)
ConnectionBreaks ==
  /\ connection <= MaxMessages
  /\ \E inside \in {FALSE, astray} : Reset(inside)

StackNext ==
  \/ \E c \in Channels, m \in Calls : SendMessage(c, m.header, m.type, m.val)
  \/ \E c \in Channels : RegisterChannel(c) \/ UnregisterChannel(c) \/ ReceiveAstray(c)
  \/ ReceiveMessage \/ ReceiveTooLarge \/ ConnectionBreaks
-----------------------------------------------------------------------------
(* A call arrives as it was made, if it arrives: at the channel it was made *)
(* on, with its stream, function and timeout or its status, and with equal  *)
(* arguments; what is dropped is dropped for a reset or because nobody has  *)
(* registered for its channel, and the messages after it are not affected.  *)
(* (Not of a connection that begins inside a packet: see the README.)       *)
ArrivesAsSent ==
  /\ Len(outcome) <= Len(sent)
  /\ \A i \in DOMAIN outcome :
       LET o == outcome[i]
           s == sent[i]
       IN  \/ o.how = "reset"
           \/ o.how = "unknown" /\ o.channel = s.channel
           \/ /\ o.how = "delivered" /\ o.channel = s.channel
              /\ o.header = s.header /\ o.val = s.val
  /\ Underway = 0 => stream = <<>>

(* No channel is given messages of two connections without a reset between  *)
(* them, wherever reading begins: "Resets are propagated to every           *)
(* registered channel" (doc/programming_guide.md).                          *)
ResetBetween == \A c \in receivers : heard[c] \in {0, connection}
=============================================================================
