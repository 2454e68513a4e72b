# A TLA+ model of roo_transport

roo_transport carries reliable, ordered byte streams, messages and remote calls
over an unreliable packet line between two microcontrollers. This directory
models the parts of it whose correctness depends on interleavings, losses and
restarts, checks them with TLC on small instances, and proves most of their
safety properties with TLAPS for every size. Paths below are relative to
`src/src/roo_transport/`.

## The system

A link has two ends, and each end has a `Channel`. A channel owns

- a `Transmitter` (`link/internal/transmitter.cpp`): a ring of packets that wait
  to be sent or acknowledged;
- a `Receiver` (`link/internal/receiver.cpp`): a ring of packets that have
  arrived and are not yet read;
- the state of the handshake that ties its stream id to the peer's;
- a sender thread, which runs `sendLoop` and sleeps on
  `OutgoingDataReadyNotification`.

The application's threads write, read, flush, close, connect and disconnect. A
receive thread passes arriving packets to `Channel::packetReceived`. Three
mutexes keep them apart: one per channel for the handshake, one in
`ThreadSafeTransmitter`, one in `ThreadSafeReceiver`.

On top of a link, `LinkMessaging` sends whole messages and reconnects when the
link breaks, `MuxMessaging` divides the messages among channels, and the RPC
client and server exchange calls. Below a link, `PacketSenderOverStream` and
`PacketReceiverOverStream` frame packets on a serial line; adapters exist for
Arduino, ESP-IDF and the Pico.

### Inventory

| Part | Source | Module |
|---|---|---|
| sequence numbers, rings, wire numbers | `link/internal/seq_num.h`, `ring_buffer.h`, `protocol.h` | `RingBuffer`, `WireSeq` |
| outgoing half of a stream | `link/internal/transmitter.*`, `out_buffer.*` | `Transmitter` |
| incoming half of a stream | `link/internal/receiver.*`, `in_buffer.h` | `Receiver` |
| one direction of a link | `link/internal/thread_safe/channel.cpp` (`trySend`, `packetReceived`) | `DataLink`, implements `ByteStream` |
| handshake, life cycle of a link | `channel.cpp` (`connect`, `disconnect`, `conn`, `handleHandshakePacket`) | `Handshake`, `MCHandshake` |
| sender thread and its notification | `channel.cpp` (`sendLoop`, `end`), `outgoing_data_ready_notification.h` | `SendLoop` |
| blocking writes and closes | `thread_safe_transmitter.*` | `ThreadSafeTransmitter` |
| blocking reads | `thread_safe_receiver.*` | `ThreadSafeReceiver` |
| blocked calls while the link changes | `channel.cpp` | `ChannelCalls` |
| messages over a link | `link/link_messaging.*` | `LinkMessaging` |
| RPC client | `rpc/client.*` | `RpcClient` |
| RPC server | `rpc/server.*`, `rpc/internal/server/*` | `RpcServer` |
| RPCs over connections that are reset | `messaging/messaging.cpp`, `link/link_messaging.cpp` | `Rpc` |
| RPC wire format | `rpc/internal/header.*`, `rpc/serialization.h` | `RpcHeader`, `Serialization` |
| multiplexed messages, and the layers of a message | `messaging/mux_messaging.*`, `link/link_messaging.cpp`, `rpc/client.cpp` | `MessageStack` |
| framing | `packets/over_stream/*` | `PacketsOverStream` |
| serial port of the Pico | `link/pico/reliable_uart_dma.cpp` | `UartDma` |
| packets over a serial line | both of these | `SerialPath`, implements `PacketLine` |
| retry backoff | `link/internal/retry_backoff.h`, `out_buffer.cpp` | `RetryBackoff`; elsewhere a retry may happen at any time |
| link wrappers and streams | `link/link*.cpp` | not modelled: they pass calls on |
| other adapters | `link/arduino`, `link/esp_idf` | not modelled: set-up of devices and loops that pass bytes on |

`PROJECT.json` lists, for every definition that models code, the lines it
models, and for every hazard of the code the line where it bites and the
properties that cover it.

## The modules

**`WireSeq`** has the twelve-bit sequence numbers of packet headers: `Wire`
truncates a position, `Restore` puts the high bits back relative to the start of
a ring. Its assumption is `kMaxLinkBufferSizeLog2` with the DCHECK of
`restorePosHighBits`: four send buffers, and four receive buffers of the peer,
fit in the range of the header. Either may be the larger (`ValidateBufferSizes`
compares the two buffers of one device).

**`RingBuffer`** is the class of that name over `SeqNum`: `push`, `pop`, `reset`
and every query, on 16-bit numbers that wrap around. The variables `first` and
`last` are the positions the wrapped fields stand for. The other modules use
unbounded positions; `RingBuffer`'s properties are what allows it.

**`Transmitter`** has one action per call: `TryWriteAppend`, `TryWritePush` and
`TryWriteBlocked` (the turns of `tryWrite`'s loop), `Flush`, `Close`, `TxSend`
(`getBufferToSend` and `send`), `TxAck`, `TxUpdateRecvHimark`. `outBuf` is a log
of all packets of the stream; the ring is its part from `txBegin` on. Time is
abstracted: a packet is `due` when its expiration was set to the start of time,
and any other expiration may have passed or not.

**`Receiver`** likewise: `TryReadPart` and `TryReadRest` (the turns of
`tryRead`'s loop), `MarkInputClosed`, `HandleDataPacket`, `RxAck`,
`RxUpdateRecvHimark`. `inBuf` is a function on the positions of the ring.
`delivered` is the history of the bytes the reader was given.

**`DataLink`** joins a transmitter and the receiver at the other end. `toRx` and
`toTx` hold the packets under way. Sending either adds a packet or loses it;
packets arrive in order (`InOrder`) or in any order. The handshake appears as
two steps, receiver first. While its own transmitter is connecting a channel
holds back acknowledgements and high-water marks (`channel.cpp:253`); here they
may be sent or not, which allows at least as much.

**`ByteStream`** is what one direction of a link promises: the reader is given
the bytes that were written, in order, each once, and told of the end only after
the last. `DataLink` implements it under the mapping in `Stream`.

**`Handshake`** has two channels with every field the handshake reads or writes.
`Connect` and `Disconnect` are the application's calls, `SendConn` is `conn()`,
`ReceiveConn` is `handleHandshakePacket` with its branches as operators
(`SameId`, `Accepted`, `Broken`, `Acknowledged`). Of the data only what breaking
a link depends on is kept: whose packets are in whose ring. `txSeq` does not
move: a handshake packet carries `transmitter_.front()`, which moves only when
data was acknowledged, when the peer's receiver is connected and no longer reads
the number. `ReadPart` is a `tryRead` that ends in the middle of a packet, whose
link the field `cur` then names; a new session keeps it, as `Receiver::init`
does. With `Abandon = FALSE` an application connects anew only when it has read
to the end of its packet or has disconnected. Closing the receiver's input does
not change the handshake and is left out.

**`SendLoop`** has the sender thread and `OutgoingDataReadyNotification` at the
grain of the atomic exchange, the mutex and the condition variable, with any
number of notifying threads and `Channel::end`. Releasing the mutex and falling
asleep is one step; testing the flag and deciding to sleep are not.

**`BlockedThreads`** has threads that sleep on condition variables.
**`ThreadSafeTransmitter`** adds `write` on `has_space_`, `close` on `all_acked_`
and every call that notifies one, both or neither; **`ThreadSafeReceiver`** adds
`read` on `has_data_` likewise. The transmitter below is reduced to counts, the
receiver to the kinds of the packets in its ring, gaps included.
**`ChannelCalls`** composes them. A change of the link (`Connect`, `Disconnect`,
`NewStream`, `SameId`) changes the transmitter and the receiver in two critical
sections, and `SecondHalf` is the second: blocked threads may run in between.
`eosStale` says that a stream was closed while it was connecting and its
end-of-stream packet got the wrong control bit; such a packet is not
acknowledged.

**`LinkMessaging`** has senders, the receive thread and `end()`, with `mutex_`
held across the writes of a message, and the link reduced to being alive and
having room. When the peer opens a new stream the link is either broken, which
wakes a blocked write (`PeerBreaksLink`), or reset, which does not
(`PeerResetsLink`).

**`RpcClient`** has the registry of calls, at the grain of its mutex and of the
mutex of each call: a call is registered (`NewStream`), sent, and perhaps
cancelled in two steps, while the receive thread claims calls (`HandleResponse`,
`ConnectionReset`) and completes them one by one. **`RpcServer`** has the pending
requests, handlers that may respond at any later time, the deadline thread with
its waits, and `end()` and `begin()`; deadlines are the time that is left, and
`Tick` lets it pass. `handleRequest` is two steps, `HandleRequest` and
`Dispatch`. **`Rpc`** puts one at each end of a messaging layer whose connections
are numbered: an end leaves its connection when the peer has left
(`Breaks`), when a message is too large for it, or when its device restarts.
A restarted client uses its stream ids again.

**`Serialization`** has the serializers of `rpc/serialization.h` by what they do
to bytes, over a small base instead of 256: fixed-size integers with their sign,
strings, pairs, and tuples whose members carry their length. A deserializer
returns a value or an error. **`RpcHeader`** is the header of a call, with its
flags, variable-length integers and optional timeout.
**`MessageStack`** sends typed calls through all the layers, from the arguments
to the bytes on the link, and takes them apart again at the other end: the size
in front of a message (`LinkMessaging::receiveLoop`), the channel number
(`MuxMessaging`), the header, the arguments. Channels are registered and
unregistered, the connection breaks in the middle of a message or is given up
because one is too large, and `Reset` tells the channels that are registered.
A connection that is made in the middle of a packet begins with the rest of that
packet (`astray`; see `stale_read` below): the receive thread then takes
arbitrary bytes for messages, and the module says of them no more than which
channels hear of them.

**`RetryBackoff`** is the formula of `RetryBackoffMicros` in integers and the
counter of retries in `OutBuffer`, which saturates.

**`PacketsOverStream`** has the frames of packets and `processIncoming`, which
finds them again in a stream that comes in chunks. COBS and the hash are taken
to tell a frame from anything else. **`UartDma`** has the two rings of
`ReliableUartDma`. The transmitting side (`TxSpec`): `write()` reads the free
room, copies and publishes in separate steps, the DMA channel sends, the
interrupt frees a segment and starts the next, `end()` flushes. The receiving
side (`RxSpec`): the channel writes for ever, `produced()` renews its transfer
count in two steps between which bytes arrive, and `readAvailable()` copies byte
by byte while the channel may overwrite what it copies. **`SerialPath`** composes
them: a sender's ring, a line that loses, damages and invents bytes, a
receiver's ring, and the reassembly. It implements **`PacketLine`**, which is
what the models of the link assume of their transport: packets may be lost and
nothing else happens to them.

**`MCWire`** puts the sequential parts (`RingBuffer`, `MessageStack`,
`Serialization`, `RetryBackoff`) into one state space, in which one of them moves
at a time.

The proofs are in **`WireProofs`** (of `RingBuffer`, `RetryBackoff`, `UartDma`,
`SerialPath` and `SendLoop`), **`EndpointProofs`** (of `Transmitter` and
`Receiver`), **`DataLinkProofs`**, **`HandshakeSteps`** and **`HandshakeProofs`**
(of `Handshake`), **`ChannelCallsProofs`** (of `ChannelCalls` and the modules it
composes), **`LinkMessagingProofs`**, and **`RpcProofs`** (of `Rpc`, `RpcClient`
and `RpcServer`).

A definition whose name ends in `Bug` is a faulty variant of the one after it,
of the kind a slip in the code would produce. No specification uses it. Put in
the place of the correct one, it makes TLC find the property violated that
`PROJECT.json` pairs it with: it shows that the property can tell.

## The runs

| Run | What it checks |
|---|---|
| `wire_formats` | membership, slots and reconstruction of sequence numbers are exact while they wrap around twice; calls come out of the bytes of four layers as they went in, or are lost with a reset that their channel is told of before it hears of the next connection; only encodings are decoded; retries come at the times that the comment of `RetryBackoffMicros` promises |
| `link_window` | a link over a lossy line that keeps the order, with packets filled and read in parts and early close, implements a byte stream; nothing is taken for received that was not; the open packet is never written to after it left the ring; credit, CHECKs and wire numbers |
| `link_live` | every byte written is read and `close()` completes, for packets that are never flushed too, for an end of stream that waits for a slot in a full ring, and for a reader that closes its input |
| `handshake_restart` | two ends that restart at any time, and may draw the same id: they agree on sequence numbers and control bits, no data crosses from one link to another, the callback is called exactly once, the CHECKs hold |
| `handshake_live` | `awaitConnected()` returns, and a link reported as connected is known to its peer |
| `send_loop` | no lost wake-up; what is queued is sent; `end()` joins |
| `blocking_calls` | `write()`, `close()` and `read()` are not left asleep, and return, while links are made, broken, reset and replaced, with the exceptions of the table of known deviations |
| `messaging` | messages are not interleaved, continuations stay on their link, `send()` returns unless a reset of the link strands a sender (Known deviations) |
| `rpc` | a callback is called once, with the response to its own call, and not after its submission has failed; a request is answered once; a stale handler takes nothing away |
| `rpc_live` | an accepted call completes through resets and restarts; the deadline thread ends |
| `serial_path` | the DMA rings send what was written and know what has arrived; frames are found however the stream is cut into chunks; over a line that loses, damages and invents bytes, and rings that overrun, packets arrive in order and once, or not at all |
| `stale_read` | finds a disagreement of code and documentation, see below |

### Bounds

- `RingBuffer`: 32 sequence numbers, 16 header values, 4 slots, 70 positions:
  every alignment of the window with each wrap-around. The proofs cover the
  code's sizes.
- `MessageStack`: 2 messages and 2 channel numbers; bytes are digits to base 32,
  so that the size of a member (two digits) can be exceeded and a
  variable-length integer takes one to four digits. Messages of more than 1040 bytes are
  too large, and one of the calls is. `Serialization` is tried on every sequence
  of up to six of the bytes 0, 1, 2 for every type, and on values at the
  boundaries.
- `RetryBackoff`: all 255 values of the counter, for the two callers' delays;
  the channel's cap is halved, to 500 ms, because TLC's integers have 32 bits.
  The proofs cover up to a second.
- `SerialPath`: rings of 4 bytes, counters modulo 8, a transfer count of 6, 3
  packets of 3 bytes and one fault: each ring wraps around twice, the count is
  renewed, and the receiving ring overruns. One byte may arrive during a copy
  (`MaxRace`). The refinement needs `MaxRace < Overhead - 1`, that is fewer
  bytes than a frame has before its zero (5 in the code): if as many arrive
  while a full ring is copied, a frame can be replaced by one of a later lap and
  come out early. A copy is a `memcpy` of at most 256 bytes.
- `DataLink`: rings of 2 slots (the receive ring of `link_live` has 1, as that of
  a peer with less memory), 2 or 3 packets and the end-of-stream packet, 8 wire
  numbers starting at 5. That is more packets than slots, so the ring fills,
  slots are reused, credit runs out and the wire numbers wrap around. At most 2
  packets are under way each way (1 data packet in `link_live`), so that a packet
  and its retransmission both arrive. In `link_window` both rings are as large
  as the wire numbers allow; the properties of `link_live` hold for such rings
  too with `InputClose = FALSE`.
- `Handshake`: 2 ids for each end, so that each restarts once with a packet of
  its first link still under way; 2 packets under way to each end.
- `SendLoop`: 2 producers and the thread that ends; work up to 2.
- `ChannelCalls`: 2 threads, a send ring of 1, a receive ring of 2 (so that it
  can have a gap), 2 links, 2 writes. Without a bound on the writes one thread
  could overtake another for ever.
- `Rpc`: `rpc` has 2 calls, 2 stream ids and 2 connections, so that a restarted
  client uses an id again while a handler of the first connection is still at
  work; `rpc_live` has 1 call and 3 connections. Timeouts are 1 or none; a
  timeout of 0 is one of 1 whose tick comes before `Dispatch`.
- `LinkMessaging`: 2 senders, messages of 2 parts, 2 links, 6 parts in all.

### Fairness

- Threads are scheduled: weak fairness of receiving, reading and waking up.
- A packet that is sent again and again gets through: strong fairness of
  *sending without loss* (`SendData(p)`, `SendAck`, `SendHimark`, `SendConn`).
  The code repeats packets until they are acknowledged and repeats high-water
  marks on a timer; no reliability beyond that is assumed.
- The reader keeps reading, and an application whose link is broken connects
  again (as `LinkMessaging` does).
- `SendLoop` assumes nothing of the timeout of `await`: work is sent without it.
- The writer is not assumed to write, flush or close.
- `ChannelCalls`: a peer that has not restarted acknowledges what it accepts
  (not an end of stream with the wrong control bit) and reports its buffer free
  once its reader has read; one that has restarted gets its connection request
  through, as it repeats it.
- `Rpc`: the receive threads and the deadline thread run, handlers respond, time
  passes, and a link breaks when the peer has left (`Handshake`). Calls that the
  server drops because it was ended, and those of the row about `Rpc` in
  the table below, are in the history variable `lost`, which `CallCompletes`
  excepts.

## The proofs

Each proof has the same plan: an inductive invariant, one lemma per action that
keeps it, and theorems that draw the run's properties from it.

| Module | Assumed beyond the constants' own assumptions |
|---|---|
| `WireProofs`, `ChannelCallsProofs`, `LinkMessagingProofs`, `HandshakeSteps` | nothing |
| `DataLinkProofs` | the transport keeps the order (`InOrder`) |
| `HandshakeProofs` | `InOrder`, or applications that let old handshake packets drain before they connect again (`Quiet`), as said below |
| `RpcProofs` | no more calls are made in all than there are stream ids (`MaxCalls <= MaxId`; the code has 2^24 - 1) |

### The wire

`SlotsAreExact`, `ContainsIsExact`, `SlotsAreDistinct` and `RestoreIsExact`
(`RingSpec => []` of the properties of `RingBuffer`), for every modulus, header
range and capacity that divide one another as powers of two do. The inductive
invariant `Window` says that the fields are the positions modulo the range and
that the window fits the buffer. Everything else is congruence: the first lemmas
of `WireProofs` show from division with remainder that congruent numbers of a
range are equal, that sums and differences preserve congruence, and that it
passes to divisors. `GrowIsBounded` and `JitterIsBounded` are the bounds of the
backoff and of its products in 32 bits, for delays of a millisecond to a second
and every random number.

### The serial port

`SendingIsExact` (`TxSpec => []SendsWhatWasWritten`) and
`ReceivingIsExact` (`RxSpec => []ProducedExact`), for every size of the ring,
the counters and the transfer count that divide one another as the code's do,
and for everything that `write()` is given. The counters wrap around; the
positions they stand for, `Published` and `Freed`, are defined from the history
and do not. The inductive invariant `TxInv` says that the counters are those
positions modulo their range and never further apart than the ring
(`TxCounters`), that what `write()` has yet to copy is the rest of what it was
given (`TodoIsRest`), that the ring holds what is copied and not sent
(`RingHolds`), and that nothing is written after `end()` (`EndAfterWrites`).
The crux is `WriteCopyKeeps`: the slots a chunk is copied to are those of no
byte that waits. `RxInv` says that base and count give the number of arrived
bytes modulo the range, and that an estimate under way is behind by what has
arrived since and ahead by at most the byte being written; `AdvanceExact` is
what the correction by the write address computes. It needs a ring of more than
two bytes and a renewal that takes less than half a ring (`Timely`; the code
masks interrupts for it).

`RingsOfThePath`: the composed path keeps both. Its steps are steps of `TxSpec` or
none, and of `RxSpec` or none.

### The sender thread

`WakeupSafety` (`LoopSpec => []NoLostWakeup`), for any set of producers and any
amount of work. `NoLostWakeup` is not inductive. The
invariant `IInv` adds who holds the mutex (`MutexHeld`: the sleeper has tested
the flag under it), that queued work is either flagged or its producer is on the
way to the flag (`WorkIsFlagged`, `EndIsFlagged`), and that a flag set while the
sender thread sleeps has a thread behind it that will notify
(`FlagIsNotified`). One lemma covers the application's threads, one `end()`, one
the sender thread.

### A link is a stream of bytes

`LinkImplementsByteStream`
(`Spec => ImplementsByteStream`) and `AcknowledgedIsReceived`,
`WireNumbersSuffice`, `CreditIsRespected`, `LinkChecksHold` and
`OpenBufferStaysInRing` (`Spec => []` of the invariants that `link_window`
checks), for every size of the packets and of the two rings, each at most a
quarter of the wire's range (`WireAssumption`: `kMaxLinkBufferSizeLog2` is 10 and
the numbers have 12 bits), every start number and streams of any length. Nothing
is assumed of one ring against the other: they belong to different devices,
which choose their buffers independently. The theorems
assume `InOrder`, a transport that may lose any packet but keeps the order of
those it delivers, as a serial line does; without it `AckedWasReceived` does not
hold (Known deviations).

All of them rest on the inductive invariant `LinkInv` (`LinkInvariant`). It has
three layers:

- Each end by itself (`EndpointProofs`). `TxInv`: the log's packets follow one
  another without a gap in the bytes (`LogContiguous`), only the last may be open
  (`OpenIsLast`), the packet that ends the stream is the last and empty
  (`FinIsLast`), the ring fits its buffer (`TxWindow`) and nothing but that packet
  is past the high-water mark (`WithinHimark`). `RxInv`: the ring fits, and what
  is acknowledged has arrived without a gap (`RxWindow`). One lemma per operation
  shows that it keeps this whatever its arguments are. Each also says what the
  operation may do to the log (`LogGrows`: a finished packet never changes again)
  and to the ring (`RxGrows`: what has arrived has arrived for good), which is all
  that the next layer needs to know about it.
- What is under way. A data packet is a packet of the log and carries its
  number (`DataTyped`); neither the receiver's ring nor any packet before it is
  ahead of it by more than a send ring (`DataOrdered`). That is where the order
  of the transport is used: what was sent before a packet is less than a send
  ring ahead of it, and nothing sent later arrives before it. Acknowledgements and high-water marks are statements about the
  receiver that were true when they were made and stay true (`Truthful`), and
  acknowledgements do not get smaller (`CtlOrdered`), so that a bitmap is never
  applied to a window that has moved past the one it was made for. With `Windows`, `DataInReach`
  and `CtlInReach` conclude that every number under way is within half the wire's
  range of the ring it is read against, and `RestoreExact` that it is read as
  what it was. One case is left over: if both rings are a quarter of the range, a
  high-water mark may be exactly half of it ahead. It is then read as one of the
  past, and ignored (`WireNumbersExact` says so); a later one takes its place.
- The two ends together. The receiver's ring holds the packets of the log
  (`RingIsLog`), the windows are in step (`Windows`: nothing is acknowledged that
  is not finished, the mark is not past the receiver's room), and what the reader
  was given is a prefix of what was written, up to the place where it reads
  (`Delivery`).

`TxFrame` and `RxFrame` say that a step of one end keeps the other's half;
the lemmas about the actions treat the writer, the sender and the control
packets first, then the reader and the arrival of data. For the refinement each
action is shown to be a write, a close or a read of `ByteStream`, or to leave
what it shows alone (`StreamWrite`, `StreamClose`, `StreamRead`, `StreamStutter`);
a read that reports the end needs `Delivery`.

### Connecting

The proofs are for every set of ids and start numbers, hence any number of links
and restarts, and for any number of packets under way. They have three layers.

- `HandshakeSteps` assumes nothing of the transport or the applications.
  `HandshakeInv` has the types, which ids a channel and a packet may carry
  (`LinkOk`, `PacketOk`), that a receiver starts where its peer's transmitter
  does (`SeqOk`), and which callbacks have been called (`CallsCounted`). From it
  follows `CallbackCalledOnceEver` (`Spec => []CallbackOnce`). The module ends
  with a description of the steps by what they come to (`Opens`, `Closes`,
  `Sends`, `Loses`, `TakesConn`, `TakesData`, `Reads`): the branches of
  `handleHandshakePacket` are taken apart there, once for all.
- `SettledInv` (`EndOk`, `MsgOk`, `Deaf`) says that a connected channel's ids are
  real, and that one which has given its link up with packets still to be read
  hears no more of the peer that sent them. This is what the CHECKs need. It is
  not inductive by itself: it needs `BreaksWell` of the packet that breaks a
  link, and order or patience provide that. `LinkedPairsAgree`
  (`Spec => []PairAgrees`) and `HandshakeChecksHold` (`Spec => []ChecksHold`)
  therefore assume `InOrder \/ Quiet`.
- With `InOrder`, `OrderInv` says that the packets to an end are in the order of
  the peer's links (`Contiguous`), and that once a link was acknowledged or has
  sent data, nothing of an earlier one can come before it (`First`).
  `DataOnlyFromPeer` (`Spec => []DataFromPeer`) follows with `KeptInv` and
  `~Abandon`: data packets carry a control bit and no id, so it takes the order
  to know whose they are. With `Quiet`, over a transport that reorders,
  `MutualInv` says that the handshake packets to an end are all of one link, that
  what they acknowledge has been recorded (`FromOk`), and that links agree on
  whom they have met (`LinksOk`). `ConnectedIsAlwaysMutual`
  (`Spec => []ConnectedIsMutual`) follows.

The conditions are the ones that the run of each property sets; where one cannot
be dropped, the table of known deviations says what happens without it.

### Calls that block

`ClosersAreWoken` (`Spec => []ClosersWait`) and `ReadersAreWoken`
(`Spec => []ReadersWait`), for any number of threads, links and packets and any
sizes of the rings. Between the two halves of a change of the link, too, no
thread sleeps that should not. In `CallsInv`, the transmitter's side adds that an
end of stream which is not yet acknowledged is in the ring (`TxFilled`); the
receiver's side adds that a receiver that is not connected has an empty ring
(`RxEmpty`) and that `unack_seq_` is the first position that has not arrived
(`UnackExact`): `handleDataPacket` notifies only when a packet arrives there.
`UnackExact` is confined to links that are read from, since a reader that closes
its input with packets missing leaves `unack_seq_` where it was.

### Messages

`MessagesStayWhole` (`Spec => []MessagesWhole`) and
`PartsGoWhereReported` (`Spec => []OnReportedLink`), for any set of senders, any number of parts and any bounds.
`MessagesWhole` is not inductive: it does not say who may write next. The
invariant adds that at most one sender is in `sendInternal()`, with the mutex and
on the link that it reported (`OneBusy`), and that while the link is alive the
last part on it is either the end of a message or followed by what its sender
writes next (`LastContinues`). A message that a broken link cuts short needs no
continuation, since nothing is written on that link again.

### Remote calls

`CallbacksGetOwnResponse` (`Spec => []OwnResponse`), `AnswersAreUnique`
(`Spec => []AnsweredOnce`), and the action properties `CallbackCalledOnce`
(`Spec => CallbackAllowed`) and `RequestsTakenToAnswer`
(`Spec => TakenToAnswer`), for any number of calls, connections, restarts and any
timeouts. `RpcInv` follows a call along its way:

- The calls of a client have the stream ids from 1 on, and those of a client that
  has been restarted are gone (`CallsNumbered`); the registry has calls of this
  client under their ids (`RegistryExact`); a callback that is there has not been
  called or given up (`CallbackWaits`). This gives `CallbackAllowed`.
- Wherever a request or response is (`Known`: under way, pending, being handled,
  in a handle, being answered), it has the id of its call and the number of a
  connection. If its call is of an earlier client, the connection is an earlier
  one (`KeysExact`). So connection and id determine the call (`KeysUnique`): an id
  that is used again is used on another connection. This gives `OwnResponse` and
  `TakenToAnswer`.
- From its request to its answer a call is in one place (`OnePlace`), which gives
  `AnsweredOnce`.

If a client used up its ids, `nextId` would start over and could meet an id that
is still registered; `CallsNumbered` needs that it does not.

### Only model-checked

- All liveness: fairness and `ENABLED` are outside the prover.
- `DataLink` over a transport that reorders, where `AckedWasReceived` fails.
- What recursive definitions compute, which needs induction over data:
  `SerializersInverse`, `ChunksDoNotMatter`, `BackoffBounded` (the repeated growth
  of the delay; its steps are proved), and with them `ArrivesAsSent` and the
  refinement of `PacketLine`.
- `ResetBetween`, because `MessageStack` is built on the recursive serializers.

## Known deviations

`stale_read` is a run that ends in a violation, and `PROJECT.json` quotes the
document: `Receiver::init` (`receiver.cpp:163`) empties the ring but keeps
`current_in_buffer_`, and `tryRead` starts from it. A reader that is in the
middle of a packet when its channel connects anew gets the rest of that packet as
the first bytes of the new link. `LinkMessaging::receiveLoop` is such a reader:
after a message that is too large it connects again without disconnecting
(`link_messaging.cpp:122-127`), and takes the rest of that packet for the size of
the first message of the new link. (When the rest is read, `tryRead` also drops
the first packet of the new ring unread, or fails its CHECK if there is none.)
`handshake_restart` has `Abandon = FALSE` and shows that data does not cross
otherwise; `ArrivesAsSent` says nothing of the messages of such a connection.

The following came up while modelling. They are the reason for the constants
that the passing runs set and for the exceptions their properties make, and each
can be seen by changing the setting or checking the property:

| Setting | Property that fails | Why |
|---|---|---|
| `DataLink`, `InOrder = FALSE` | `AckedWasReceived` | `transmitter.cpp:258` reads the bitmap relative to its own window, not to the acknowledged position; an old acknowledgement marks packets that were not received |
| `DataLink`, `InputClose = TRUE`, `SendCap = RecvCap = 2`, `FairSpec` | `CloseCompletes` | `receiver.cpp:101` drops a ring with a gap but leaves `unack_seq_` before the gap |
| `Handshake`, `Quiet = FALSE` | `ConnectedIsMutual`, `AwaitReturns` | `channel.cpp:402-424` adopts a stale CONN's id, and later only a CONN without acknowledgement corrects it |
| `Handshake`, `InOrder = FALSE` | `ChecksHold` | a receiver that is being drained has `my_stream_id_` 0, which a late CONN "acknowledges" (`channel.cpp:457-458`) |
| `DataLink`, `EarlyClose = TRUE`, `FairSpec` | `CloseCompletes` | `transmitter.cpp:70` stamps the end-of-stream packet of a stream closed before the handshake with a control bit that is not known yet; the peer discards it as cross-talk, although `transmitter.h:131-133` says that a stream may be closed that early. `close()` then sleeps until the link is broken or replaced; `BlockedCallsReturn` excepts it (`eosStale` in `Due`) |
| `ChannelCalls`, `FairSpec` | `ReadReturns` | the peer restarts while a packet is missing from the ring: `setBroken` (`receiver.cpp:40-45`) leaves a receiver whose ring is not empty connected, so that the rest can be read, but nothing can be read before the gap is closed. The reader sleeps on, against `channel.h:81-84`, and the handshakes of the restarted peer are ignored because `done()` never holds |
| `ChannelCalls`, `FairSpec` | `ResetWriteReturns` | `reset()` and `init()` (`thread_safe_transmitter.cpp:103-113`) notify `all_acked_` but not `has_space_`, and neither does the acknowledgement that ends a closed stream; a writer blocked for space sleeps on |
| `LinkMessaging` | `NeverStranded` | the same one layer up: a sender is blocked in a write, with `mutex_`, when `handleHandshakePacket` resets the link (`channel.cpp:433-441`, `451`: the transmitter is connecting still, or the peer's stream has been read to its end). Nobody wakes it, and `connect()` (`link_messaging.cpp:86-87`) waits for the mutex. `SendReturns` excepts this (`Stranded`) |
| `LinkMessaging`, `PeerReads = FALSE` | `EndWakesSenders` | a blocked sender holds the mutex `end()` needs, although `doc/programming_guide.md:753` says that `end()` wakes it |
| `LinkMessaging`, `Sender = {}` | `EndReturns` | the receive thread connects again when `end()` comes between its test of `closed_` and its `connect()` |
| `Rpc`, `FairSpec` | `CallCompletes` when `SendRequest` leaves `lost` alone | after a message that is too large, `link_messaging.cpp:126` resets the receiver before it reconnects, while the old link still accepts sends; a call sent in between is neither answered nor reset (`rpc/client.h:25-27`). The other members of `lost` are the calls a server that was ended drops (`ServerReceives`, `ServerControl`): they alone also refute it, since an ended server does not answer |
| not modelled | | a callback called because of a reset runs in the receive thread before `connect()`; if it sends, it waits for the connection that this thread would make (`rpc/client.cpp:78-79` allows it to "submit calls") |
| not modelled | | `IntoSerializer` (`rpc/serialization.h:165-173`) and the unary handlers (`rpc/server.h:50-52`, `87-89`) do not look at the status of a serializer that failed, and go on with what it has written |
| not modelled | | the inner loop of the RP2040 adapter's thread (`link/arduino/rp2040/reliable_serial.h:54-60`) does not test `running_`; while bytes keep coming `end()` waits for it |
| not modelled | | `timedRead` of the Arduino stream (`link/arduino/link_stream.cpp:55-77`) does not advance its buffer between two partial reads |

## Not modelled

- The wrappers `Link`, `LinkInputStream`, `LinkOutputStream` and
  `LinkTransport`: they keep a stream id and a status and pass calls on to the
  channel. What they contribute to the calls that block (a closed stream is not
  read from) is in `ChannelCalls`.
- The adapters for Arduino and ESP-IDF, and the set-up of DMA channels, pins and
  interrupts of the Pico: there is no state of the library's own in them that a
  check of it would say something about without a model of the device.
- COBS, the hash and the hash maps, which are other libraries'.
- Timers: retransmission, flow control and handshake deadlines may expire at any
  time in every model but `RetryBackoff`. `Channel::close` notifies the sender
  thread only after it has waited (`channel.cpp:133`), so the flow-control timer
  is what sends the last packet; how long that takes is not modelled.
- Serializers of user types, the names of status codes, statistics, logging, and
  the benchmarks.
- What the application does in callbacks, and the unlocked use of `receiver_` in
  `messaging/messaging.cpp:7`, which `Rpc` takes as a call that is made or not.

What would come next: an abstract specification of RPCs that `Rpc` implements
(`RpcInv` has what its proof would need), and a link that tolerates a transport
which reorders.

The definitions of these modules stand for about a third of the code lines of
the repository outside its tests.
