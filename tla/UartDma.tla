------------------------------- MODULE UartDma -------------------------------
(***************************************************************************)
(* pico::ReliableUartDma (link/pico/reliable_uart_dma.cpp), its two rings. *)
(*                                                                         *)
(* To transmit, write() copies bytes into a ring, outside of the spinlock, *)
(* and publishes them; a DMA channel sends one contiguous segment of the   *)
(* ring at a time; its interrupt frees that segment and starts the next.   *)
(* end() waits for write() to return, flushes the ring and stops the       *)
(* channel.                                                                *)
(*                                                                         *)
(* To receive, a DMA channel writes what arrives into a ring for ever; the *)
(* receive thread works out from the channel's transfer count how much     *)
(* that is, and copies it out while the channel writes on.  The transfer   *)
(* count is finite: produced() renews it in time, stopping the channel for *)
(* a moment.  The statistics (overruns, receive_errors) are left out.      *)
(***************************************************************************)
EXTENDS Integers, Sequences

CONSTANTS Byte,
          Ring,     \* kRingSize, a power of two
          W,        \* the positions in the stream wrap around at W, 2^32
          Count,    \* kRxTransferCount
          MaxRead,  \* the bytes that one read asks for, 256
          MaxRace   \* bound: bytes that arrive while the thread copies

ASSUME UartDmaAssumption ==
  /\ Ring \in Nat /\ Ring > 2 /\ W \in Nat /\ W > Ring /\ W % Ring = 0
  /\ Count \in Nat /\ Count >= Ring /\ Count < W
  /\ MaxRead \in Nat \ {0} /\ MaxRace \in Nat

VARIABLES txBuf,       \* tx_buffer
          txHead,      \* tx_head
          txTail,      \* tx_tail
          txInflight,  \* tx_inflight
          dmaLeft,     \* transfer count of the DMA channel
          todo,        \* the bytes that write() has yet to copy or publish
          chunk,       \* the bytes it has copied and not published
          sender,      \* "running", "flushing" (in end()) or "closed"
          written,     \* history: the bytes given to write()
          wired        \* history: the number of bytes that have left

txVars == <<txBuf, txHead, txTail, txInflight, dmaLeft, todo, chunk, sender, written, wired>>

(* The ring holds some bytes at first, b in this model.                     *)
TxInit(b) ==
  /\ txBuf = [i \in 0 .. Ring - 1 |-> b]
  /\ txHead = 0 /\ txTail = 0 /\ txInflight = 0 /\ dmaLeft = 0
  /\ todo = <<>> /\ chunk = 0
  /\ sender = "running" /\ written = <<>> /\ wired = 0

Least(a, b) == IF a <= b THEN a ELSE b

Used == (txHead - txTail) % W

(* write() is called with some bytes.                                       *)
Write(bytes) ==
  /\ sender = "running" /\ todo = <<>>
  /\ todo' = bytes
  /\ written' = written \o bytes
  /\ UNCHANGED <<txBuf, txHead, txTail, txInflight, dmaLeft, chunk, sender, wired>>

(* Faulty: the ring is taken to be empty.                                   *)
ChunkSizeBug == Least(Len(todo), Ring - (txHead % Ring))

(* How much of it fits between tx_head and the end of the ring.             *)
ChunkSize == Least(Len(todo), Least(Ring - Used, Ring - (txHead % Ring)))

(* ... the loop reads the room there is, and copies while the channel sends *)
(* and its interrupt may free more ...                                      *)
WriteCopy ==
  /\ todo # <<>> /\ chunk = 0
  /\ ChunkSize > 0
  /\ chunk' = ChunkSize
  /\ txBuf' = [i \in 0 .. Ring - 1 |->
                 LET k == (i - txHead) % Ring
                 IN  IF k < ChunkSize THEN todo[k + 1] ELSE txBuf[i]]
  /\ UNCHANGED <<txHead, txTail, txInflight, dmaLeft, todo, sender, written, wired>>

(* startTx(), given tx_head and tx_tail: the bytes up to tx_head or the end *)
(* of the ring.                                                             *)
Segment(head, tail) == Least((head - tail) % W, Ring - (tail % Ring))

(* ... and publishes what it has copied.                                    *)
WritePublish ==
  LET head == (txHead + chunk) % W IN
  /\ chunk # 0
  /\ txHead' = head
  /\ todo' = SubSeq(todo, chunk + 1, Len(todo))
  /\ chunk' = 0
  /\ IF txInflight = 0
     THEN txInflight' = Segment(head, txTail) /\ dmaLeft' = Segment(head, txTail)
     ELSE UNCHANGED <<txInflight, dmaLeft>>
  /\ UNCHANGED <<txBuf, txTail, sender, written, wired>>

(* The byte that the channel sends next ...                                 *)
NextByte == txBuf[(txTail + txInflight - dmaLeft) % Ring]

(* ... and its doing so.                                                    *)
DmaSend ==
  /\ dmaLeft > 0
  /\ dmaLeft' = dmaLeft - 1
  /\ wired' = wired + 1
  /\ UNCHANGED <<txBuf, txHead, txTail, txInflight, todo, chunk, sender, written>>

(* TxIrq(): the segment is sent; its room is free and the next one starts.  *)
TxIrq ==
  LET tail == (txTail + txInflight) % W IN
  /\ txInflight # 0 /\ dmaLeft = 0
  /\ txTail' = tail
  /\ txInflight' = Segment(txHead, tail) /\ dmaLeft' = Segment(txHead, tail)
  /\ UNCHANGED <<txBuf, txHead, todo, chunk, sender, written, wired>>

(* flush() returns.                                                         *)
Flushed == txHead = txTail

(* end(): link.end() waits for the sender thread, which may be in write()   *)
(* ...                                                                      *)
EndSender ==
  /\ sender = "running" /\ todo = <<>>
  /\ sender' = "flushing"
  /\ UNCHANGED <<txBuf, txHead, txTail, txInflight, dmaLeft, todo, chunk, written, wired>>

(* ... then it flushes and stops the channel.                               *)
CloseSender ==
  /\ sender = "flushing" /\ Flushed
  /\ sender' = "closed"
  /\ UNCHANGED <<txBuf, txHead, txTail, txInflight, dmaLeft, todo, chunk, written, wired>>

TxNext ==
  \/ \E s \in Seq(Byte) : Write(s)
  \/ WriteCopy \/ WritePublish \/ DmaSend \/ TxIrq
  \/ EndSender \/ CloseSender

TxSpec == (\E b \in Byte : TxInit(b)) /\ [][TxNext]_txVars

(* What leaves is what was written, byte by byte: write() never copies over *)
(* a byte that the channel has yet to send, startTx() neither skips nor     *)
(* repeats one across the end of the ring or of the counters, and end() has *)
(* stopped the channel only after all of it ("Stops workers, drains TX and  *)
(* releases DMA", reliable_uart_dma.h).  And no byte waits in the ring      *)
(* without the channel having been started for it, whichever of write() and *)
(* the interrupt comes first: flush(), which waits for the ring to empty,   *)
(* and write(), which waits for room, have a transfer to wait for.          *)
SendsWhatWasWritten ==
  /\ dmaLeft > 0 => NextByte = written[wired + 1]
  /\ sender = "closed" => wired = Len(written)
  /\ txInflight = 0 => Flushed
-----------------------------------------------------------------------------
VARIABLES rxBuf,       \* rx_buffer
          arrived,     \* history: bytes that the channel has written
          remaining,   \* its transfer count
          rxBase,      \* rx_base
          rxConsumed,  \* rx_consumed
          rd,          \* where the thread is: "idle", "renew" or "copy"
          estimate,    \* of produced(), while it renews the count
          count,       \* of readAvailable(), while it copies
          bytes,       \* the bytes copied so far
          since        \* bytes that have arrived since "idle"

rxVars == <<rxBuf, arrived, remaining, rxBase, rxConsumed, rd, estimate,
            count, bytes, since>>

RxInit(b) ==
  /\ rxBuf = [i \in 0 .. Ring - 1 |-> b]
  /\ arrived = 0 /\ remaining = Count
  /\ rxBase = 0 /\ rxConsumed = 0
  /\ rd = "idle" /\ estimate = 0 /\ count = 0 /\ bytes = <<>> /\ since = 0

(* The channel's write address, as an offset in the ring.                   *)
WriteAddr == arrived % Ring

(* What produced() returns when it does not renew the count.                *)
Produced == (rxBase + Count - remaining) % W

(* The thread is never as much as W bytes behind; interrupts are masked     *)
(* while the count is renewed, which takes less than half a ring.           *)
Timely ==
  /\ (Produced - rxConsumed) % W < W - 1
  /\ rd = "renew" => 2 * (since + 1) < Ring
  /\ rd = "copy" => since < MaxRace

(* The channel writes a byte that arrives, unless its count is used up.     *)
DmaReceive(b) ==
  /\ remaining > 0 /\ Timely
  /\ rxBuf' = [rxBuf EXCEPT ![WriteAddr] = b]
  /\ arrived' = arrived + 1
  /\ remaining' = remaining - 1
  /\ since' = IF rd = "idle" THEN 0 ELSE since + 1
  /\ UNCHANGED <<rxBase, rxConsumed, rd, estimate, count, bytes>>

(* produced() finds the count low: it reads it again, when it may be ahead  *)
(* of the write address by a byte that is being written ...                 *)
Renew ==
  /\ rd = "idle" /\ remaining < Ring
  /\ \E lag \in 0 .. 1 : estimate' = (Produced + lag) % W
  /\ rd' = "renew"
  /\ UNCHANGED <<rxBuf, arrived, remaining, rxBase, rxConsumed, count, bytes, since>>

(* Faulty: a write address that lags the estimate is taken for one that is  *)
(* almost a ring ahead.                                                     *)
AdvanceBug(offset) == (offset - estimate) % Ring

(* The distance from the estimate to the write address, either way.         *)
Advance(offset) ==
  LET a == (offset - estimate) % Ring IN IF 2 * a > Ring THEN a - Ring ELSE a

(* ... stops the channel, corrects its estimate by the write address, and   *)
(* starts the channel with a full count.                                    *)
Restart ==
  /\ rd = "renew"
  /\ rxBase' = (estimate + Advance(WriteAddr)) % W
  /\ remaining' = Count
  /\ rd' = "idle" /\ estimate' = 0 /\ since' = 0
  /\ UNCHANGED <<rxBuf, arrived, rxConsumed, count, bytes>>

(* Faulty: the ring has overrun and nothing is skipped.                     *)
SkippedBug(pending) == 0

(* Bytes that are overwritten already.                                      *)
Skipped(pending) == IF pending > Ring THEN pending - Ring ELSE 0

(* readAvailable(): how much there is ...                                   *)
Sample ==
  LET pending == (Produced - rxConsumed) % W
      left == pending - Skipped(pending)
  IN
  /\ rd = "idle" /\ remaining >= Ring /\ pending # 0
  /\ rxConsumed' = (rxConsumed + Skipped(pending)) % W
  /\ count' = IF left < MaxRead THEN left ELSE MaxRead
  /\ rd' = "copy"
  /\ UNCHANGED <<rxBuf, arrived, remaining, rxBase, estimate, bytes, since>>

(* ... memcpy, byte by byte, around the end of the ring ...                 *)
Copy ==
  /\ rd = "copy" /\ Len(bytes) < count
  /\ bytes' = Append(bytes, rxBuf[(rxConsumed + Len(bytes)) % Ring])
  /\ UNCHANGED <<rxBuf, arrived, remaining, rxBase, rxConsumed, rd, estimate, count, since>>

(* ... and what is copied is handed on.                                     *)
Copied ==
  /\ rd = "copy" /\ Len(bytes) = count
  /\ rxConsumed' = (rxConsumed + count) % W
  /\ rd' = "idle" /\ count' = 0 /\ bytes' = <<>> /\ since' = 0
  /\ UNCHANGED <<rxBuf, arrived, remaining, rxBase, estimate>>

RxNext ==
  \/ \E b \in Byte : DmaReceive(b)
  \/ Renew \/ Restart \/ Sample \/ Copy \/ Copied

RxSpec == (\E b \in Byte : RxInit(b)) /\ [][RxNext]_rxVars

(* produced() is the number of bytes that have arrived, modulo 2^32,        *)
(* however often the transfer count was renewed: bytes that arrive between  *)
(* reading the count and stopping the channel are counted, and a byte that  *)
(* was counted and not yet written is counted once.                         *)
ProducedExact == rd # "renew" => Produced = arrived % W
=============================================================================
