---------------------------- MODULE RetryBackoff ----------------------------
(***************************************************************************)
(* The time before a packet is sent again: RetryBackoffMicros()            *)
(* (link/internal/retry_backoff.h), in whole microseconds.                 *)
(***************************************************************************)
EXTENDS Integers

CONSTANTS Delays,     \* <<initial, max>> of its callers
          RandomMax,  \* kRandomMax
          MaxRetries  \* what send_counter_ stops at: 255

ASSUME DelaysAssumption ==
  \A d \in Delays : /\ d[1] \in Nat /\ d[2] \in Nat
                    /\ 1000 <= d[1] /\ d[1] <= d[2] /\ d[2] <= 1000000

ASSUME RandomAssumption == RandomMax \in Nat /\ MaxRetries \in Nat

(* Faulty: the delay is capped before it grows.                             *)
GrowBug(delay, max) == IF delay < max THEN (delay * 133 + 50) \div 100 ELSE delay

(* One round of the loop.                                                   *)
Grow(delay, max) ==
  LET longer == (delay * 133 + 50) \div 100
  IN  IF delay < max THEN (IF longer > max THEN max ELSE longer) ELSE delay

(* The delay before jitter.                                                 *)
Delay(initial, max, retries) ==
  LET after[n \in 0 .. retries] == IF n = 0 THEN initial ELSE Grow(after[n - 1], max)
  IN  after[retries]

(* The random number as one of 8192 bins.                                   *)
Bin(draw) == (draw * 8192) \div (RandomMax + 1)

Jittered(delay, bin) ==
  LET radius == delay \div 5 IN delay - radius + (bin * (2 * radius)) \div 8192

RetryBackoffMicros(initial, max, retries, draw) ==
  Jittered(Delay(initial, max, retries), Bin(draw))
-----------------------------------------------------------------------------
VARIABLES caller,   \* <<initial, max>> of a packet
          retries,  \* how often it was sent: OutBuffer::send_counter_
          wait      \* the time until it is sent again

backoffVars == <<caller, retries, wait>>

BackoffInit == caller \in Delays /\ retries = 0 /\ wait = 0

(* OutBuffer::markSent().  (A channel that sends CONN again counts without  *)
(* a limit; the delay is the same.)                                         *)
MarkSent ==
  /\ retries' = IF retries < MaxRetries THEN retries + 1 ELSE retries
  /\ \E draw \in 0 .. RandomMax :
       wait' = RetryBackoffMicros(caller[1], caller[2], retries', draw)
  /\ UNCHANGED caller

(* What a delay is spread to.                                               *)
Spread(delay) == delay - delay \div 5 .. delay + delay \div 5 - 1

(* A packet is sent again at a time that is at most 20% off its delay; the  *)
(* delay grows from one retry to the next up to its cap and never passes    *)
(* it, and is there after at most 25 retries.  (So a packet that is lost    *)
(* over and over is sent again and again.)                                  *)
BackoffBounded ==
  LET delay == Delay(caller[1], caller[2], retries)
      before == Delay(caller[1], caller[2], retries - 1)
  IN  retries > 0 =>
        /\ wait \in Spread(delay)
        /\ delay <= caller[2]
        /\ before < delay \/ before = caller[2]
        /\ retries >= 25 => delay = caller[2]
=============================================================================
