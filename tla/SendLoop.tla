------------------------------ MODULE SendLoop -------------------------------
(***************************************************************************)
(* The sender thread of a Channel (channel.cpp, sendLoop) and how other    *)
(* threads wake it up (outgoing_data_ready_notification.h).  A thread that *)
(* has queued something to send calls notify(), which sets the flag before *)
(* it takes the mutex and returns at once if the flag was set already;     *)
(* await() clears the flag under the mutex.                                *)
(*                                                                         *)
(* Steps are the atomic operations of the code: the exchange of the flag,  *)
(* taking the mutex, testing the predicate, going to sleep (which releases *)
(* the mutex).                                                             *)
(***************************************************************************)
EXTENDS Naturals, FiniteSets

CONSTANTS Producer,  \* the threads that queue things to send
          Ender,     \* the thread that calls end()
          MaxWork    \* bound: things queued at a time

ASSUME SendLoopAssumption == MaxWork \in Nat /\ Ender \notin Producer

Thread == Producer \cup {Ender}

VARIABLES work,      \* what there is to send, in the transmitter and receiver
          active,    \* active_
          flag,      \* has_data_to_send_
          mutex,     \* whether mutex_ is held
          signalled, \* cv_ has been notified since the sender went to sleep
          pc,        \* where each producer is
          spc        \* where the sender thread is

loopVars == <<work, active, flag, mutex, signalled, pc, spc>>

LoopInit ==
  /\ work = 0 /\ active = TRUE
  /\ flag = FALSE /\ mutex = FALSE /\ signalled = FALSE
  /\ pc = [t \in Thread |-> "out"]
  /\ spc = "loop"
-----------------------------------------------------------------------------
(* A call on the transmitter or the receiver leaves something to send, and  *)
(* notify() follows.  Not so close(), which first waits until its packet is *)
(* acknowledged: that packet is found by the timeout or with other work.    *)
Queue(t) ==
  /\ t \in Producer
  /\ pc[t] = "out" /\ work < MaxWork
  /\ work' = work + 1
  /\ pc' = [pc EXCEPT ![t] = "exchange"]
  /\ UNCHANGED <<active, flag, mutex, signalled, spc>>

(* Faulty: without notify().                                                *)
DeactivateBug ==
  /\ active
  /\ active' = FALSE
  /\ UNCHANGED <<work, flag, mutex, signalled, pc, spc>>

(* end()                                                                    *)
Deactivate ==
  /\ active
  /\ active' = FALSE
  /\ pc' = [pc EXCEPT ![Ender] = "exchange"]
  /\ UNCHANGED <<work, flag, mutex, signalled, spc>>

(* notify(): exchange(true), and return if it was set ...                   *)
Exchange(t) ==
  /\ pc[t] = "exchange"
  /\ flag' = TRUE
  /\ pc' = [pc EXCEPT ![t] = IF flag THEN "out" ELSE "lock"]
  /\ UNCHANGED <<work, active, mutex, signalled, spc>>

(* Faulty: without the mutex.                                               *)
NotifyOneBug(t) ==
  /\ pc[t] = "lock"
  /\ signalled' = (signalled \/ spc = "asleep")
  /\ pc' = [pc EXCEPT ![t] = "out"]
  /\ UNCHANGED <<work, active, flag, mutex, spc>>

(* ... otherwise take the mutex and notify.                                 *)
NotifyOne(t) ==
  /\ pc[t] = "lock" /\ ~mutex
  /\ signalled' = (signalled \/ spc = "asleep")
  /\ pc' = [pc EXCEPT ![t] = "out"]
  /\ UNCHANGED <<work, active, flag, mutex, spc>>
-----------------------------------------------------------------------------
(* sendLoop(): while (active_) ...                                          *)
LoopTest ==
  /\ spc = "loop"
  /\ spc' = IF active THEN "send" ELSE "done"
  /\ UNCHANGED <<work, active, flag, mutex, signalled, pc>>

(* ... trySend(): something is sent, and the loop goes on at once, or there *)
(* is nothing to send and the thread waits.                                 *)
TrySend ==
  /\ spc = "send"
  /\ work' = IF work = 0 THEN 0 ELSE work - 1
  /\ spc' = IF work = 0 THEN "await" ELSE "loop"
  /\ UNCHANGED <<active, flag, mutex, signalled, pc>>

(* await(): take the mutex, test the predicate, and if it does not hold ...  *)
AwaitLock ==
  /\ spc = "await" /\ ~mutex
  /\ mutex' = TRUE
  /\ spc' = "test"
  /\ UNCHANGED <<work, active, flag, signalled, pc>>

(* Faulty: goes to sleep whether or not the flag is set.                    *)
AwaitTestBug ==
  /\ spc = "test"
  /\ spc' = "unready"
  /\ UNCHANGED <<work, active, flag, mutex, signalled, pc>>

AwaitTest ==
  /\ spc = "test"
  /\ spc' = IF flag THEN "clear" ELSE "unready"
  /\ UNCHANGED <<work, active, flag, mutex, signalled, pc>>

(* ... go to sleep, which releases the mutex; wait on cv_ ...               *)
AwaitSleep ==
  /\ spc = "unready"
  /\ spc' = "asleep"
  /\ mutex' = FALSE /\ signalled' = FALSE
  /\ UNCHANGED <<work, active, flag, pc>>

(* ... wake up with the mutex, because of a notification ...                *)
AwaitWake ==
  /\ spc = "asleep" /\ signalled /\ ~mutex
  /\ mutex' = TRUE
  /\ spc' = "test"
  /\ UNCHANGED <<work, active, flag, signalled, pc>>

(* ... or because the time is up ...                                        *)
AwaitTimeout ==
  /\ spc = "asleep" /\ ~mutex
  /\ mutex' = TRUE
  /\ spc' = "clear"
  /\ UNCHANGED <<work, active, flag, signalled, pc>>

(* ... and clear the flag.                                                  *)
AwaitClear ==
  /\ spc = "clear"
  /\ flag' = FALSE /\ mutex' = FALSE
  /\ spc' = "loop"
  /\ UNCHANGED <<work, active, signalled, pc>>

Sender ==
  \/ LoopTest \/ TrySend
  \/ AwaitLock \/ AwaitTest \/ AwaitSleep \/ AwaitWake \/ AwaitClear

LoopNext ==
  \/ \E t \in Thread : Queue(t) \/ Exchange(t) \/ NotifyOne(t)
  \/ Deactivate
  \/ Sender \/ AwaitTimeout

(* The threads are scheduled.  The timeout is left out: the wake-up must    *)
(* not depend on it.                                                        *)
Fairness ==
  /\ \A t \in Thread : WF_loopVars(Exchange(t)) /\ WF_loopVars(NotifyOne(t))
  /\ WF_loopVars(Sender)

LoopSpec == LoopInit /\ [][LoopNext]_loopVars
FairSpec == LoopSpec /\ Fairness
-----------------------------------------------------------------------------
TypeOK ==
  /\ work \in 0 .. MaxWork /\ active \in BOOLEAN
  /\ flag \in BOOLEAN /\ mutex \in BOOLEAN /\ signalled \in BOOLEAN
  /\ pc \in [Thread -> {"out", "exchange", "lock"}]
  /\ spc \in {"loop", "send", "await", "test", "unready", "asleep", "clear", "done"}

(* A notifier is on its way to wake the sender, or to set the flag.         *)
Coming == \E t \in Thread : pc[t] = "lock" \/ pc[t] = "exchange"

(* The sender never sleeps on work: when it is asleep with something to     *)
(* send, or after end(), it has been notified or a notifier is on its way.  *)
NoLostWakeup ==
  spc = "asleep" /\ (work > 0 \/ ~active) => signalled \/ Coming

(* Whatever is queued is sent, without the help of the timeout: as long as  *)
(* there is something to send, the thread comes back to trySend().          *)
WorkIsSent == work > 0 ~> (spc = "send" /\ work > 0) \/ ~active

(* end() returns: the sender thread it joins leaves its loop.               *)
EndJoins == ~active ~> spc = "done"
=============================================================================
