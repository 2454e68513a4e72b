---------------------------- MODULE BlockedThreads -----------------------------
(***************************************************************************)
(* Threads that block on a condition variable of a monitor, as the calls   *)
(* of ThreadSafeTransmitter and ThreadSafeReceiver do.  A thread that      *)
(* waits sleeps until it is notified; then it goes round the loop of its   *)
(* call once more.                                                         *)
(***************************************************************************)
CONSTANT Thread

VARIABLES pc,     \* where each thread is: the condition variable it waits on, or "out"
          mine,   \* the stream id its call is about, 0 outside
          woken   \* the waiting threads that have been notified

threadVars == <<pc, mine, woken>>

ThreadsInit ==
  /\ pc = [t \in Thread |-> "out"] /\ mine = [t \in Thread |-> 0] /\ woken = {}

InCall == {t \in Thread : pc[t] # "out"}

Asleep(t, condition) == pc[t] = condition /\ t \notin woken

NotifyAll(conditions) ==
  /\ woken' = woken \cup {t \in Thread : pc[t] \in conditions}
  /\ UNCHANGED <<pc, mine>>

Return(t) ==
  /\ pc' = [pc EXCEPT ![t] = "out"]
  /\ mine' = [mine EXCEPT ![t] = 0]
  /\ woken' = woken \ {t}

Wait(t, i, condition) ==
  /\ pc' = [pc EXCEPT ![t] = condition]
  /\ mine' = [mine EXCEPT ![t] = i]
  /\ woken' = woken \ {t}
=============================================================================
