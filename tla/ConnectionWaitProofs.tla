------------------------ MODULE ConnectionWaitProofs ------------------------
(* Theorems about ConnectionWait, for any number of threads. *)
EXTENDS ConnectionWait, TLAPS

\* Nobody waits yet.
LEMMA InitInv == Init => IndInv
BY WaitAssumption
DEF Init, IndInv, TypeOK, MutexOK, CheckIsCurrent, WakeupKept, Asleep, Pred, State

\* An application thread looks at m_state, and falls asleep, under the mutex.
LEMMA WaiterStep ==
  ASSUME IndInv, NEW w \in Waiter, Call(w) \/ Waiting(w) \/ Wake(w)
  PROVE  IndInv'
<1> USE WaitAssumption
    DEF IndInv, TypeOK, MutexOK, CheckIsCurrent, WakeupKept, Asleep, Pred, Goto, ioVars
<1>1. CASE Call(w)
  BY <1>1 DEF Call, Announced, State
<1>2. CASE Lock(w)
  BY <1>2 DEF Lock
<1>3. CASE Check(w)
  BY <1>3 DEF Check
<1>4. CASE Sleep(w)
  BY <1>4 DEF Sleep
<1>5. CASE Wake(w)
  BY <1>5 DEF Wake
<1> QED
  BY <1>1, <1>2, <1>3, <1>4, <1>5 DEF Waiting

\* The handlers change m_state while no thread is between its look at it and
\* its sleep, and then wake one that sleeps.
LEMMA HandlerStep ==
  ASSUME IndInv, Begin \/ Handler
  PROVE  IndInv'
<1> USE WaitAssumption
    DEF IndInv, TypeOK, MutexOK, CheckIsCurrent, WakeupKept, Asleep, Pred, waitVars
<1>1. CASE Begin
  BY <1>1 DEF Begin, Announced, State
<1>2. CASE Announce
  BY <1>2 DEF Announce, MutexFree
<1>3. CASE Notify
  BY <1>3 DEF Notify, CanWake
<1>4. CASE Unlock
  BY <1>4 DEF Unlock
<1> QED
  BY <1>1, <1>2, <1>3, <1>4 DEF Handler

\* IndInv holds in every state.
THEOREM Invariance == Spec => []IndInv
<1>1. IndInv /\ UNCHANGED vars => IndInv'
  BY DEF vars, waitVars, ioVars, IndInv, TypeOK, MutexOK, CheckIsCurrent, WakeupKept,
         Asleep, Pred
<1>2. IndInv /\ Next => IndInv'
  BY WaiterStep, HandlerStep DEF Next
<1> QED
  BY InitInv, <1>1, <1>2, PTL DEF Spec

\* However the threads, the handlers and spurious wakeups interleave, a thread
\* that sleeps while its predicate holds has been passed over for another one.
THEOREM NoLostWakeup == Spec => []WakeupKept
<1>1. IndInv => WakeupKept
  BY DEF IndInv
<1> QED
  BY Invariance, <1>1, PTL

=============================================================================
