--------------------------- MODULE ConnectionWait ---------------------------
(***************************************************************************)
(* waitForConnection and waitForConnectionOrFail: application threads wait *)
(* on m_cv for the value of m_state that the open, close and fail handlers *)
(* announce (socket.cpp).                                                  *)
(*                                                                         *)
(* Actors.  Each application thread (Waiter) calls one of the two          *)
(* functions, once.  The I/O thread runs one handler at a time.  Which     *)
(* values the handlers announce, and in which order, is the socket's life  *)
(* cycle (PhoenixSocket); here they are any.                               *)
(***************************************************************************)
CONSTANTS
  Waiter,   \* the application threads
  Io,       \* the I/O thread
  None      \* nobody

ASSUME WaitAssumption == Io # None /\ Io \notin Waiter /\ None \notin Waiter

Announced == {"OPENED", "CLOSED", "FAILED"}
State == Announced \cup {"INITIAL"}

VARIABLES
  m_state,   \* socket::m_state
  owner,     \* the thread that holds m_cvMutex
  pc,        \* what each application thread does next
  accepts,   \* the states the predicate of its call accepts
  ioPc,      \* what the handler does next
  ioState,   \* the state it announces
  notified   \* history: the thread woken by the last notify_one

waitVars == <<pc, accepts>>
ioVars == <<ioPc, ioState, notified>>
vars == <<m_state, owner, waitVars, ioVars>>

Pred(w) == m_state \in accepts[w]
Asleep == {w \in Waiter : pc[w] = "asleep"}

\* unique_lock on m_cvMutex.  Mutant, for the handlers: no unique_lock.
NoLock == TRUE
MutexFree == owner = None

-----------------------------------------------------------------------------
(* Application threads.                                                    *)

Goto(w, label) == pc' = [pc EXCEPT ![w] = label] /\ UNCHANGED <<m_state, ioVars>>

\* waitForConnection or waitForConnectionOrFail is called.
Call(w) ==
  /\ pc[w] = "idle"
  /\ \E S \in {{"OPENED"}, Announced} : accepts' = [accepts EXCEPT ![w] = S]
  /\ Goto(w, "lock")
  /\ UNCHANGED owner

\* The unique_lock, or wait() taking the mutex again after it was woken.
Lock(w) ==
  /\ pc[w] \in {"lock", "woken"} /\ owner = None
  /\ owner' = w
  /\ Goto(w, "check")
  /\ UNCHANGED accepts

\* wait() evaluates the predicate; the call returns and releases the mutex ...
Check(w) ==
  /\ pc[w] = "check"
  /\ IF Pred(w) THEN Goto(w, "done") /\ owner' = None
                ELSE Goto(w, "sleep") /\ UNCHANGED owner
  /\ UNCHANGED accepts

\* ... or it blocks, which releases the mutex in the same step.
Sleep(w) ==
  /\ pc[w] = "sleep"
  /\ owner' = None
  /\ Goto(w, "asleep")
  /\ UNCHANGED accepts

\* A spurious wakeup.
Wake(w) ==
  /\ pc[w] = "asleep"
  /\ Goto(w, "woken")
  /\ UNCHANGED <<owner, accepts>>

-----------------------------------------------------------------------------
(* The I/O thread: an open, close or fail handler.                         *)

\* Connections open, fail and close for ever.
Begin ==
  /\ ioPc = "idle"
  /\ ioState' \in Announced
  /\ ioPc' = "lock"
  /\ UNCHANGED <<m_state, owner, waitVars, notified>>

Announce ==
  /\ ioPc = "lock" /\ MutexFree
  /\ owner' = Io
  /\ m_state' = ioState
  /\ ioPc' = "notify"
  /\ UNCHANGED <<waitVars, ioState, notified>>

\* Those that notify_one may wake: all that are asleep.  Mutant: none.
NoneWoken == {}
CanWake == Asleep

\* notify_one wakes one of the threads blocked on m_cv, if there is any.
Notify ==
  /\ ioPc = "notify"
  /\ \/ \E w \in CanWake : notified' = w /\ pc' = [pc EXCEPT ![w] = "woken"]
     \/ CanWake = {} /\ notified' = None /\ UNCHANGED pc
  /\ ioPc' = "unlock"
  /\ UNCHANGED <<m_state, owner, accepts, ioState>>

Unlock ==
  /\ ioPc = "unlock"
  /\ owner' = None
  /\ ioPc' = "idle"
  /\ UNCHANGED <<m_state, waitVars, ioState, notified>>

-----------------------------------------------------------------------------

Init ==
  /\ m_state = "INITIAL" /\ owner = None
  /\ pc = [w \in Waiter |-> "idle"] /\ accepts = [w \in Waiter |-> {}]
  /\ ioPc = "idle" /\ ioState = "INITIAL" /\ notified = None

Handler == Announce \/ Notify \/ Unlock
Waiting(w) == Lock(w) \/ Check(w) \/ Sleep(w)

Next == Begin \/ Handler \/ \E w \in Waiter : Call(w) \/ Waiting(w) \/ Wake(w)

Spec == Init /\ [][Next]_vars

\* The threads are scheduled, and one that wants the mutex gets it if it is
\* free again and again: it is held for moments only, and the close and fail
\* handlers sleep for a second after they have released it.  Nothing obliges a
\* connection to open or close, nor the system to wake a thread by itself.
Fairness == SF_vars(Handler) /\ \A w \in Waiter : SF_vars(Waiting(w))
FairSpec == Spec /\ Fairness

-----------------------------------------------------------------------------
(* Properties.                                                             *)

\* The types of the variables.
TypeOK ==
  /\ m_state \in State
  /\ owner \in Waiter \cup {Io, None}
  /\ pc \in [Waiter -> {"idle", "lock", "check", "sleep", "asleep", "woken", "done"}]
  /\ accepts \in [Waiter -> SUBSET State]
  /\ ioPc \in {"idle", "lock", "notify", "unlock"}
  /\ ioState \in State
  /\ notified \in Waiter \cup {None}

\* No wakeup is lost between the predicate and the sleep: a thread that sleeps
\* although its predicate holds has only been passed over, the notify_one of
\* the last announcement having gone to another thread.
WakeupKept ==
  \A w \in Asleep : Pred(w) /\ ioPc # "notify" => notified \notin {None, w}

\* A thread that waits alone returns once what it waits for holds for good.
Alone(w) == \A v \in Waiter \ {w} : pc[v] = "idle"
Stuck(w) == pc[w] \notin {"idle", "done"} /\ Alone(w) /\ Pred(w)
LoneWaiterReturns == \A w \in Waiter : Stuck(w) ~> ~Stuck(w)

\* Threads that all wait for the first outcome, whatever it is, all return if
\* only enough connections open, fail or close: each announcement lets go one
\* of them.  (With threads in waitForConnection among them this does not hold:
\* the one woken may go back to sleep.)
SameWaitersReturn ==
  [](\A w \in Waiter : accepts[w] # {"OPENED"}) /\ []<>(ioPc = "notify")
    => \A w \in Waiter : pc[w] # "idle" ~> pc[w] = "done"

-----------------------------------------------------------------------------
(* The inductive invariant behind WakeupKept.                              *)

\* m_cvMutex has one owner, which is between lock and unlock.
MutexOK ==
  /\ \A w \in Waiter : owner = w <=> pc[w] \in {"check", "sleep"}
  /\ owner = Io <=> ioPc \in {"notify", "unlock"}

\* A thread that has found its predicate false has found the present value of
\* m_state: the handlers change it under the mutex only.
CheckIsCurrent == \A w \in Waiter : pc[w] = "sleep" => ~Pred(w)

IndInv == TypeOK /\ MutexOK /\ CheckIsCurrent /\ WakeupKept

=============================================================================
