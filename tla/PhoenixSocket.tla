--------------------------- MODULE PhoenixSocket ---------------------------
(***************************************************************************)
(* The life cycle of a phoenix::socket (socket.cpp): its connections, the  *)
(* open, close and fail handlers, the loop around m_client.run() with its  *)
(* catch block, the heartbeat thread and the destructor.                   *)
(*                                                                         *)
(* Actors.  The I/O thread runs one handler at a time (ioPc).  The         *)
(* heartbeat thread sends, and closes what it could not send on (hbPc).    *)
(* The owner may destroy the socket (dtor).  websocketpp and the network   *)
(* open, fail and end connections; their events reach the program only     *)
(* through the I/O thread.  The initial state is the end of the            *)
(* constructor, which has called connect() and started both threads.       *)
(***************************************************************************)
EXTENDS Naturals, FiniteSets

CONSTANTS
  Con,        \* bound: identities of websocketpp connections, reused
  RefInUse,   \* may a rejoin throw because its ref is still in use
  Throws,     \* may m_onErrorCallback throw
  NoCon       \* no connection

ASSUME SocketAssumption ==
  /\ {RefInUse, Throws} \subseteq BOOLEAN
  /\ NoCon \notin Con

VARIABLES
  con,      \* websocketpp's session state of each connection
  deaf,     \* connections whose reading an exception has ended
  m_hdl,    \* the connection made last
  m_state,  \* socket::m_state
  m_stop,   \* socket::m_stop
  stopped,  \* m_client.stop() has been called
  ioPc,     \* what the I/O thread does next
  ioCon,    \* the connection whose open handler rejoins
  hbPc,     \* what the heartbeat thread does next
  hbFailed, \* history: a heartbeat has fallen due while m_hdl was not open
  dtor      \* how far the destructor has come

conVars == <<con, deaf, m_hdl>>
ownVars == <<m_stop, stopped, dtor>>
hbVars == <<hbPc, hbFailed>>
vars == <<conVars, m_state, ownVars, ioPc, ioCon, hbVars>>

-----------------------------------------------------------------------------
(* websocketpp.  A connection is "closed" before it is made and after it   *)
(* has ended.  send() throws and close() reports an error unless it is     *)
(* "open".                                                                 *)

Live == {c \in Con : con[c] # "closed"}
IsOpen(c) == c \in Con /\ con[c] = "open"

\* con after close(c).
Close(c) == IF IsOpen(c) THEN [con EXCEPT ![c] = "closing"] ELSE con

\* Bound: a handler that may end in a second connect() starts only while there
\* is an identity for that connection.
SpareCon == Live # Con

\* Nothing runs once the io_service is stopped.
Running == ioPc = "run" /\ ~stopped

IoGoto(label) == ioPc' = label /\ ioCon' = NoCon /\ UNCHANGED <<hbVars, ownVars>>

\* A connection has ended, deaf or not.
End(c) == con' = [con EXCEPT ![c] = "closed"] /\ deaf' = deaf \ {c}

\* socket::connect.  The new connection is one that does not exist yet.
Connect ==
  \E c \in Con :
    /\ con[c] = "closed"
    /\ con' = [con EXCEPT ![c] = "connecting"]
    /\ m_hdl' = c /\ UNCHANGED deaf

\* if(!m_stop) connect().  Mutants: the connection is not made again; or only
\* the old one is given up.
StayDown == UNCHANGED conVars
OnlyReset == m_hdl' = NoCon /\ UNCHANGED <<con, deaf>>
Reconnect == IF m_stop THEN UNCHANGED conVars ELSE Connect

-----------------------------------------------------------------------------
(* The I/O thread: handlers.                                               *)

\* The handshake succeeds: websocketpp calls the open handler.
Opens(c) ==
  /\ Running /\ con[c] = "connecting" /\ SpareCon
  /\ con' = [con EXCEPT ![c] = "open"]
  /\ ioPc' = "rejoin" /\ ioCon' = c
  /\ UNCHANGED <<deaf, m_hdl, m_state, hbVars, ownVars>>

\* rejoinAllChannels; there may be no channel to rejoin.
Rejoin ==
  /\ ioPc = "rejoin"
  /\ IoGoto("opened")
  /\ UNCHANGED <<conVars, m_state>>

\* Sending on m_hdl throws unless that is open.  An exception leaves the
\* handler's own connection without a pending read.
RejoinThrows ==
  /\ ioPc = "rejoin" /\ (RefInUse \/ ~IsOpen(m_hdl))
  /\ deaf' = deaf \cup {ioCon}
  /\ IoGoto("caught")
  /\ UNCHANGED <<con, m_hdl, m_state>>

\* m_state = OPENED under m_cvMutex.
Opened ==
  /\ ioPc = "opened"
  /\ m_state' = "OPENED"
  /\ IoGoto("run")
  /\ UNCHANGED conVars

\* The handshake fails or times out: the fail handler, up to the callback.
Fails(c) ==
  /\ Running /\ con[c] = "connecting"
  /\ End(c)
  /\ m_state' = "FAILED"
  /\ IoGoto("failed")
  /\ UNCHANGED m_hdl

\* m_onErrorCallback, then connect() unless the socket is being destroyed.
Failed ==
  /\ ioPc = "failed"
  /\ \/ IoGoto("run") /\ Reconnect
     \/ Throws /\ IoGoto("caught") /\ UNCHANGED conVars
  /\ UNCHANGED m_state

\* What the close handler leaves in m_state.  Mutant: nothing.
SameState == m_state
EndState == "CLOSED"

\* The peer's close frame is read: nothing more can be sent.
PeerCloses(c) ==
  /\ Running /\ con[c] = "open" /\ c \notin deaf
  /\ con' = [con EXCEPT ![c] = "closing"]
  /\ IoGoto("run")
  /\ UNCHANGED <<deaf, m_hdl, m_state>>

\* A connection that was open ends: by the peer or the network (a deaf one
\* when a write fails), or after close() by the handshake or its timeout.
\* The close handler sets m_state ...
Ends(c) ==
  /\ Running /\ con[c] \in {"open", "closing"}
  /\ End(c)
  /\ m_state' = EndState
  /\ IoGoto("closed")
  /\ UNCHANGED m_hdl

\* ... and connects again.
Closed ==
  /\ ioPc = "closed"
  /\ IoGoto("run") /\ Reconnect
  /\ UNCHANGED m_state

\* on_message on an open connection.  The "error" hook of a rejoin closes
\* m_hdl; parsing, a callback or that close() may throw.
OnMessage(c) ==
  /\ Running /\ con[c] = "open" /\ c \notin deaf
  /\ ~m_stop
  /\ \/ con' = Close(m_hdl) /\ IoGoto("run") /\ UNCHANGED deaf
     \/ SpareCon /\ con' \in {con, Close(m_hdl)} /\ IoGoto("caught") /\ deaf' = deaf \cup {c}
  /\ UNCHANGED <<m_hdl, m_state>>

-----------------------------------------------------------------------------
(* The I/O thread: the loop around run().                                  *)

\* close(m_hdl, ec) in the catch block.  Mutant: no close().
NoClose == con
CloseCaught == Close(m_hdl)
Catch ==
  /\ ioPc = "caught"
  /\ con' = CloseCaught
  /\ IoGoto(IF IsOpen(m_hdl) THEN "close" ELSE "close failed")
  /\ UNCHANGED <<deaf, m_hdl, m_state>>

\* After a failed close() the catch block connects unless a close handler is
\* still to come.  Mutant: it does not look at m_state.
AfterFailedClose == ioPc = "close failed"
NoHandlerToCome == ioPc = "close failed" /\ m_state # "OPENED"

\* m_onErrorCallback, which ends the thread if it throws, then connect().
CatchEnds ==
  /\ ioPc \in {"close", "close failed"}
  /\ \/ IoGoto("loop") /\ IF NoHandlerToCome THEN Connect
                                              ELSE UNCHANGED conVars
     \/ Throws /\ IoGoto("done") /\ UNCHANGED conVars
  /\ UNCHANGED m_state

\* while(!m_stop): the next run().  Mutant: while(true).
RunAgain == "run"
NextRun == IF m_stop THEN "done" ELSE "run"
Loop ==
  /\ ioPc = "loop"
  /\ IoGoto(NextRun)
  /\ UNCHANGED <<conVars, m_state>>

\* run() returns once the io_service is stopped.
RunReturns ==
  /\ ioPc = "run" /\ stopped
  /\ IoGoto("loop")
  /\ UNCHANGED <<conVars, m_state>>

-----------------------------------------------------------------------------
(* The heartbeat thread.                                                   *)

HbGoto(label) == hbPc' = label /\ UNCHANGED <<ioPc, ioCon, ownVars, m_state>>

\* while(!m_stop) after a heartbeat.
HbNext == IF m_stop THEN "done" ELSE "sleep"

\* The sleep ends, early when m_stop is set, and send() is tried.
HbSend ==
  /\ hbPc = "sleep"
  /\ \/ IsOpen(m_hdl) /\ HbGoto(HbNext) /\ UNCHANGED hbFailed
     \/ ~IsOpen(m_hdl) /\ HbGoto("close") /\ hbFailed' = TRUE
  /\ UNCHANGED conVars

\* The catch block closes whatever m_hdl now is.
HbClose ==
  /\ hbPc = "close"
  /\ con' = Close(m_hdl)
  /\ HbGoto("callback")
  /\ UNCHANGED <<deaf, m_hdl, hbFailed>>

\* m_onErrorCallback, which ends the thread if it throws.
HbCallback ==
  /\ hbPc = "callback"
  /\ \/ HbGoto(HbNext)
     \/ Throws /\ HbGoto("done")
  /\ UNCHANGED <<conVars, hbFailed>>

-----------------------------------------------------------------------------
(* The destructor.                                                         *)

DtorGoto(label) ==
  dtor' = label /\ UNCHANGED <<conVars, m_state, ioPc, ioCon, hbVars>>

Destroy ==
  /\ dtor = "alive"
  /\ m_stop' = TRUE /\ UNCHANGED stopped
  /\ DtorGoto("stop")

Stop ==
  /\ dtor = "stop"
  /\ stopped' = TRUE /\ UNCHANGED m_stop
  /\ DtorGoto("wait")

\* m_future.wait(); then the members are destroyed, last declared first.
WaitIo ==
  /\ dtor = "wait" /\ ioPc = "done"
  /\ DtorGoto("members") /\ UNCHANGED <<m_stop, stopped>>

\* The destructor of m_heartbeatFuture waits for its thread.
WaitHeartbeat ==
  /\ dtor = "members" /\ hbPc = "done"
  /\ DtorGoto("gone") /\ UNCHANGED <<m_stop, stopped>>

-----------------------------------------------------------------------------

Init ==
  /\ m_hdl \in Con
  /\ con = [c \in Con |-> IF c = m_hdl THEN "connecting" ELSE "closed"]
  /\ deaf = {} /\ m_state = "INITIAL"
  /\ m_stop = FALSE /\ stopped = FALSE /\ dtor = "alive"
  /\ ioPc = "run" /\ ioCon = NoCon /\ hbPc = "sleep" /\ hbFailed = FALSE

Handler == Rejoin \/ RejoinThrows \/ Opened \/ Failed \/ Closed
           \/ Catch \/ CatchEnds \/ Loop \/ RunReturns
HeartbeatThread == HbSend \/ HbClose \/ HbCallback
Destructor == Stop \/ WaitIo \/ WaitHeartbeat

Next ==
  \/ Handler \/ HeartbeatThread \/ Destroy \/ Destructor
  \/ \E c \in Con : Opens(c) \/ Fails(c) \/ PeerCloses(c) \/ Ends(c) \/ OnMessage(c)

Spec == Init /\ [][Next]_vars

\* The threads are scheduled.  websocketpp's timeouts end every handshake, and
\* its io_service serves what is due in order, so that no stream of other
\* handlers keeps a connection from opening, failing or ending.
Fairness ==
  /\ WF_vars(Handler) /\ WF_vars(HeartbeatThread) /\ WF_vars(Destructor)
  /\ \A c \in Con : /\ SF_vars(Opens(c) \/ Fails(c))
                    /\ SF_vars(con[c] = "closing" /\ Ends(c))
FairSpec == Spec /\ Fairness

-----------------------------------------------------------------------------
(* Properties.                                                             *)

\* The types of the variables.
TypeOK ==
  /\ con \in [Con -> {"closed", "connecting", "open", "closing"}]
  /\ deaf \subseteq Con
  /\ m_hdl \in Con
  /\ m_state \in {"INITIAL", "OPENED", "CLOSED", "FAILED"}
  /\ m_stop \in BOOLEAN /\ stopped \in BOOLEAN
  /\ ioPc \in {"run", "rejoin", "opened", "failed", "closed", "caught",
               "close", "close failed", "loop", "done"}
  /\ ioCon \in IF ioPc = "rejoin" THEN Con ELSE {NoCon}
  /\ hbPc \in {"sleep", "close", "callback", "done"} /\ hbFailed \in BOOLEAN
  /\ dtor \in {"alive", "stop", "wait", "members", "gone"}

\* The socket has at most one connection: the handlers and the catch block
\* never both reconnect.  (A heartbeat that fails breaks this: see OneOpen.)
SingleConnection == ~hbFailed => \A c, d \in Live : c = d

\* At least it has at most one on which the server hears it.
OneOpen == \A c, d \in Con : IsOpen(c) /\ IsOpen(d) => c = d

\* To the channels the socket is a Link: the connection they send on is the
\* one whose handlers run, and OPENED never outlives it.  This holds until a
\* heartbeat fails; from then on the mapping shows a Link that stays down.
TheLink == IF ~hbFailed /\ con[m_hdl] \in {"open", "closing"} THEN con[m_hdl] ELSE "down"
L == INSTANCE Link WITH link <- TheLink, published <- ~hbFailed /\ m_state = "OPENED"
ImplementsLink == L!Spec

\* Nobody is left to reconnect: the socket is being destroyed, or its I/O thread
\* was ended by an m_onErrorCallback that throws.
GivenUp == m_stop \/ ioPc = "done"

\* Whatever fails, throws or closes, and whoever closes it, the socket does not
\* stay without a connection.
Reconnects == Live = {} ~> Live # {} \/ GivenUp

\* A connection that an exception has made deaf does not stay open as the one
\* that is sent on.
Dumb(c) == c \in deaf /\ con[c] = "open" /\ m_hdl = c
DeafEnds == \A c \in Con : Dumb(c) ~> ~Dumb(c) \/ GivenUp

\* When the connection that is sent on opens, this is announced to
\* waitForConnection, unless it ends or is replaced.
OpenIsAnnounced ==
  \A c \in Con : m_hdl = c /\ con[c] = "open"
    ~> m_state = "OPENED" \/ con[c] # "open" \/ m_hdl # c \/ GivenUp

\* The destructor returns.
DestructorEnds == dtor = "stop" ~> dtor = "gone"

-----------------------------------------------------------------------------
(* The inductive invariant behind SingleConnection and ImplementsLink.     *)

\* Only the connection made last can be live, and the heartbeat closes nothing.
OnlyLast == Live \subseteq {m_hdl} /\ hbPc \in {"sleep", "done"}

\* What each phase of the I/O thread knows of that connection.
PhaseOK ==
  /\ ioPc \in {"failed", "closed"} => con[m_hdl] = "closed"
  /\ ioPc \in {"rejoin", "opened"} => con[m_hdl] = "open"
  /\ ioPc = "rejoin" => ioCon = m_hdl
  /\ ioPc \in {"run", "loop"} /\ con[m_hdl] = "open" => m_state = "OPENED"
  /\ ioPc = "caught" =>
       /\ con[m_hdl] # "connecting"
       /\ con[m_hdl] = "closing" => m_state = "OPENED"
  /\ ioPc = "close" => con[m_hdl] = "closing"
  /\ ioPc = "close failed" =>
       \/ con[m_hdl] = "closed"
       \/ con[m_hdl] = "closing" /\ m_state = "OPENED"

\* OPENED is published for a connection that has not ended.
OpenedIsUp == m_state = "OPENED" => con[m_hdl] \in {"open", "closing"}

\* The parts together.  A handler that connects again has seen the end of the
\* last connection; what makes this inductive is that the catch block can tell.
\* A failed heartbeat ends all of it but the types.
Calm == OnlyLast /\ PhaseOK /\ OpenedIsUp
IndInv == TypeOK /\ (hbFailed \/ Calm)

=============================================================================
