------------------------ MODULE PhoenixSocketProofs ------------------------
(* Theorems about PhoenixSocket, for any number of connections.  Those      *)
(* about Calm speak of the time before a heartbeat falls due on a           *)
(* connection that is not open.                                             *)
EXTENDS PhoenixSocket, TLAPS

\* The invariant leaves at most one connection.
LEMMA OnlyOne == IndInv => SingleConnection
BY DEF IndInv, Calm, OnlyLast, SingleConnection

\* The constructor has made one connection.
LEMMA InitInv == Init => IndInv
BY SocketAssumption
DEF Init, IndInv, TypeOK, Calm, OnlyLast, PhaseOK, OpenedIsUp, Live

\* Every step keeps the types.
LEMMA TypeStep ==
  ASSUME TypeOK, Next
  PROVE  TypeOK'
<1> USE SocketAssumption
    DEF TypeOK, Live, IsOpen, IoGoto, HbGoto, DtorGoto, conVars, ownVars, hbVars, Close, End
<1>1. CASE Rejoin \/ Opened
  BY <1>1 DEF Rejoin, Opened
<1>2. CASE RejoinThrows
  BY <1>2 DEF RejoinThrows
<1>3. CASE Failed \/ Closed
  BY <1>3 DEF Failed, Closed, Reconnect, Connect
<1>4. CASE Catch
  BY <1>4 DEF Catch, CloseCaught
<1>5. CASE CatchEnds
  BY <1>5 DEF CatchEnds, NoHandlerToCome, Connect
<1>6. CASE Loop \/ RunReturns
  BY <1>6 DEF Loop, RunReturns, NextRun
<1>7. CASE HeartbeatThread
  <2>1. CASE HbSend
    BY <2>1 DEF HbSend, HbNext
  <2>2. CASE HbClose
    BY <2>2 DEF HbClose
  <2>3. CASE HbCallback
    BY <2>3 DEF HbCallback, HbNext
  <2> QED
    BY <1>7, <2>1, <2>2, <2>3 DEF HeartbeatThread
<1>8. CASE Destroy \/ Destructor
  BY <1>8 DEF Destroy, Destructor, Stop, WaitIo, WaitHeartbeat
<1>9. ASSUME NEW c \in Con, Opens(c) \/ Fails(c) \/ PeerCloses(c) \/ Ends(c)
      PROVE  TypeOK'
  <2>1. CASE Opens(c)
    BY <2>1 DEF Opens, Running
  <2>2. CASE Fails(c)
    BY <2>2 DEF Fails, Running
  <2>3. CASE PeerCloses(c)
    BY <2>3 DEF PeerCloses, Running
  <2>4. CASE Ends(c)
    BY <2>4 DEF Ends, EndState, Running
  <2> QED
    BY <1>9, <2>1, <2>2, <2>3, <2>4
<1>10. ASSUME NEW c \in Con, OnMessage(c)
      PROVE  TypeOK'
  <2>1. con' \in {con, Close(m_hdl)} /\ deaf' \in {deaf, deaf \cup {c}}
    BY <1>10 DEF OnMessage
  <2>2. Close(m_hdl) \in [Con -> {"closed", "connecting", "open", "closing"}]
    OBVIOUS
  <2>3. QED
    BY <1>10, <2>1, <2>2 DEF OnMessage, Running
<1> QED
  BY <1>1, <1>2, <1>3, <1>4, <1>5, <1>6, <1>7, <1>8, <1>9, <1>10
  DEF Next, Handler

\* The handlers of the I/O thread keep the invariant: those that connect do so
\* when the last connection has ended.
LEMMA HandlerStep ==
  ASSUME TypeOK, Calm, hbFailed = FALSE, Handler
  PROVE  Calm' /\ hbFailed' = FALSE /\ [L!Next]_(L!vars)
<1> USE SocketAssumption
    DEF TypeOK, Calm, OnlyLast, PhaseOK, OpenedIsUp, Live, IsOpen, IoGoto, conVars,
        ownVars, hbVars, Close, TheLink, L!Next, L!vars, L!Open, L!Lose, L!Publish,
        L!Down
<1>1. CASE Rejoin
  BY <1>1 DEF Rejoin
<1>2. CASE RejoinThrows
  <2>1. Calm'
    BY <1>2 DEF RejoinThrows
  <2>2. UNCHANGED L!vars /\ hbFailed' = FALSE
    BY <1>2 DEF RejoinThrows
  <2>3. QED
    BY <2>1, <2>2
<1>3. CASE Loop \/ RunReturns
  BY <1>3 DEF Loop, RunReturns, NextRun
<1>4. CASE Opened
  BY <1>4 DEF Opened
<1>5. CASE Failed
  BY <1>5 DEF Failed, Reconnect, Connect
<1>6. CASE Closed
  BY <1>6 DEF Closed, Reconnect, Connect
<1>7. CASE Catch
  BY <1>7 DEF Catch, CloseCaught
<1>8. CASE CatchEnds
  BY <1>8 DEF CatchEnds, NoHandlerToCome, Connect
<1> QED
  BY <1>1, <1>2, <1>3, <1>4, <1>5, <1>6, <1>7, <1>8 DEF Handler

\* So do websocketpp's events.
LEMMA EventStep ==
  ASSUME TypeOK, Calm, hbFailed = FALSE, NEW c \in Con,
         Opens(c) \/ Fails(c) \/ PeerCloses(c) \/ Ends(c) \/ OnMessage(c)
  PROVE  Calm' /\ hbFailed' = FALSE /\ [L!Next]_(L!vars)
<1> USE SocketAssumption
    DEF TypeOK, Calm, OnlyLast, PhaseOK, OpenedIsUp, Live, IsOpen, IoGoto, conVars,
        ownVars, hbVars, Close, TheLink, Running, L!Next, L!vars, L!Open, L!Lose,
        L!Publish, L!Down
<1>1. CASE Opens(c)
  BY <1>1 DEF Opens
<1>2. CASE Fails(c)
  BY <1>2 DEF Fails, End
<1>3. CASE PeerCloses(c)
  BY <1>3 DEF PeerCloses
<1>4. CASE Ends(c)
  BY <1>4 DEF Ends, End, EndState
<1>5. CASE OnMessage(c)
  BY <1>5 DEF OnMessage
<1> QED
  BY <1>1, <1>2, <1>3, <1>4, <1>5

\* A heartbeat that can be sent and the destructor do not touch connections;
\* one that cannot be sent ends the calm.
LEMMA OtherStep ==
  ASSUME TypeOK, Calm, hbFailed = FALSE, HeartbeatThread \/ Destroy \/ Destructor
  PROVE  /\ hbFailed' = TRUE \/ (hbFailed' = FALSE /\ Calm')
         /\ [L!Next]_(L!vars)
<1> USE DEF TypeOK, Calm, OnlyLast, PhaseOK, OpenedIsUp, Live, conVars, ownVars, hbVars,
            TheLink, L!vars, L!Next, L!Down
<1>1. CASE HeartbeatThread
  BY <1>1 DEF HeartbeatThread, HbSend, HbClose, HbCallback, HbGoto, HbNext, IsOpen
<1>2. CASE Destroy \/ Destructor
  BY <1>2 DEF Destroy, Destructor, Stop, WaitIo, WaitHeartbeat, DtorGoto
<1> QED
  BY <1>1, <1>2

\* Once a heartbeat has failed, this is remembered, and the mapped Link stays down.
LEMMA FailedStep ==
  ASSUME TypeOK, hbFailed = TRUE, Next
  PROVE  hbFailed' = TRUE /\ [L!Next]_(L!vars)
<1>1. hbFailed' = TRUE
  <2> USE DEF IoGoto, HbGoto, DtorGoto, hbVars
  <2>1. CASE Handler
    BY <2>1 DEF Handler, Rejoin, RejoinThrows, Opened, Failed, Closed, Catch, CatchEnds,
                Loop, RunReturns
  <2>2. CASE HeartbeatThread
    BY <2>2 DEF HeartbeatThread, HbSend, HbClose, HbCallback
  <2>3. CASE Destroy \/ Destructor
    BY <2>3 DEF Destroy, Destructor, Stop, WaitIo, WaitHeartbeat
  <2>4. CASE \E c \in Con : Opens(c) \/ Fails(c) \/ PeerCloses(c) \/ Ends(c) \/ OnMessage(c)
    BY <2>4 DEF Opens, Fails, PeerCloses, Ends, OnMessage
  <2> QED
    BY <2>1, <2>2, <2>3, <2>4 DEF Next
<1> QED
  BY <1>1 DEF L!vars, TheLink

\* A step or a stutter.
LEMMA Step ==
  ASSUME IndInv, [Next]_vars
  PROVE  IndInv' /\ [L!Next]_(L!vars)
<1>1. CASE UNCHANGED vars
  <2>1. /\ con' = con /\ deaf' = deaf /\ m_hdl' = m_hdl /\ m_state' = m_state
        /\ m_stop' = m_stop /\ stopped' = stopped /\ dtor' = dtor
        /\ ioPc' = ioPc /\ ioCon' = ioCon /\ hbPc' = hbPc
        /\ hbFailed' = hbFailed
    BY <1>1 DEF vars, conVars, ownVars, hbVars
  <2>2. IndInv'
    <3>1. TypeOK'
      BY <2>1, Zenon DEF IndInv, TypeOK
    <3>2. ASSUME OnlyLast PROVE OnlyLast'
      BY <2>1, <3>2 DEF OnlyLast, Live
    <3>3. ASSUME PhaseOK, OpenedIsUp PROVE PhaseOK' /\ OpenedIsUp'
      BY <2>1, <3>3 DEF PhaseOK, OpenedIsUp
    <3>4. QED
      BY <2>1, <3>1, <3>2, <3>3 DEF IndInv, Calm
  <2>3. UNCHANGED L!vars
    BY <2>1 DEF L!vars, TheLink
  <2>4. QED
    BY <2>2, <2>3
<1>2. CASE Next
  <2>1. TypeOK /\ TypeOK'
    BY <1>2, TypeStep DEF IndInv
  <2>2. CASE hbFailed = TRUE
    BY <1>2, <2>1, <2>2, FailedStep DEF IndInv
  <2>3. CASE hbFailed = FALSE
    <3>1. Calm
      BY <2>3 DEF IndInv
    <3>2. CASE Handler
      BY <2>1, <2>3, <3>1, <3>2, HandlerStep DEF IndInv
    <3>3. CASE HeartbeatThread \/ Destroy \/ Destructor
      BY <2>1, <2>3, <3>1, <3>3, OtherStep DEF IndInv
    <3>4. CASE \E c \in Con :
                 Opens(c) \/ Fails(c) \/ PeerCloses(c) \/ Ends(c) \/ OnMessage(c)
      BY <2>1, <2>3, <3>1, <3>4, EventStep DEF IndInv
    <3> QED
      BY <1>2, <3>2, <3>3, <3>4 DEF Next
  <2> QED
    BY <2>1, <2>2, <2>3 DEF TypeOK
<1> QED
  BY <1>1, <1>2

\* IndInv holds in every state: the types, and until a heartbeat fails also
\* what each phase of the I/O thread knows of the connection made last.
THEOREM Invariance == Spec => []IndInv
<1>1. IndInv /\ [Next]_vars => IndInv'
  BY Step
<1> QED
  BY InitInv, <1>1, PTL DEF Spec

\* The variables of the socket, its threads and its connections keep their types.
THEOREM TypeCorrect == Spec => []TypeOK
<1>1. IndInv => TypeOK
  BY DEF IndInv
<1> QED
  BY Invariance, <1>1, PTL

\* The handlers and the catch block together make one connection at a time,
\* whatever fails, throws or closes, until a heartbeat fails.
THEOREM OneConnection == Spec => []SingleConnection
BY Invariance, OnlyOne, PTL

\* Over all its connections the socket behaves towards the channels as a Link.
THEOREM LinkImplemented == Spec => ImplementsLink
<1>1. Init => L!Init
  BY DEF Init, L!Init, TheLink
<1>2. IndInv /\ [Next]_vars => [L!Next]_(L!vars)
  BY Step
<1> QED
  BY <1>1, <1>2, Invariance, PTL DEF Spec, ImplementsLink, L!Spec

=============================================================================
