------------------------ MODULE PhoenixChannelProofs ------------------------
(* Theorems about PhoenixChannel for every value of its constants. *)
EXTENDS PhoenixChannel, TLAPS, SequenceTheorems

\* The next ref is a ref, also when the counter wraps.
LEMMA NextRefType == \A r \in Ref : NextRef(r) \in Ref
BY ChannelAssumption DEF Ref, NextRef

\* The message at the head of the inbox is a message, and so is the rest.
LEMMA InboxType ==
  ASSUME inbox \in Seq(Message), inbox # <<>>
  PROVE  Head(inbox) \in Message /\ Tail(inbox) \in Seq(Message)
BY HeadTailProperties

\* A new push, and a push with other hooks, timer or answers, is a push.
LEMMA PushTypes ==
  ASSUME TypeOK
  PROVE  /\ \A c \in Channel, kind \in {"join", "rejoin", "push"}, S \in SUBSET Status :
              NewPush(c, kind, S) \in PushRecord
         /\ \A p \in PushId : push[p] # None =>
              /\ push[p] \in PushRecord
              /\ \A S \in SUBSET Status : [push[p] EXCEPT !.hooks = S] \in PushRecord
              /\ \A b \in BOOLEAN : [push[p] EXCEPT !.timer = b] \in PushRecord
              /\ [push[p] EXCEPT !.answers = @ + 1] \in PushRecord
<1>1. ASSUME NEW c \in Channel, NEW kind \in {"join", "rejoin", "push"},
             NEW S \in SUBSET Status
      PROVE  NewPush(c, kind, S) \in PushRecord
  BY DEF TypeOK, PushRecord, NewPush
<1>2. ASSUME NEW p \in PushId, push[p] # None
      PROVE  /\ push[p] \in PushRecord
             /\ \A S \in SUBSET Status : [push[p] EXCEPT !.hooks = S] \in PushRecord
             /\ \A b \in BOOLEAN : [push[p] EXCEPT !.timer = b] \in PushRecord
             /\ [push[p] EXCEPT !.answers = @ + 1] \in PushRecord
  <2>1. push[p] \in PushRecord
    BY <1>2 DEF TypeOK
  <2>2. QED
    BY <2>1 DEF PushRecord
<1> QED
  BY <1>1, <1>2

\* What the server writes is a message.
LEMMA ServerTypes ==
  ASSUME TypeInv
  PROVE  /\ \A p \in sent, s \in Answers, w \in JoinRefs :
              [topic |-> Topic[push[p].chan], event |-> "phx_reply", ref |-> push[p].ref,
               joinRef |-> IF w THEN joinRef[push[p].chan] ELSE None,
               status |-> s, to |-> p] \in Message
         /\ \A c \in Channel, e \in Event, w \in JoinRefs :
              [topic |-> Topic[c], event |-> e, ref |-> None,
               joinRef |-> IF w THEN joinRef[c] ELSE None,
               status |-> "ok", to |-> None] \in Message
         /\ \A c \in Channel :
              [topic |-> Topic[c], event |-> "phx_reply", ref |-> None,
               joinRef |-> None, status |-> "malformed", to |-> None] \in Message
BY ChannelAssumption, PushTypes DEF TypeInv, TypeOK, IoOK, Message, Topics, Status, PushRecord

\* A step keeps the types and what they depend on.
LEMMA TypeStep == TypeInv /\ TableOK /\ [Next]_vars => TypeInv'
<1> SUFFICES ASSUME TypeInv, TableOK, [Next]_vars PROVE TypeInv'
  OBVIOUS
<1> USE ChannelAssumption, NoneAssumption
<1> USE DEF TypeInv, TypeOK, CallsOK, IoOK, refVars, appVars, msgVars, ioVars, netVars
<1>1. ASSUME NEW t \in Thread, NEW c \in Channel, GetChannel(t, c) PROVE TypeInv'
  BY <1>1, NextRefType DEF GetChannel
<1>2. ASSUME NEW t \in Thread, NEW c \in Channel, RemoveChannel(t, c) PROVE TypeInv'
  BY <1>2 DEF RemoveChannel, EmptyTable
<1>3. ASSUME NEW t \in Thread, NEW c \in Channel, NEW kind \in Kinds, DrawRef(t, c, kind)
      PROVE TypeInv'
  <2>1. PICK p \in Unused : /\ push' = [push EXCEPT ![p] = NewPush(c, kind, {})]
                            /\ cur' = [cur EXCEPT ![t] = p]
    BY <1>3 DEF DrawRef
  <2>2. NewPush(c, kind, {}) \in PushRecord /\ p \in PushId
    BY PushTypes DEF Unused
  <2>3. QED
    BY <1>3, <2>1, <2>2, NextRefType DEF DrawRef
<1>4. ASSUME NEW t \in Thread, Emplace(t) PROVE TypeInv'
  <2>1. cur[t] \in PushId /\ push[cur[t]] \in PushRecord
    BY <1>4, PushTypes DEF Emplace
  <2>2. push[cur[t]].chan \in Channel /\ push[cur[t]].ref \in Ref
    BY <2>1 DEF PushRecord
  <2>3. QED
    <3> DEFINE c == push[cur[t]].chan
               r == push[cur[t]].ref
    <3>1. CASE CanEmplace(c, r)
      <4>1. idToPush' = [idToPush EXCEPT ![c][r] = cur[t]] /\ Goto(t, "receive")
        BY <1>4, <3>1 DEF Emplace
      <4> HIDE DEF c, r
      <4>2. c \in Channel /\ r \in Ref
        BY <2>2 DEF c, r
      <4>3. idToPush' \in [Channel -> [Ref -> PushId \cup {None}]]
        BY <2>1, <4>1, <4>2
      <4>4. QED
        BY <1>4, <4>1, <4>3 DEF Emplace, Goto
    <3>2. CASE ~CanEmplace(c, r)
      BY <1>4, <3>2 DEF Emplace, Return
    <3>3. QED
      BY <3>1, <3>2
<1>5. ASSUME NEW t \in Thread, Receive(t) PROVE TypeInv'
  <2>1. cur[t] \in PushId /\ push[cur[t]] # None
    BY <1>5 DEF Receive
  <2>2. PICK S \in HookSets : push' = [push EXCEPT ![cur[t]].hooks = S]
    BY <1>5 DEF Receive
  <2>3. [push[cur[t]] EXCEPT !.hooks = S] \in PushRecord
    BY <2>1, PushTypes
  <2>4. QED
    BY <1>5, <2>1, <2>2, <2>3 DEF Receive, Goto
<1>6. ASSUME NEW t \in Thread, Send(t) PROVE TypeInv'
  BY <1>6 DEF Send, Goto, Return
<1>7. ASSUME NEW t \in Thread, Arm(t) PROVE TypeInv'
  <2> DEFINE b == idToPush[push[cur[t]].chan][push[cur[t]].ref] = cur[t]
  <2>1. cur[t] \in PushId /\ push[cur[t]] # None
    BY <1>7 DEF Arm
  <2>2. [push[cur[t]] EXCEPT !.timer = b] \in PushRecord
    BY <2>1, PushTypes
  <2>3. push' = [push EXCEPT ![cur[t]].timer = b]
    BY <1>7 DEF Arm
  <2> HIDE DEF b
  <2>4. /\ push' \in [PushId -> PushRecord \cup {None}]
        /\ \A q \in PushId : push[q] # None => push'[q] # None
    BY <2>1, <2>2, <2>3
  <2>5. QED
    BY <1>7, <2>4 DEF Arm, Return
<1>8. ASSUME NEW t \in Thread, NEW c \in Channel, NEW e \in Event, NEW k \in Callback,
             On(t, c, e, k)
      PROVE TypeInv'
  BY <1>8 DEF On
<1>9. ASSUME NEW t \in Thread, NEW c \in Channel, NEW e \in Event, Off(t, c, e)
      PROVE TypeInv'
  BY <1>9 DEF Off
<1>10. ASSUME NEW t \in Thread, NEW c \in Channel, NEW r \in Ref, OffId(t, c, r)
       PROVE TypeInv'
  BY <1>10 DEF OffId, Erase
<1>11. CASE OpenHandler
  BY <1>11 DEF OpenHandler, IoGoto
<1>12. CASE RejoinAll
  BY <1>12 DEF RejoinAll, IoGoto
<1>13. ASSUME NEW c \in Channel, RejoinChannel(c) PROVE TypeInv'
  <2>1. PICK p \in Unused :
          /\ push' = [push EXCEPT ![p] = NewPush(c, "rejoin", Status)]
          /\ idToPush' = IF CanEmplace(c, m_ref)
                         THEN [idToPush EXCEPT ![c][m_ref] = p] ELSE idToPush
          /\ IF CanEmplace(c, m_ref) /\ link = "open"
             THEN /\ sent' = sent \cup {p}
                  /\ ioTodo' = ioTodo \ {c}
                  /\ UNCHANGED <<ioPc, msgVars>>
             ELSE /\ IoLeave("caught")
                  /\ UNCHANGED sent
    BY <1>13 DEF RejoinChannel
  <2>2. NewPush(c, "rejoin", Status) \in PushRecord /\ p \in PushId
    BY PushTypes DEF Unused
  <2>3. QED
    <3>1. idToPush' \in [Channel -> [Ref -> PushId \cup {None}]]
      BY <2>1, <2>2
    <3>2. m_ref' \in Ref
      BY <1>13, NextRefType DEF RejoinChannel
    <3>3. push' \in [PushId -> PushRecord \cup {None}] /\ \A q \in PushId : push[q] # None => push'[q] # None
      BY <2>1, <2>2
    <3>4. push'[p] # None
      BY <2>1, <2>2
    <3>5. CASE CanEmplace(c, m_ref) /\ link = "open"
      BY <1>13, <2>1, <2>2, <3>1, <3>2, <3>3, <3>4, <3>5 DEF RejoinChannel
    <3>6. CASE ~(CanEmplace(c, m_ref) /\ link = "open")
      BY <1>13, <2>1, <2>2, <3>1, <3>2, <3>3, <3>6 DEF RejoinChannel, IoLeave
    <3>7. QED
      BY <3>5, <3>6
<1>14. CASE RejoinDone \/ PublishOpened
  BY <1>14 DEF RejoinDone, PublishOpened, IoGoto, IoLeave
<1>15. CASE Catch
  BY <1>15 DEF Catch, IoGoto, Close, CloseCaught
<1>16. CASE CloseHandler
  BY <1>16 DEF CloseHandler, EndState
<1>17. CASE OnMessage
  BY <1>17, InboxType DEF OnMessage, IoGoto, IoLeave
<1>18. ASSUME NEW c \in Channel, ProcessMessage(c) PROVE TypeInv'
  BY <1>18 DEF ProcessMessage, Advance, IoGoto
<1>19. ASSUME NEW k \in Callback, InvokeCallback(k) PROVE TypeInv'
  BY <1>19 DEF InvokeCallback, IoLeave
<1>20. CASE TakePush
  <2>1. ioMsg.ref # None => ioMsg.ref \in Ref /\ ioChan \in Channel
    BY <1>20 DEF TakePush, Message
  <2> DEFINE p == IF ioMsg.ref = None THEN None ELSE idToPush[ioChan][ioMsg.ref]
  <2>2. p \in PushId \cup {None} /\ (p # None => push[p] # None)
    BY <2>1 DEF TableOK
  <2>3. idToPush' \in [Channel -> [Ref -> PushId \cup {None}]]
    <3>1. idToPush' = idToPush \/ (ioMsg.ref # None /\ idToPush' = Erase(ioChan, ioMsg.ref))
      BY <1>20 DEF TakePush
    <3>2. ASSUME ioMsg.ref # None
          PROVE  Erase(ioChan, ioMsg.ref) \in [Channel -> [Ref -> PushId \cup {None}]]
      BY <2>1, <3>2 DEF Erase
    <3>3. QED
      BY <3>1, <3>2
  <2>4. ioPush' = p /\ (IF p = None THEN IoGoto("dispatch") ELSE IoGoto("respond"))
    BY <1>20 DEF TakePush
  <2> HIDE DEF p
  <2>5. QED
    BY <1>20, <2>2, <2>3, <2>4 DEF TakePush, IoGoto
<1>21. CASE ProcessResponse
  <2>1. ioPush \in PushId /\ push[ioPush] # None
    BY <1>21 DEF ProcessResponse
  <2>2. [push[ioPush] EXCEPT !.answers = @ + 1] \in PushRecord
    BY <2>1, PushTypes
  <2>3. push' \in [PushId -> PushRecord \cup {None}] /\ \A p \in PushId : push[p] # None => push'[p] # None
    BY <1>21, <2>1, <2>2 DEF ProcessResponse
  <2>4. QED
    BY <1>21, <2>1, <2>3 DEF ProcessResponse, Close, IoGoto, IoLeave
<1>22. CASE EndDispatch
  BY <1>22 DEF EndDispatch, IoLeave
<1>23. ASSUME NEW m \in Message, Deliver(m) PROVE TypeInv'
  BY <1>23 DEF Deliver
<1>24. ASSUME NEW p \in sent, NEW s \in Answers, Reply(p, s) PROVE TypeInv'
  BY <1>24, <1>23, ServerTypes DEF Reply
<1>25. ASSUME NEW c \in Channel, NEW e \in Event, Publish(c, e) PROVE TypeInv'
  BY <1>25, <1>23, ServerTypes DEF Publish
<1>26. ASSUME NEW c \in Channel, Garble(c) PROVE TypeInv'
  BY <1>26, <1>23, ServerTypes DEF Garble
<1>27. CASE Lose
  BY <1>27 DEF Lose
<1>28. CASE UNCHANGED vars
  BY <1>28 DEF vars
<1> QED
  BY <1>1, <1>2, <1>3, <1>4, <1>5, <1>6, <1>7, <1>8, <1>9, <1>10, <1>11, <1>12,
     <1>13, <1>14, <1>15, <1>16, <1>17, <1>18, <1>19, <1>20, <1>21, <1>22,
     <1>24, <1>25, <1>26, <1>27, <1>28 DEF Next, Io, Server, Call, Begin

\* No push appears, disappears, is answered or changes its channel, ref or kind.
SamePushes ==
  \A p \in PushId :
    /\ push'[p] = None <=> push[p] = None
    /\ push[p] # None => /\ push'[p].chan = push[p].chan
                         /\ push'[p].ref = push[p].ref
                         /\ push'[p].kind = push[p].kind
                         /\ push'[p].answers = push[p].answers

\* A caller that works on such a change moves on and keeps the invariant.
LEMMA SamePushesKeep ==
  ASSUME TypeInv, PushInv, SamePushes, UNCHANGED <<idToPush, ioPush>>,
         \A t \in Thread : pc'[t] = "emplace" => pc[t] = "emplace" /\ cur'[t] = cur[t]
  PROVE  PushInv'
<1>1. TableOK'
  BY NoneAssumption DEF SamePushes, TypeInv, TypeOK, PushInv, TableOK
<1>2. TakenOK'
  BY NoneAssumption DEF SamePushes, TypeInv, TypeOK, IoOK, PushInv, TakenOK
<1>3. ASSUME NEW t \in Thread, pc'[t] = "emplace"
      PROVE  /\ pc[t] = "emplace" /\ cur'[t] = cur[t]
             /\ cur[t] \in PushId /\ push[cur[t]] # None
  BY <1>3 DEF TypeInv, CallsOK
<1>4. DrawnOK'
  BY <1>3 DEF SamePushes, PushInv, DrawnOK
<1>5. AnsweredAtMostOnce'
  BY DEF SamePushes, PushInv, AnsweredAtMostOnce
<1> QED
  BY <1>1, <1>2, <1>4, <1>5 DEF PushInv

\* A push that its caller stores under its channel and ref.
LEMMA StoredKeep ==
  ASSUME TypeInv, PushInv, NEW t \in Thread,
         NEW p, p = cur[t], NEW c \in Channel, c = push[p].chan, NEW r \in Ref, r = push[p].ref,
         p \in PushId, push[p] # None, pc[t] = "emplace",
         idToPush' = [idToPush EXCEPT ![c][r] = p], Goto(t, "receive"),
         push' = push, ioPush' = ioPush
  PROVE  PushInv'
<1>1. \A d \in Channel, x \in Ref :
        idToPush'[d][x] = IF d = c /\ x = r THEN p ELSE idToPush[d][x]
  BY DEF TypeInv, TypeOK
<1>2. push[p].answers = 0 /\ p # ioPush
  BY DEF PushInv, DrawnOK
<1>3. TableOK'
  BY <1>1, <1>2 DEF PushInv, TableOK
<1>4. TakenOK'
  BY <1>1, <1>2 DEF PushInv, TakenOK
<1>5. ASSUME NEW u \in Thread, pc'[u] = "emplace"
      PROVE  u # t /\ pc[u] = "emplace" /\ cur'[u] = cur[u]
  BY <1>5 DEF Goto, TypeInv, TypeOK
<1>6. DrawnOK'
  <2> SUFFICES ASSUME NEW u \in Thread, pc'[u] = "emplace"
               PROVE  /\ push'[cur'[u]].answers = 0
                      /\ cur'[u] # ioPush'
                      /\ \A d \in Channel, x \in Ref : idToPush'[d][x] # cur'[u]
                      /\ \A v \in Thread : pc'[v] = "emplace" /\ cur'[v] = cur'[u] => v = u
    BY DEF DrawnOK
  <2>1. cur[u] # p
    BY <1>5 DEF PushInv, DrawnOK
  <2>2. QED
    BY <1>1, <1>5, <2>1 DEF PushInv, DrawnOK
<1>7. AnsweredAtMostOnce'
  BY DEF PushInv, AnsweredAtMostOnce
<1> QED
  BY <1>3, <1>4, <1>6, <1>7 DEF PushInv

\* The second critical section of channel::push, or its exception.
LEMMA EmplaceStep ==
  ASSUME TypeInv, PushInv, NEW t \in Thread, Emplace(t)
  PROVE  PushInv'
<1>1. /\ cur[t] \in PushId /\ push[cur[t]] # None /\ pc[t] = "emplace"
      /\ push' = push /\ ioPush' = ioPush
  BY DEF Emplace, TypeInv, CallsOK, refVars, appVars, msgVars, ioVars, netVars
<1>2. push[cur[t]].chan \in Channel /\ push[cur[t]].ref \in Ref
  BY <1>1, NoneAssumption DEF TypeInv, TypeOK, PushRecord
<1>3. CASE CanEmplace(push[cur[t]].chan, push[cur[t]].ref)
  <2>1. /\ idToPush' = [idToPush EXCEPT ![push[cur[t]].chan][push[cur[t]].ref] = cur[t]]
        /\ Goto(t, "receive")
    BY <1>3 DEF Emplace
  <2>2. QED
    BY <1>1, <1>2, <2>1, StoredKeep
<1>4. CASE ~CanEmplace(push[cur[t]].chan, push[cur[t]].ref)
  <2>1. idToPush' = idToPush /\ Return(t)
    BY <1>4 DEF Emplace
  <2>2. \A u \in Thread : pc'[u] = "emplace" => pc[u] = "emplace" /\ cur'[u] = cur[u]
    BY <2>1 DEF Return, TypeInv, TypeOK
  <2>3. SamePushes
    BY <1>1 DEF SamePushes
  <2>4. QED
    BY <1>1, <2>1, <2>2, <2>3, SamePushesKeep
<1>5. QED
  BY <1>3, <1>4

\* A change of one push's hooks or timer leaves the rest of its record alone.
LEMMA RecordUpdate ==
  ASSUME NEW x \in PushRecord
  PROVE  /\ \A S : /\ [x EXCEPT !.hooks = S].chan = x.chan
                   /\ [x EXCEPT !.hooks = S].ref = x.ref
                   /\ [x EXCEPT !.hooks = S].kind = x.kind
                   /\ [x EXCEPT !.hooks = S].answers = x.answers
         /\ \A b : /\ [x EXCEPT !.timer = b].chan = x.chan
                   /\ [x EXCEPT !.timer = b].ref = x.ref
                   /\ [x EXCEPT !.timer = b].kind = x.kind
                   /\ [x EXCEPT !.timer = b].answers = x.answers
BY DEF PushRecord

\* A push replaced by one of the same channel, ref, kind and answers.
LEMMA OnePushKeep ==
  ASSUME push \in [PushId -> PushRecord \cup {None}],
         NEW p \in PushId, push[p] # None, NEW v \in PushRecord,
         push' = [push EXCEPT ![p] = v],
         v.chan = push[p].chan, v.ref = push[p].ref, v.kind = push[p].kind,
         v.answers = push[p].answers
  PROVE  SamePushes
<1>1. push'[p] = v /\ \A q \in PushId : q # p => push'[q] = push[q]
  OBVIOUS
<1>2. v # None
  BY NoneAssumption
<1> QED
  BY <1>1, <1>2 DEF SamePushes

\* push::receive changes only the hooks of the caller's push.
LEMMA ReceiveSame ==
  ASSUME TypeInv, NEW t \in Thread, Receive(t)
  PROVE  SamePushes
<1>1. cur[t] \in PushId /\ push[cur[t]] # None
  BY DEF Receive, TypeInv, CallsOK
<1>2. PICK S \in HookSets : push' = [push EXCEPT ![cur[t]].hooks = S]
  BY DEF Receive
<1>3. S \in SUBSET Status
  BY ChannelAssumption
<1> DEFINE v == [push[cur[t]] EXCEPT !.hooks = S]
<1>4. /\ push[cur[t]] \in PushRecord
      /\ v \in PushRecord
  BY <1>1, <1>3, PushTypes DEF TypeInv
<1>5. /\ v.chan = push[cur[t]].chan /\ v.ref = push[cur[t]].ref
      /\ v.kind = push[cur[t]].kind /\ v.answers = push[cur[t]].answers
  BY <1>4, RecordUpdate
<1>6. push' = [push EXCEPT ![cur[t]] = v]
  BY <1>2
<1> HIDE DEF v
<1>7. push \in [PushId -> PushRecord \cup {None}]
  BY DEF TypeInv, TypeOK
<1> QED
  BY <1>1, <1>4, <1>5, <1>6, <1>7, OnePushKeep

\* push::startTimeout changes only the timer of the caller's push.
LEMMA ArmSame ==
  ASSUME TypeInv, NEW t \in Thread, Arm(t)
  PROVE  SamePushes
<1>1. cur[t] \in PushId /\ push[cur[t]] # None
  BY DEF Arm, TypeInv, CallsOK
<1>2. PICK b \in BOOLEAN : push' = [push EXCEPT ![cur[t]].timer = b]
  BY DEF Arm
<1> DEFINE v == [push[cur[t]] EXCEPT !.timer = b]
<1>3. /\ push[cur[t]] \in PushRecord
      /\ v \in PushRecord
  BY <1>1, PushTypes DEF TypeInv
<1>4. /\ v.chan = push[cur[t]].chan /\ v.ref = push[cur[t]].ref
      /\ v.kind = push[cur[t]].kind /\ v.answers = push[cur[t]].answers
  BY <1>3, RecordUpdate
<1>5. push' = [push EXCEPT ![cur[t]] = v]
  BY <1>2
<1> HIDE DEF v
<1>6. push \in [PushId -> PushRecord \cup {None}]
  BY DEF TypeInv, TypeOK
<1> QED
  BY <1>1, <1>3, <1>4, <1>5, <1>6, OnePushKeep

\* A caller that adds hooks or arms the timer keeps the invariant.
LEMMA CallerStep ==
  ASSUME TypeInv, PushInv, NEW t \in Thread, Receive(t) \/ Arm(t)
  PROVE  PushInv'
<1>1. SamePushes
  BY ReceiveSame, ArmSame
<1>2. idToPush' = idToPush /\ ioPush' = ioPush /\ (Goto(t, "send") \/ Return(t))
  BY DEF Receive, Arm, ioVars, msgVars
<1>3. \A u \in Thread : pc'[u] = "emplace" => pc[u] = "emplace" /\ cur'[u] = cur[u]
  BY <1>2 DEF Goto, Return, TypeInv, TypeOK
<1> QED
  BY <1>1, <1>2, <1>3, SamePushesKeep

\* A step keeps every entry of a table, the push taken for a reply and the
\* pushes not stored yet unanswered and apart from each other.  Steps that
\* touch neither pushes nor tables nor what the threads hold are one case.
LEMMA PushStep == TypeInv /\ PushInv /\ [Next]_vars => PushInv'
<1> SUFFICES ASSUME TypeInv, PushInv, [Next]_vars PROVE PushInv'
  OBVIOUS
<1> USE ChannelAssumption, NoneAssumption
<1> USE DEF TypeInv, TypeOK, CallsOK, PushInv, TableOK, TakenOK, DrawnOK,
            AnsweredAtMostOnce, refVars, appVars, msgVars, ioVars, netVars
<1>1. CASE UNCHANGED <<idToPush, push, pc, cur, ioPush>>
  BY <1>1
<1>2. CASE UNCHANGED <<idToPush, push, pc, cur>> /\ ioPush' = None
  BY <1>2
<1>3. ASSUME NEW t \in Thread, NEW c \in Channel, RemoveChannel(t, c) PROVE PushInv'
  BY <1>3 DEF RemoveChannel, EmptyTable
<1>4. ASSUME NEW t \in Thread, NEW c \in Channel, NEW kind \in Kinds, DrawRef(t, c, kind)
      PROVE PushInv'
  <2>1. PICK p \in Unused : /\ push' = [push EXCEPT ![p] = NewPush(c, kind, {})]
                            /\ cur' = [cur EXCEPT ![t] = p]
    BY <1>4 DEF DrawRef
  <2>2. /\ p \in PushId /\ push[p] = None
        /\ NewPush(c, kind, {}).answers = 0
    BY DEF Unused, NewPush
  <2>3. TableOK'
    BY <1>4, <2>1, <2>2 DEF DrawRef
  <2>4. TakenOK'
    BY <1>4, <2>1, <2>2 DEF DrawRef, IoOK
  <2>5. DrawnOK'
    BY <1>4, <2>1, <2>2 DEF DrawRef, IoOK
  <2>6. AnsweredAtMostOnce'
    BY <1>4, <2>1, <2>2 DEF DrawRef
  <2>7. QED
    BY <2>3, <2>4, <2>5, <2>6
<1>5. ASSUME NEW t \in Thread, Emplace(t) PROVE PushInv'
  BY <1>5, EmplaceStep
<1>6. ASSUME NEW t \in Thread, Receive(t) PROVE PushInv'
  BY <1>6, CallerStep
<1>7. ASSUME NEW t \in Thread, Send(t) PROVE PushInv'
  BY <1>7 DEF Send, Goto, Return
<1>8. ASSUME NEW t \in Thread, Arm(t) PROVE PushInv'
  BY <1>8, CallerStep
<1>9. ASSUME NEW t \in Thread, NEW c \in Channel, NEW r \in Ref, OffId(t, c, r)
      PROVE PushInv'
  BY <1>9 DEF OffId, Erase
<1>10. ASSUME NEW c \in Channel, RejoinChannel(c) PROVE PushInv'
  <2>1. PICK p \in Unused :
          /\ push' = [push EXCEPT ![p] = NewPush(c, "rejoin", Status)]
          /\ idToPush' = IF CanEmplace(c, m_ref)
                         THEN [idToPush EXCEPT ![c][m_ref] = p] ELSE idToPush
    BY <1>10 DEF RejoinChannel
  <2>2. /\ p \in PushId /\ push[p] = None
        /\ NewPush(c, "rejoin", Status) \in PushRecord
        /\ NewPush(c, "rejoin", Status).chan = c
        /\ NewPush(c, "rejoin", Status).ref = m_ref
        /\ NewPush(c, "rejoin", Status).answers = 0
    BY PushTypes DEF Unused, NewPush
  <2>3. /\ pc' = pc /\ cur' = cur
        /\ ioPush' \in {ioPush, None}
    BY <1>10 DEF RejoinChannel, IoLeave
  <2>4. \A d \in Channel, x \in Ref :
          idToPush'[d][x] = idToPush[d][x] \/ (d = c /\ x = m_ref /\ idToPush'[d][x] = p)
    BY <2>1
  <2>5. \A q \in PushId : q # p => push'[q] = push[q]
    BY <2>1
  <2>6. push'[p] = NewPush(c, "rejoin", Status)
    BY <2>1, <2>2
  <2>7. TableOK'
    BY <2>2, <2>4, <2>5, <2>6
  <2>8. TakenOK'
    <3>1. ioPush # None => ioPush \in PushId /\ ioPush # p
      BY <2>2 DEF IoOK
    <3>2. TakenOK
      OBVIOUS
    <3> HIDE DEF TypeInv, TypeOK, CallsOK, PushInv, TableOK, DrawnOK
    <3>3. QED
      BY <2>2, <2>3, <2>4, <2>5, <3>1, <3>2
  <2>9. DrawnOK'
    BY <2>2, <2>3, <2>4, <2>5
  <2>10. AnsweredAtMostOnce'
    BY <2>2, <2>5, <2>6
  <2>11. QED
    BY <2>7, <2>8, <2>9, <2>10
<1>11. CASE TakePush
  <2> DEFINE p == IF ioMsg.ref = None THEN None ELSE idToPush[ioChan][ioMsg.ref]
  <2>1. /\ push' = push /\ pc' = pc /\ cur' = cur /\ ioPush' = p
        /\ IF p = None THEN idToPush' = idToPush ELSE idToPush' = Erase(ioChan, ioMsg.ref)
    BY <1>11 DEF TakePush
  <2>2. CASE p = None
    BY <2>1, <2>2
  <2>3. CASE p # None
    <3>1. ioChan \in Channel /\ ioMsg.ref \in Ref /\ p = idToPush[ioChan][ioMsg.ref]
      BY <1>11, <2>3 DEF TakePush, IoOK, Message
    <3>2. \A d \in Channel, x \in Ref :
            idToPush'[d][x] = IF d = ioChan /\ x = ioMsg.ref THEN None ELSE idToPush[d][x]
      BY <2>1, <2>3, <3>1 DEF Erase
    <3> HIDE DEF p
    <3>3. TableOK'
      BY <2>1, <3>2
    <3>4. TakenOK'
      <4>1. p \in PushId /\ push[p].answers = 0
        BY <2>3, <3>1
      <4>2. \A d \in Channel, x \in Ref : idToPush[d][x] = p => d = ioChan /\ x = ioMsg.ref
        BY <2>3, <3>1
      <4> HIDE DEF TypeInv, TypeOK, CallsOK, PushInv, TableOK, DrawnOK
      <4>3. QED
        BY <2>1, <2>3, <3>2, <4>1, <4>2
    <3>5. DrawnOK'
      BY <2>1, <3>1, <3>2
    <3>6. QED
      BY <2>1, <3>3, <3>4, <3>5
  <2>4. QED
    BY <2>2, <2>3
<1>12. CASE ProcessResponse
  BY <1>12 DEF ProcessResponse, PushRecord, IoGoto, IoLeave, IoOK
<1> QED
  BY <1>1, <1>2, <1>3, <1>4, <1>5, <1>6, <1>7, <1>8, <1>9, <1>10, <1>11, <1>12
  DEF Next, Io, Server, Call, Begin, vars, GetChannel, On, Off, OpenHandler,
      RejoinAll, RejoinDone, PublishOpened, Catch, CloseHandler, OnMessage, ProcessMessage,
      InvokeCallback, EndDispatch, IoGoto, IoLeave, Deliver, Reply, Publish,
      Garble, Lose

\* While the I/O thread is not in its critical section it visits no channel,
\* and while it is, no channel leaves the registry.
LEMMA VisitStep ==
  TypeInv /\ LoopsLocked /\ VisitedChannelsLive /\ [Next]_vars
    => (LoopsLocked /\ VisitedChannelsLive)'
<1> SUFFICES ASSUME TypeInv, LoopsLocked, VisitedChannelsLive, [Next]_vars
             PROVE  (LoopsLocked /\ VisitedChannelsLive)'
  OBVIOUS
<1> USE DEF TypeInv, TypeOK, LoopsLocked, VisitedChannelsLive, Locked, RegistryFree,
            refVars, appVars, msgVars, ioVars, netVars, IoGoto, IoLeave
<1>1. CASE UNCHANGED <<registry, ioVars>>
  BY <1>1
<1>2. ASSUME NEW t \in Thread, NEW c \in Channel, GetChannel(t, c) \/ RemoveChannel(t, c)
      PROVE  (LoopsLocked /\ VisitedChannelsLive)'
  BY <1>2 DEF GetChannel, RemoveChannel
<1>3. CASE OpenHandler \/ RejoinAll \/ RejoinDone \/ PublishOpened \/ Catch \/ OnMessage \/ EndDispatch
  BY <1>3 DEF OpenHandler, RejoinAll, RejoinDone, PublishOpened, Catch, OnMessage, EndDispatch
<1>4. ASSUME NEW c \in Channel, RejoinChannel(c) \/ ProcessMessage(c)
      PROVE  (LoopsLocked /\ VisitedChannelsLive)'
  BY <1>4 DEF RejoinChannel, ProcessMessage, Advance
<1>5. ASSUME NEW k \in Callback, InvokeCallback(k)
      PROVE  (LoopsLocked /\ VisitedChannelsLive)'
  BY <1>5 DEF InvokeCallback
<1>6. CASE TakePush \/ ProcessResponse
  BY <1>6 DEF TakePush, ProcessResponse
<1> QED
  BY <1>1, <1>2, <1>3, <1>4, <1>5, <1>6
  DEF Next, Io, Server, Call, Begin, vars, DrawRef, Emplace, Receive, Send, Arm,
      On, Off, OffId, CloseHandler, Deliver, Reply, Publish, Garble, Lose

\* Only the close handler takes the connection away, and only between handlers.
LEMMA LinkStep ==
  TypeInv /\ HandlersHaveLink /\ [Next]_vars => HandlersHaveLink' /\ [TheLink!Next]_(TheLink!vars)
<1> SUFFICES ASSUME TypeInv, HandlersHaveLink, [Next]_vars
             PROVE  HandlersHaveLink' /\ [TheLink!Next]_(TheLink!vars)
  OBVIOUS
<1> USE DEF HandlersHaveLink, TheLink!vars, TheLink!Next, TheLink!Open, TheLink!Lose,
            TheLink!Publish, TheLink!Down, refVars, appVars, msgVars, ioVars, netVars,
            IoGoto, IoLeave
<1>1. CASE UNCHANGED <<ioPc, link, m_state>>
  BY <1>1
<1>2. CASE OpenHandler \/ RejoinAll \/ RejoinDone \/ PublishOpened \/ OnMessage \/ EndDispatch
  BY <1>2 DEF OpenHandler, RejoinAll, RejoinDone, PublishOpened, OnMessage, EndDispatch
<1>3. CASE Catch
  BY <1>3 DEF Catch, CloseCaught, Close
<1>4. CASE CloseHandler \/ Lose
  BY <1>4 DEF CloseHandler, EndState, Lose
<1>5. ASSUME NEW c \in Channel, RejoinChannel(c) \/ ProcessMessage(c)
      PROVE  HandlersHaveLink' /\ [TheLink!Next]_(TheLink!vars)
  BY <1>5 DEF RejoinChannel, ProcessMessage, Advance
<1>6. ASSUME NEW k \in Callback, InvokeCallback(k)
      PROVE  HandlersHaveLink' /\ [TheLink!Next]_(TheLink!vars)
  BY <1>6 DEF InvokeCallback
<1>7. CASE TakePush \/ ProcessResponse
  BY <1>7 DEF TakePush, ProcessResponse, Close
<1> QED
  BY <1>1, <1>2, <1>3, <1>4, <1>5, <1>6, <1>7
  DEF Next, Io, Server, Call, Begin, vars, GetChannel, RemoveChannel, DrawRef, Emplace,
      Receive, Send, Arm, On, Off, OffId, Deliver, Reply, Publish, Garble

\* The invariant holds at the start and is kept by every step.
LEMMA InitInv == Init => IndInv
BY ChannelAssumption, NoneAssumption
DEF Init, IndInv, TypeInv, TypeOK, CallsOK, IoOK, PushInv, TableOK, TakenOK, DrawnOK,
    AnsweredAtMostOnce, LoopsLocked, VisitedChannelsLive, Locked, EmptyTable, Ref,
    HandlersHaveLink

THEOREM Invariance == Spec => []IndInv
<1>1. IndInv /\ [Next]_vars => IndInv'
  BY TypeStep, PushStep, VisitStep, LinkStep DEF IndInv, PushInv
<1> QED
  BY InitInv, <1>1, PTL DEF Spec

\* Every variable keeps its type, whatever the interleaving.
THEOREM TypeCorrect == Spec => []TypeOK
BY Invariance, PTL DEF IndInv, TypeInv

\* However replies are repeated and refs reused, even after m_ref wraps, the
\* hooks of a push run for one message at most.
THEOREM AnsweredOnce == Spec => []AnsweredAtMostOnce
BY Invariance, PTL DEF IndInv, PushInv

\* removeChannel never destroys a channel that on_message or rejoinAllChannels
\* is visiting or has yet to visit.
THEOREM VisitsLive == Spec => []VisitedChannelsLive
BY Invariance, PTL DEF IndInv

\* Only emplace writes an entry, and only where there is none.
LEMMA PendingStep == TypeInv /\ [Next]_vars => KeepsPending
<1> SUFFICES ASSUME TypeInv, [Next]_vars PROVE KeepsPending
  OBVIOUS
<1> USE DEF TypeInv, TypeOK, KeepsPending
<1>1. CASE UNCHANGED idToPush
  BY <1>1
<1>2. ASSUME NEW t \in Thread, NEW c \in Channel, RemoveChannel(t, c) PROVE KeepsPending
  BY <1>2 DEF RemoveChannel, EmptyTable
<1>3. ASSUME NEW t \in Thread, Emplace(t) PROVE KeepsPending
  BY <1>3 DEF Emplace, CanEmplace
<1>4. ASSUME NEW t \in Thread, NEW c \in Channel, NEW r \in Ref, OffId(t, c, r)
      PROVE KeepsPending
  BY <1>4 DEF OffId, Erase
<1>5. ASSUME NEW c \in Channel, RejoinChannel(c) PROVE KeepsPending
  BY <1>5 DEF RejoinChannel, CanEmplace
<1>6. CASE TakePush
  <2>1. idToPush' = idToPush \/ (ioMsg.ref # None /\ idToPush' = Erase(ioChan, ioMsg.ref))
    BY <1>6 DEF TakePush
  <2>2. ioMsg.ref # None => ioMsg.ref \in Ref /\ ioChan \in Channel
    BY <1>6 DEF TakePush, IoOK, Message
  <2>3. QED
    BY <2>1, <2>2 DEF Erase
<1> QED
  BY <1>1, <1>2, <1>3, <1>4, <1>5, <1>6
  DEF Next, Io, Server, Call, Begin, vars, GetChannel, DrawRef, Receive, Send, Arm,
      On, Off, OpenHandler, RejoinAll, RejoinDone, PublishOpened, Catch, CloseHandler, OnMessage,
      ProcessMessage, InvokeCallback, ProcessResponse, EndDispatch, Deliver, Reply,
      Publish, Garble, Lose

\* A waiting push is never displaced by another with the same ref, at whatever
\* point m_ref wraps: channel::push throws instead.
THEOREM NeverReplaced == Spec => PendingNeverReplaced
<1>1. IndInv /\ [Next]_vars => [KeepsPending]_vars
  BY PendingStep DEF IndInv
<1> QED
  BY <1>1, Invariance, PTL DEF Spec, PendingNeverReplaced

\* OPENED is published, and taken back, only as Link allows: never once the
\* close handler has run, whatever thread or message ends the connection.
THEOREM LinkImplemented == Spec => ImplementsLink
<1>1. Init => TheLink!Init
  BY DEF Init, TheLink!Init
<1>2. IndInv /\ [Next]_vars => [TheLink!Next]_(TheLink!vars)
  BY LinkStep DEF IndInv
<1> QED
  BY <1>1, <1>2, Invariance, PTL DEF Spec, ImplementsLink, TheLink!Spec

-----------------------------------------------------------------------------
(* Which push a reply reaches, what the callers of channel::push may rely on, *)
(* and that a push lives the life PushLifecycle promises.  Most holds for as  *)
(* long as m_ref has not wrapped, that is for MaxRef < RefMod.                *)


\* A push keeps its channel, ref and kind for ever.
SameIdentity ==
  \A p \in PushId : push[p] # None =>
    /\ push'[p] # None
    /\ push'[p].chan = push[p].chan
    /\ push'[p].ref = push[p].ref
    /\ push'[p].kind = push[p].kind

\* At most one push is constructed, with the ref that m_ref has.
Born(p) == push[p] = None /\ push'[p] # None
Births ==
  /\ \A p \in PushId : Born(p) => push'[p].ref = m_ref
  /\ \A p, q \in PushId : Born(p) /\ Born(q) => p = q
  /\ \/ m_ref' = m_ref /\ \A p \in PushId : ~Born(p)
     \/ m_ref < MaxRef /\ m_ref' = NextRef(m_ref)

\* A push newly constructed in the place of an unused one.
LEMMA NewPushStep ==
  ASSUME TypeInv, NEW p \in Unused, NEW v \in PushRecord,
         push' = [push EXCEPT ![p] = v], v.ref = m_ref,
         m_ref < MaxRef, m_ref' = NextRef(m_ref)
  PROVE  SameIdentity /\ Births
<1>1. p \in PushId /\ push[p] = None
  BY DEF Unused
<1>2. push'[p] = v /\ \A q \in PushId : q # p => push'[q] = push[q]
  BY <1>1 DEF TypeInv, TypeOK
<1> QED
  BY <1>1, <1>2 DEF SameIdentity, Births, Born

\* What a step may do to the pushes and the counter.
LEMMA IdentityStep == TypeInv /\ [Next]_vars => SameIdentity /\ Births
<1> SUFFICES ASSUME TypeInv, [Next]_vars PROVE SameIdentity /\ Births
  OBVIOUS
<1>1. CASE UNCHANGED <<push, m_ref>>
  BY <1>1 DEF SameIdentity, Births, Born
<1>2. CASE UNCHANGED m_ref /\ SamePushes
  BY <1>2 DEF SamePushes, SameIdentity, Births, Born
<1>3. ASSUME NEW t \in Thread, NEW c \in Channel, GetChannel(t, c)
      PROVE  SameIdentity /\ Births
  BY <1>3 DEF GetChannel, SameIdentity, Births, Born
<1>4. ASSUME NEW t \in Thread, NEW c \in Channel, NEW kind \in Kinds, DrawRef(t, c, kind)
      PROVE  SameIdentity /\ Births
  <2>1. PICK p \in Unused : push' = [push EXCEPT ![p] = NewPush(c, kind, {})]
    BY <1>4 DEF DrawRef
  <2>2. NewPush(c, kind, {}) \in PushRecord /\ NewPush(c, kind, {}).ref = m_ref
    BY ChannelAssumption, PushTypes DEF NewPush, TypeInv
  <2>3. QED
    BY <1>4, <2>1, <2>2, NewPushStep DEF DrawRef
<1>5. ASSUME NEW c \in Channel, RejoinChannel(c) PROVE SameIdentity /\ Births
  <2>1. PICK p \in Unused : push' = [push EXCEPT ![p] = NewPush(c, "rejoin", Status)]
    BY <1>5 DEF RejoinChannel
  <2>2. NewPush(c, "rejoin", Status) \in PushRecord /\ NewPush(c, "rejoin", Status).ref = m_ref
    BY PushTypes DEF NewPush, TypeInv
  <2>3. QED
    BY <1>5, <2>1, <2>2, NewPushStep DEF RejoinChannel
<1>6. ASSUME NEW t \in Thread, Receive(t) \/ Arm(t) PROVE SameIdentity /\ Births
  BY <1>2, <1>6, ReceiveSame, ArmSame DEF Receive, Arm, refVars
<1>7. CASE ProcessResponse
  <2>1. /\ ioPush \in PushId /\ push[ioPush] \in PushRecord /\ m_ref' = m_ref
        /\ push \in [PushId -> PushRecord \cup {None}]
    BY <1>7 DEF ProcessResponse, TypeInv, TypeOK, IoOK, refVars
  <2>2. push' = push \/ push' = [push EXCEPT ![ioPush].answers = @ + 1]
    BY <1>7 DEF ProcessResponse
  <2>3. QED
    BY <2>1, <2>2, NoneAssumption DEF PushRecord, SameIdentity, Births, Born
<1> QED
  BY <1>1, <1>3, <1>4, <1>5, <1>6, <1>7
  DEF Next, Io, Server, Call, Begin, vars, refVars, RemoveChannel, Emplace, Send,
      On, Off, OffId, OpenHandler, RejoinAll, RejoinDone, PublishOpened, Catch, CloseHandler,
      OnMessage, ProcessMessage, InvokeCallback, TakePush, EndDispatch, Deliver,
      Reply, Publish, Garble, Lose

\* While m_ref has not wrapped, getRef gives the same ref to nobody else.
LEMMA RefsStep ==
  ASSUME MaxRef < RefMod, TypeInv, RefsOK, [Next]_vars
  PROVE  RefsOK'
<1>1. SameIdentity /\ Births
  BY IdentityStep
<1>2. m_ref \in Nat /\ MaxRef \in Nat /\ RefMod \in Nat
  BY ChannelAssumption DEF TypeInv, TypeOK, Ref
<1>3. m_ref' = m_ref \/ (m_ref < MaxRef /\ m_ref' = m_ref + 1)
  BY <1>1, <1>2 DEF Births, NextRef, RefsOK
<1>4. ASSUME NEW p \in PushId, push[p] # None PROVE push[p].ref \in Nat
  BY <1>4 DEF TypeInv, TypeOK, PushRecord, Ref
<1>5. m_ref' <= MaxRef
  BY <1>2, <1>3 DEF RefsOK
<1>6. ASSUME NEW p \in PushId, push'[p] # None PROVE push'[p].ref < m_ref'
  <2>1. CASE push[p] # None
    BY <1>1, <1>2, <1>3, <1>4, <2>1 DEF SameIdentity, RefsOK
  <2>2. CASE push[p] = None
    BY <1>1, <1>2, <1>3, <1>6, <2>2 DEF Births, Born, NextRef
  <2>3. QED
    BY <2>1, <2>2
<1>7. ASSUME NEW p \in PushId, NEW q \in PushId, push'[p] # None, push'[q] # None,
             push'[p].ref = push'[q].ref
      PROVE  p = q
  <2>1. \A x \in PushId : push[x] # None => push'[x].ref < m_ref
    BY <1>1 DEF SameIdentity, RefsOK
  <2>2. \A x \in PushId : push[x] = None /\ push'[x] # None => push'[x].ref = m_ref
    BY <1>1 DEF Births, Born
  <2>3. CASE push[p] # None /\ push[q] # None
    BY <1>1, <1>7, <2>3 DEF SameIdentity, RefsOK
  <2>4. CASE push[p] = None /\ push[q] = None
    BY <1>1, <1>7, <2>4 DEF Births, Born
  <2>5. QED
    BY <1>2, <1>7, <2>1, <2>2, <2>3, <2>4
<1> QED
  BY <1>5, <1>6, <1>7 DEF RefsOK

\* A reply stays one to its push until the connection is closed.
LEMMA ReplyKept ==
  ASSUME TypeInv, SameIdentity, sent \subseteq sent', NEW m \in Message, ReplyOK(m)
  PROVE  /\ m.ref # None => m.to # None
         /\ m.to # None => m.to \in sent' /\ m.ref = push'[m.to].ref
BY DEF TypeInv, TypeOK, IoOK, SameIdentity, ReplyOK

\* So do all that are on their way, when none arrives.
LEMMA MessagesKept ==
  ASSUME TypeInv, MessagesOK, SameIdentity, sent \subseteq sent', inbox' = inbox,
         ioMsg' = None \/ (ioMsg' = ioMsg /\ ioPc' \in {"dispatch", "callbacks", "respond"}),
         ioPush' # None => ioPc' = "respond"
  PROVE  MessagesOK'
<1>1. ASSUME NEW i \in DOMAIN inbox' PROVE ReplyOK(inbox[i])'
  <2>1. inbox'[i] = inbox[i] /\ inbox[i] \in Message /\ ReplyOK(inbox[i])
    BY DEF TypeInv, TypeOK, MessagesOK
  <2>2. QED
    BY <2>1, ReplyKept DEF ReplyOK
<1>2. ioMsg' # None => ReplyOK(ioMsg)'
  <2> SUFFICES ASSUME ioMsg' # None PROVE ReplyOK(ioMsg)'
    OBVIOUS
  <2>1. ioMsg' = ioMsg /\ ioMsg \in Message /\ ReplyOK(ioMsg)
    BY DEF TypeInv, TypeOK, MessagesOK
  <2>2. QED
    BY <2>1, ReplyKept DEF ReplyOK
<1> QED
  BY <1>1, <1>2 DEF MessagesOK

\* The server answers under the ref of a push it has been sent.
LEMMA DeliverStep ==
  ASSUME TypeInv, MessagesOK, NEW m \in Message, Deliver(m), ReplyOK(m)
  PROVE  MessagesOK'
<1>1. UNCHANGED <<push, sent, ioPc, ioMsg, ioPush>> /\ inbox' = Append(inbox, m)
  BY DEF Deliver, ioVars, msgVars
<1>2. inbox \in Seq(Message)
  BY DEF TypeInv, TypeOK
<1>3. ASSUME NEW i \in DOMAIN inbox' PROVE ReplyOK(inbox'[i])
  BY <1>1, <1>2 DEF MessagesOK
<1> QED
  BY <1>1, <1>3 DEF MessagesOK, ReplyOK

\* on_message takes the first message out of the inbox.
LEMMA OnMessageStep ==
  ASSUME TypeInv, MessagesOK, OnMessage
  PROVE  MessagesOK'
<1>1. /\ UNCHANGED <<push, sent>> /\ inbox' = Tail(inbox)
      /\ inbox \in Seq(Message) /\ inbox # <<>>
      /\ ioPush' = None
      /\ \/ ioMsg' = None
         \/ ioMsg' = Head(inbox) /\ ioPc' = "dispatch"
  BY DEF OnMessage, IoLeave, IoGoto, MessagesOK, TypeInv, TypeOK
<1>2. ASSUME NEW i \in DOMAIN inbox' PROVE ReplyOK(inbox'[i])
  <2>1. i + 1 \in DOMAIN inbox /\ inbox'[i] = inbox[i + 1]
    BY <1>1
  <2>2. QED
    BY <2>1 DEF MessagesOK
<1>3. 1 \in DOMAIN inbox /\ Head(inbox) = inbox[1]
  BY <1>1
<1>4. ReplyOK(Head(inbox))
  BY <1>3 DEF MessagesOK
<1> QED
  BY <1>1, <1>2, <1>4 DEF MessagesOK, ReplyOK

\* Every step keeps the replies with their pushes.
LEMMA MessagesStep ==
  ASSUME TypeInv, MessagesOK, [Next]_vars
  PROVE  MessagesOK'
<1>1. SameIdentity
  BY IdentityStep
<1> USE DEF refVars, appVars, msgVars, ioVars, netVars
<1>2. CASE UNCHANGED <<ioVars, inbox>> /\ sent \subseteq sent'
  BY <1>1, <1>2, MessagesKept DEF MessagesOK
<1>3. CASE UNCHANGED <<inbox, sent>> /\ ioMsg' = None /\ ioPush' = None
  BY <1>1, <1>3, MessagesKept
<1>4. CASE OpenHandler \/ RejoinAll \/ PublishOpened \/ Catch
  BY <1>3, <1>4 DEF OpenHandler, RejoinAll, PublishOpened, Catch, MessagesOK
<1>5. CASE CloseHandler
  BY <1>5 DEF CloseHandler, MessagesOK
<1>6. ASSUME NEW c \in Channel, RejoinChannel(c) PROVE MessagesOK'
  <2>1. sent \subseteq sent' /\ inbox' = inbox /\ ioMsg' = None /\ ioPush' = None
    BY <1>6 DEF RejoinChannel, IoLeave, MessagesOK
  <2>2. QED
    BY <1>1, <2>1, MessagesKept
<1>7. ASSUME NEW c \in Channel, ProcessMessage(c) PROVE MessagesOK'
  BY <1>1, <1>7, MessagesKept DEF ProcessMessage, IoGoto, MessagesOK
<1>8. ASSUME NEW k \in Callback, InvokeCallback(k) PROVE MessagesOK'
  BY <1>1, <1>8, MessagesKept DEF InvokeCallback, IoLeave, MessagesOK
<1>9. CASE TakePush
  BY <1>1, <1>9, MessagesKept DEF TakePush, IoGoto, MessagesOK
<1>10. CASE ProcessResponse
  BY <1>1, <1>10, MessagesKept DEF ProcessResponse, IoGoto, IoLeave, MessagesOK
<1>11. CASE RejoinDone \/ EndDispatch
  BY <1>3, <1>11 DEF RejoinDone, EndDispatch, IoLeave
<1>12. ASSUME NEW p \in sent, NEW s \in Answers, Reply(p, s) PROVE MessagesOK'
  <2>1. PICK w \in JoinRefs :
          Deliver([topic |-> Topic[push[p].chan], event |-> "phx_reply", ref |-> push[p].ref,
                   joinRef |-> IF w THEN joinRef[push[p].chan] ELSE None,
                   status |-> s, to |-> p])
    BY <1>12 DEF Reply
  <2> DEFINE m == [topic |-> Topic[push[p].chan], event |-> "phx_reply", ref |-> push[p].ref,
                   joinRef |-> IF w THEN joinRef[push[p].chan] ELSE None,
                   status |-> s, to |-> p]
  <2>2. m \in Message
    BY ServerTypes
  <2>3. ReplyOK(m)
    BY ChannelAssumption DEF ReplyOK, TypeInv, TypeOK
  <2>4. Deliver(m)
    BY <2>1
  <2> HIDE DEF m
  <2>5. QED
    BY <2>2, <2>3, <2>4, DeliverStep
<1>13. ASSUME NEW c \in Channel, NEW e \in Event, Publish(c, e) PROVE MessagesOK'
  BY <1>13, ServerTypes, DeliverStep DEF Publish, ReplyOK
<1>14. ASSUME NEW c \in Channel, Garble(c) PROVE MessagesOK'
  BY <1>14, ServerTypes, DeliverStep DEF Garble, ReplyOK
<1> QED
  BY <1>2, <1>4, <1>5, <1>6, <1>7, <1>8, <1>9, <1>10, <1>11, <1>12, <1>13, <1>14,
     OnMessageStep
  DEF Next, Io, Server, Call, Begin, vars, GetChannel, RemoveChannel, DrawRef, Emplace,
      Receive, Send, Arm, On, Off, OffId, Lose

\* A thread that begins a call works on a push just constructed; one that goes
\* on keeps its push; and only a caller that has stored its push sends it.
LEMMA CallersApartStep ==
  ASSUME TypeInv, CallersApart, [Next]_vars
  PROVE  CallersApart'
<1> USE ChannelAssumption, NoneAssumption
<1> USE DEF TypeInv, TypeOK, CallsOK, IoOK, CallersApart, refVars, appVars, msgVars,
            ioVars, netVars
<1>1. CASE UNCHANGED <<pc, cur>> /\ sent' \subseteq sent
  BY <1>1
<1>2. ASSUME NEW t \in Thread, NEW c \in Channel, NEW kind \in Kinds, DrawRef(t, c, kind)
      PROVE  CallersApart'
  <2>1. PICK p \in Unused : cur' = [cur EXCEPT ![t] = p]
    BY <1>2 DEF DrawRef
  <2>2. pc' = [pc EXCEPT ![t] = "emplace"] /\ sent' = sent
    BY <1>2 DEF DrawRef
  <2>3. p \notin sent /\ \A u \in Thread : pc[u] # "idle" => cur[u] # p
    BY DEF Unused
  <2>4. QED
    BY <2>1, <2>2, <2>3
<1>3. ASSUME NEW t \in Thread, Emplace(t) \/ Receive(t) \/ Arm(t) PROVE CallersApart'
  BY <1>3 DEF Emplace, Receive, Arm, Goto, Return
<1>4. ASSUME NEW t \in Thread, Send(t) PROVE CallersApart'
  BY <1>4 DEF Send, Goto, Return
<1>5. ASSUME NEW c \in Channel, RejoinChannel(c) PROVE CallersApart'
  BY <1>5 DEF RejoinChannel, Unused
<1> QED
  BY <1>1, <1>2, <1>3, <1>4, <1>5
  DEF Next, Io, Server, Call, Begin, vars, GetChannel, RemoveChannel, On, Off, OffId,
      OpenHandler, RejoinAll, RejoinDone, PublishOpened, Catch, CloseHandler, OnMessage, ProcessMessage,
      InvokeCallback, TakePush, ProcessResponse, EndDispatch, Deliver, Reply, Publish,
      Garble, Lose

\* The push that processMessage takes is the one the message answers.
LEMMA TakenIsAnswered ==
  ASSUME TypeInv, TableOK, RefsOK, MessagesOK, TakePush, ioPush' # None
  PROVE  /\ ioPush' = ioMsg.to /\ ioMsg.to \in sent
         /\ idToPush[ioChan][ioMsg.ref] = ioMsg.to
         /\ idToPush' = Erase(ioChan, ioMsg.ref)
         /\ ioChan \in Channel /\ ioMsg.ref \in Ref
<1> DEFINE p == idToPush[ioChan][ioMsg.ref]
<1>1. ioMsg.ref # None /\ ioPush' = p /\ idToPush' = Erase(ioChan, ioMsg.ref)
  BY DEF TakePush
<1>2. ioMsg \in Message /\ ioMsg # None /\ ioMsg.ref \in Ref /\ ioChan \in Channel
  BY <1>1 DEF TakePush, TypeInv, TypeOK, IoOK, Message
<1>3. p \in PushId /\ push[p] # None /\ push[p].ref = ioMsg.ref
  BY <1>1, <1>2 DEF TypeInv, TypeOK, TableOK
<1>4. ioMsg.to # None /\ ioMsg.to \in sent /\ push[ioMsg.to].ref = ioMsg.ref
  BY <1>1, <1>2 DEF MessagesOK, ReplyOK
<1>5. ioMsg.to \in PushId /\ push[ioMsg.to] # None
  BY <1>4 DEF TypeInv, TypeOK, IoOK
<1>6. p = ioMsg.to
  BY <1>3, <1>4, <1>5 DEF RefsOK
<1> QED
  BY <1>1, <1>2, <1>4, <1>6

\* processMessage looks at no other message before it has answered the push.
LEMMA ReachesStep ==
  ASSUME TypeInv, TableOK, RefsOK, MessagesOK, ReplyReachesItsPush, [Next]_vars
  PROVE  ReplyReachesItsPush'
<1> USE DEF ReplyReachesItsPush, refVars, appVars, msgVars, ioVars, netVars, IoGoto, IoLeave
<1>1. CASE UNCHANGED ioVars
  BY <1>1
<1>2. CASE ioPc' # "respond"
  BY <1>2
<1>3. CASE TakePush
  <2>1. ioMsg' = ioMsg /\ (ioPush' = None => ioPc' = "dispatch")
    BY <1>3 DEF TakePush
  <2>2. QED
    BY <1>3, <2>1, TakenIsAnswered
<1> QED
  BY <1>1, <1>2, <1>3
  DEF Next, Io, Server, Call, Begin, vars, GetChannel, RemoveChannel, DrawRef, Emplace,
      Receive, Send, Arm, On, Off, OffId, OpenHandler, RejoinAll, RejoinChannel,
      RejoinDone, PublishOpened, Catch, CloseHandler, OnMessage, ProcessMessage, InvokeCallback,
      ProcessResponse, EndDispatch, Deliver, Reply, Publish, Garble, Lose

\* The invariant for as long as m_ref has not wrapped.
THEOREM ReplyInvariance ==
  ASSUME MaxRef < RefMod PROVE Spec => []ReplyInv
<1>1. Init => ReplyInv
  BY ChannelAssumption
  DEF Init, ReplyInv, RefsOK, MessagesOK, CallersApart, ReplyReachesItsPush
<1>2. IndInv /\ ReplyInv /\ [Next]_vars => ReplyInv'
  BY RefsStep, MessagesStep, CallersApartStep, ReachesStep DEF IndInv, PushInv, ReplyInv
<1> QED
  BY <1>1, <1>2, Invariance, PTL DEF Spec

\* A reply reaches the push it answers, however many channels share its topic,
\* whatever threads draw refs at the same time, and however often the
\* connection is lost between the push and the reply.
THEOREM ReplyReaches ==
  ASSUME MaxRef < RefMod PROVE Spec => []ReplyReachesItsPush
BY ReplyInvariance, PTL DEF ReplyInv

\* A push in its table stays there unless the step clears its entry.
LEMMA StaysInTable ==
  ASSUME TypeInv, SameIdentity, NEW p \in PushId, InTable(p),
         idToPush'[push[p].chan][push[p].ref] = idToPush[push[p].chan][push[p].ref]
  PROVE  InTable(p)'
BY DEF InTable, SameIdentity

\* Emplace puts the push there: no other push has drawn the same ref.
LEMMA EmplaceStores ==
  ASSUME TypeInv, TableOK, RefsOK, DrawnOK, NEW t \in Thread, Emplace(t)
  PROVE  InTable(cur[t])' /\ Goto(t, "receive")
<1> DEFINE p == cur[t]
<1>1. p \in PushId /\ push[p] # None /\ push[p] \in PushRecord /\ push' = push
  BY DEF Emplace, TypeInv, TypeOK, CallsOK
<1>2. push[p].chan \in Channel /\ push[p].ref \in Ref
  BY <1>1 DEF PushRecord
<1>3. CanEmplace(push[p].chan, push[p].ref)
  <2>1. idToPush[push[p].chan][push[p].ref] \in PushId \cup {None}
    BY <1>2 DEF TypeInv, TypeOK
  <2>2. idToPush[push[p].chan][push[p].ref] # p
    BY <1>2 DEF Emplace, DrawnOK
  <2>3. QED
    BY <1>1, <1>2, <2>1, <2>2 DEF CanEmplace, TableOK, RefsOK
<1>4. idToPush' = [idToPush EXCEPT ![push[p].chan][push[p].ref] = p] /\ Goto(t, "receive")
  BY <1>3 DEF Emplace
<1>5. idToPush'[push[p].chan][push[p].ref] = p
  BY <1>2, <1>4 DEF TypeInv, TypeOK
<1> QED
  BY <1>1, <1>4, <1>5, NoneAssumption, ChannelAssumption DEF InTable, Goto

\* What CallersOK says of one caller.
CallerOK(t) ==
  pc[t] # "idle" =>
    /\ pc[t] # "arm"
    /\ cur[t] \notin sent
    /\ pc[t] # "emplace" => InTable(cur[t])

\* A caller that does not move is fine while nobody sends its push or clears
\* the entry of its push.
LEMMA CallerWaits ==
  ASSUME TypeInv, SameIdentity, NEW t \in Thread, CallerOK(t), UNCHANGED <<pc[t], cur[t]>>,
         pc[t] # "idle" =>
           /\ cur[t] \in sent' => cur[t] \in sent
           /\ InTable(cur[t]) =>
                idToPush'[push[cur[t]].chan][push[cur[t]].ref]
                  = idToPush[push[cur[t]].chan][push[cur[t]].ref]
  PROVE  CallerOK(t)'
<1> SUFFICES ASSUME pc[t] # "idle" PROVE CallerOK(t)'
  BY DEF CallerOK
<1>1. cur[t] \in PushId
  BY DEF TypeInv, CallsOK
<1>2. InTable(cur[t]) => InTable(cur[t])'
  BY <1>1, StaysInTable DEF InTable
<1> QED
  BY <1>2 DEF CallerOK

\* The steps of the application threads keep every caller's push in place.
LEMMA CallersStepThread ==
  ASSUME MaxRef < RefMod, Timeouts \subseteq {FALSE}, IndInv, ReplyInv, CallersOK,
         SameIdentity, NEW t \in Thread, Call(t) \/ Begin(t), NEW u \in Thread
  PROVE  CallerOK(u)'
<1> USE DEF refVars, appVars, msgVars, ioVars, netVars
<1>1. CallerOK(u) /\ TypeInv
  BY DEF CallersOK, CallerOK, IndInv
<1>2. pc \in [Thread -> {"idle", "emplace", "receive", "send", "arm"}] /\ cur \in [Thread -> PushId \cup {None}]
  BY <1>1 DEF TypeInv, TypeOK
<1>3. ASSUME UNCHANGED <<pc, cur, sent>>, UNCHANGED idToPush \/ pc[u] = "idle"
      PROVE  CallerOK(u)'
  BY <1>1, <1>3, CallerWaits DEF CallerOK
<1>4. ASSUME NEW c \in Channel, NEW kind \in Kinds, DrawRef(t, c, kind) PROVE CallerOK(u)'
  <2>1. PICK p \in Unused : cur' = [cur EXCEPT ![t] = p]
    BY <1>4 DEF DrawRef
  <2>2. p \notin sent /\ pc' = [pc EXCEPT ![t] = "emplace"] /\ sent' = sent /\ idToPush' = idToPush
    BY <1>1, <1>4, NoneAssumption DEF DrawRef, Unused, TypeInv, IoOK
  <2>3. CASE u = t
    BY <1>2, <2>1, <2>2, <2>3 DEF CallerOK
  <2>4. CASE u # t
    BY <1>1, <1>2, <2>1, <2>2, <2>4, CallerWaits
  <2>5. QED
    BY <2>3, <2>4
<1>5. ASSUME Emplace(t) PROVE CallerOK(u)'
  <2>1. InTable(cur[t])' /\ Goto(t, "receive") /\ sent' = sent /\ pc[t] = "emplace"
    BY <1>5, EmplaceStores DEF Emplace, IndInv, PushInv, ReplyInv
  <2>2. CASE u = t
    <3>1. pc'[u] = "receive" /\ cur'[u] = cur[t] /\ cur[t] \notin sent
      BY <1>2, <2>1, <2>2 DEF Goto, ReplyInv, CallersApart
    <3>2. QED
      BY <2>1, <2>2, <3>1 DEF CallerOK
  <2>3. CASE u # t
    <3>1. UNCHANGED <<pc[u], cur[u]>>
      BY <1>2, <2>1, <2>3 DEF Goto
    <3>2. \A d \in Channel, x \in Ref : idToPush[d][x] # None => idToPush'[d][x] = idToPush[d][x]
      BY <1>1, <1>5 DEF Emplace, CanEmplace, TypeInv, TypeOK
    <3>3. ASSUME pc[u] # "idle", InTable(cur[u])
          PROVE  idToPush'[push[cur[u]].chan][push[cur[u]].ref]
                   = idToPush[push[cur[u]].chan][push[cur[u]].ref]
      BY <1>1, <3>2, <3>3, ChannelAssumption DEF InTable, TypeInv, TypeOK, CallsOK, PushRecord
    <3>4. QED
      BY <1>1, <2>1, <3>1, <3>3, CallerWaits
  <2>4. QED
    BY <2>2, <2>3
<1>6. ASSUME Receive(t) PROVE CallerOK(u)'
  <2>1. Goto(t, "send") /\ sent' = sent /\ idToPush' = idToPush /\ pc[t] = "receive"
    BY <1>6 DEF Receive
  <2>2. CASE u = t
    <3>1. pc'[u] = "send" /\ cur'[u] = cur[u] /\ cur[u] \notin sent /\ InTable(cur[u])
          /\ cur[u] \in PushId
      BY <1>1, <1>2, <2>1, <2>2 DEF Goto, CallerOK, TypeInv, CallsOK
    <3>2. InTable(cur[u])'
      BY <1>1, <2>1, <3>1, StaysInTable DEF InTable
    <3>3. QED
      BY <2>1, <3>1, <3>2 DEF CallerOK
  <2>3. CASE u # t
    <3>1. UNCHANGED <<pc[u], cur[u]>>
      BY <1>2, <2>1, <2>3 DEF Goto
    <3>2. QED
      BY <1>1, <2>1, <3>1, CallerWaits
  <2>4. QED
    BY <2>2, <2>3
<1>7. ASSUME Send(t) PROVE CallerOK(u)'
  <2>1. Return(t) /\ idToPush' = idToPush /\ sent' \subseteq sent \cup {cur[t]} /\ pc[t] = "send"
    BY <1>7 DEF Send
  <2>2. CASE u = t
    BY <1>2, <2>1, <2>2 DEF Return, CallerOK
  <2>3. CASE u # t
    <3>1. UNCHANGED <<pc[u], cur[u]>>
      BY <1>2, <2>1, <2>3 DEF Return
    <3>2. pc[u] # "idle" => cur[u] # cur[t]
      BY <2>1, <2>3 DEF ReplyInv, CallersApart
    <3>3. QED
      BY <1>1, <2>1, <3>1, <3>2, CallerWaits
  <2>4. QED
    BY <2>2, <2>3
<1>8. ASSUME Arm(t) PROVE CallerOK(u)'
  BY <1>8 DEF Arm, CallersOK
<1>9. ASSUME NEW c \in Channel, RemoveChannel(t, c) PROVE CallerOK(u)'
  <2>1. \A d \in Channel : (pc[u] # "idle" => push[cur[u]].chan # d) \/ idToPush'[d] = idToPush[d]
    BY <1>9 DEF RemoveChannel
  <2>2. UNCHANGED <<pc, cur, sent>>
    BY <1>9 DEF RemoveChannel
  <2>3. pc[u] # "idle" => push[cur[u]].chan \in Channel
    BY <1>1, ChannelAssumption DEF TypeInv, TypeOK, CallsOK, PushRecord
  <2>4. QED
    BY <1>1, <2>1, <2>2, <2>3, CallerWaits
<1>10. ASSUME NEW c \in Channel, NEW r \in Ref, OffId(t, c, r) PROVE CallerOK(u)'
  <2>1. UNCHANGED <<pc, cur, sent>> /\ idToPush' = Erase(c, r)
    BY <1>10 DEF OffId
  <2>2. ASSUME pc[u] # "idle", InTable(cur[u])
        PROVE  idToPush'[push[cur[u]].chan][push[cur[u]].ref]
                 = idToPush[push[cur[u]].chan][push[cur[u]].ref]
    <3>1. ~(push[cur[u]].chan = c /\ push[cur[u]].ref = r)
      BY <1>10, <2>2 DEF OffId, InTable
    <3>2. push[cur[u]].chan \in Channel /\ push[cur[u]].ref \in Ref
      BY <1>1, <2>2, ChannelAssumption DEF TypeInv, TypeOK, CallsOK, PushRecord
    <3>3. QED
      BY <1>1, <2>1, <3>1, <3>2 DEF Erase, TypeInv, TypeOK
  <2>3. QED
    BY <1>1, <2>1, <2>2, CallerWaits
<1> QED
  BY <1>3, <1>4, <1>5, <1>6, <1>7, <1>8, <1>9, <1>10
  DEF Call, Begin, GetChannel, On, Off

\* The I/O thread takes only pushes that are sent, and these have no caller.
LEMMA CallersStepIo ==
  ASSUME IndInv, ReplyInv, CallersOK, SameIdentity, Io \/ OpenHandler \/ Server,
         NEW u \in Thread
  PROVE  CallerOK(u)'
<1> USE DEF refVars, appVars, msgVars, ioVars, netVars
<1>1. CallerOK(u) /\ TypeInv
  BY DEF CallersOK, CallerOK, IndInv
<1>2. UNCHANGED <<pc, cur>>
  BY DEF Io, Server, OpenHandler, RejoinAll, RejoinDone, PublishOpened, Catch, CloseHandler, OnMessage,
         TakePush, ProcessResponse, EndDispatch, RejoinChannel, ProcessMessage,
         InvokeCallback, Reply, Deliver, Garble, Publish, Lose
<1>3. CASE idToPush' = idToPush /\ sent' \subseteq sent
  BY <1>1, <1>2, <1>3, CallerWaits
<1>4. ASSUME NEW c \in Channel, RejoinChannel(c) PROVE CallerOK(u)'
  <2>1. PICK p \in Unused :
          /\ sent' \subseteq sent \cup {p}
          /\ idToPush' \in {idToPush, [idToPush EXCEPT ![c][m_ref] = p]}
          /\ ~CanEmplace(c, m_ref) => idToPush' = idToPush
    BY <1>4 DEF RejoinChannel
  <2>2. pc[u] # "idle" => cur[u] # p
    BY <1>1 DEF Unused, TypeInv, CallsOK
  <2>3. ASSUME pc[u] # "idle", InTable(cur[u])
        PROVE  idToPush'[push[cur[u]].chan][push[cur[u]].ref]
                 = idToPush[push[cur[u]].chan][push[cur[u]].ref]
    <3> DEFINE d == push[cur[u]].chan
               x == push[cur[u]].ref
    <3>1. d \in Channel /\ x \in Ref
      BY <1>1, <2>3, ChannelAssumption DEF TypeInv, TypeOK, CallsOK, PushRecord
    <3>2. idToPush[d][x] # None
      BY <1>1, <2>3, ChannelAssumption DEF InTable, TypeInv, TypeOK, CallsOK
    <3>3. CanEmplace(c, m_ref) => ~(c = d /\ m_ref = x)
      BY <3>2 DEF CanEmplace
    <3>4. idToPush \in [Channel -> [Ref -> PushId \cup {None}]]
      BY <1>1 DEF TypeInv, TypeOK
    <3> HIDE DEF d, x
    <3>5. idToPush'[d][x] = idToPush[d][x]
      BY <2>1, <3>1, <3>3, <3>4
    <3>6. QED
      BY <3>5 DEF d, x
  <2>4. QED
    BY <1>1, <1>2, <2>1, <2>2, <2>3, CallerWaits
<1>5. CASE TakePush
  <2>1. sent' = sent
    BY <1>5 DEF TakePush
  <2>2. CASE ioPush' = None
    BY <1>3, <1>5, <2>1, <2>2 DEF TakePush
  <2>3. CASE ioPush' # None
    <3>1. /\ ioMsg.to \in sent /\ idToPush[ioChan][ioMsg.ref] = ioMsg.to
          /\ idToPush' = Erase(ioChan, ioMsg.ref)
          /\ ioChan \in Channel /\ ioMsg.ref \in Ref
      BY <1>5, <2>3, TakenIsAnswered DEF IndInv, PushInv, ReplyInv
    <3>2. ASSUME pc[u] # "idle", InTable(cur[u])
          PROVE  idToPush'[push[cur[u]].chan][push[cur[u]].ref]
                   = idToPush[push[cur[u]].chan][push[cur[u]].ref]
      <4>1. push[cur[u]].chan \in Channel /\ push[cur[u]].ref \in Ref
        BY <1>1, <3>2, ChannelAssumption DEF TypeInv, TypeOK, CallsOK, PushRecord
      <4>2. ~(push[cur[u]].chan = ioChan /\ push[cur[u]].ref = ioMsg.ref)
        BY <1>1, <3>1, <3>2 DEF CallerOK, InTable
      <4>3. QED
        BY <1>1, <3>1, <4>1, <4>2 DEF Erase, TypeInv, TypeOK
    <3>3. QED
      BY <1>1, <1>2, <2>1, <3>2, CallerWaits
  <2>4. QED
    BY <2>2, <2>3
<1> QED
  BY <1>3, <1>4, <1>5
  DEF Io, Server, OpenHandler, RejoinAll, RejoinDone, PublishOpened, Catch, CloseHandler, OnMessage,
      ProcessResponse, EndDispatch, ProcessMessage, InvokeCallback, Reply, Deliver,
      Garble, Publish, Lose

\* Between push() and the end of start() the caller's reference stays valid,
\* whatever the I/O thread and other callers do, if start() gets no timeout and
\* m_ref has not wrapped.
THEOREM CallersSafe ==
  ASSUME MaxRef < RefMod, Timeouts \subseteq {FALSE} PROVE Spec => []NoDanglingPush
<1>1. Init => CallersOK
  BY DEF Init, CallersOK
<1>2. IndInv /\ ReplyInv /\ CallersOK /\ [Next]_vars => CallersOK'
  <2> SUFFICES ASSUME IndInv, ReplyInv, CallersOK, [Next]_vars,
                      NEW u \in Thread
               PROVE  CallerOK(u)'
    BY DEF CallersOK, CallerOK
  <2>1. SameIdentity
    BY IdentityStep DEF IndInv
  <2>2. CASE UNCHANGED vars
    BY <2>2 DEF vars, refVars, appVars, netVars, CallersOK, CallerOK, InTable
  <2>3. CASE Next
    BY <2>1, <2>3, CallersStepThread, CallersStepIo DEF Next
  <2>4. QED
    BY <2>2, <2>3
<1>3. CallersOK => NoDanglingPush
  BY DEF CallersOK, NoDanglingPush
<1> QED
  BY <1>1, <1>2, <1>3, Invariance, ReplyInvariance, PTL DEF Spec

\* What has been rejoined on this connection stays so, and a channel newer than
\* all rejoins stays newer, as long as only callers send.
LEMMA RejoinedKept ==
  ASSUME TypeInv, SameIdentity, sent \subseteq sent', NEW c \in Channel, Rejoined(c)
  PROVE  Rejoined(c)'
<1>1. PICK p \in sent : IsRejoin(p) /\ push[p].chan = c
  BY DEF Rejoined
<1>2. p \in PushId /\ push[p] # None
  BY DEF TypeInv, TypeOK, IoOK
<1> QED
  BY <1>1, <1>2 DEF SameIdentity, Rejoined, IsRejoin

LEMMA CreatedKept ==
  ASSUME TypeInv, SameIdentity, NEW c \in Channel, CreatedSince(c), joinRef'[c] = joinRef[c],
         \A p \in sent' \ sent : ~IsRejoin(p)'
  PROVE  CreatedSince(c)'
<1>1. \A p \in sent : p \in PushId /\ push[p] # None
  BY DEF TypeInv, TypeOK, IoOK
<1> QED
  BY <1>1 DEF SameIdentity, CreatedSince, IsRejoin

\* Callers construct joins and pushes, and work on one from begin to end.
LEMMA CallersSendNone ==
  ASSUME TypeInv, RejoinedOK, [Next]_vars, NEW u \in Thread, pc'[u] # "idle"
  PROVE  ~IsRejoin(cur[u])'
<1>1. SameIdentity
  BY IdentityStep
<1>2. CASE pc[u] # "idle" /\ cur'[u] = cur[u]
  <2>1. cur[u] \in PushId /\ push[cur[u]] # None /\ ~IsRejoin(cur[u])
    BY <1>2 DEF TypeInv, CallsOK, RejoinedOK
  <2>2. QED
    BY <1>1, <1>2, <2>1 DEF SameIdentity, IsRejoin
<1>3. CASE UNCHANGED appVars
  BY <1>2, <1>3 DEF appVars
<1>4. ASSUME NEW t \in Thread, NEW c \in Channel, NEW kind \in Kinds, DrawRef(t, c, kind)
      PROVE  ~IsRejoin(cur[u])'
  <2>1. PICK p \in Unused : /\ push' = [push EXCEPT ![p] = NewPush(c, kind, {})]
                            /\ cur' = [cur EXCEPT ![t] = p]
    BY <1>4 DEF DrawRef
  <2>2. push'[p].kind = kind /\ kind # "rejoin"
    BY <2>1, ChannelAssumption DEF TypeInv, TypeOK, Unused, NewPush
  <2>3. CASE u = t
    BY <2>1, <2>2, <2>3 DEF TypeInv, TypeOK, IsRejoin
  <2>4. CASE u # t
    BY <1>2, <1>4, <2>1, <2>4 DEF DrawRef, TypeInv, TypeOK
  <2>5. QED
    BY <2>3, <2>4
<1>5. ASSUME NEW t \in Thread, Call(t) PROVE ~IsRejoin(cur[u])'
  BY <1>2, <1>5 DEF Call, Emplace, Receive, Send, Arm, Goto, Return, TypeInv, TypeOK
<1> QED
  BY <1>3, <1>4, <1>5
  DEF Next, Io, Server, Begin, vars, appVars, GetChannel, RemoveChannel, On, Off, OffId,
      OpenHandler, RejoinAll, RejoinChannel, RejoinDone, PublishOpened, Catch,
      CloseHandler, OnMessage, ProcessMessage, InvokeCallback, TakePush,
      ProcessResponse, EndDispatch, Deliver, Reply, Publish, Garble, Lose

\* The loop leaves a channel behind only when its join has been sent.
LEMMA LoopStep ==
  ASSUME TypeInv, TypeInv', RejoinedOK, [Next]_vars, ioPc' = "rejoin",
         NEW d \in registry' \ ioTodo'
  PROVE  Rejoined(d)'
<1> USE DEF refVars, appVars, msgVars, ioVars, netVars, IoGoto, IoLeave
<1>1. SameIdentity /\ registry' \subseteq Channel
  BY IdentityStep DEF TypeInv, TypeOK
<1>2. CASE UNCHANGED <<ioPc, ioTodo, registry>> /\ sent \subseteq sent'
  BY <1>1, <1>2, RejoinedKept DEF RejoinedOK
<1>3. ASSUME NEW t \in Thread, NEW c \in Channel, GetChannel(t, c) \/ RemoveChannel(t, c)
      PROVE  FALSE
  BY <1>3 DEF GetChannel, RemoveChannel, RegistryFree, Locked
<1>4. CASE RejoinAll
  BY <1>4 DEF RejoinAll
<1>5. ASSUME NEW c \in Channel, RejoinChannel(c) PROVE Rejoined(d)'
  <2>1. PICK p \in Unused : /\ push' = [push EXCEPT ![p] = NewPush(c, "rejoin", Status)]
                            /\ sent' = sent \cup {p} /\ ioTodo' = ioTodo \ {c}
    BY <1>5 DEF RejoinChannel
  <2>2. ioPc = "rejoin" /\ registry' = registry
    BY <1>5 DEF RejoinChannel
  <2>3. CASE d = c
    <3>1. NewPush(c, "rejoin", Status) \in PushRecord
      BY PushTypes DEF TypeInv
    <3>2. push'[p] = NewPush(c, "rejoin", Status) /\ push'[p] # None
      BY <2>1, <3>1, NoneAssumption DEF TypeInv, TypeOK, Unused
    <3>3. QED
      BY <2>1, <2>3, <3>2 DEF Rejoined, IsRejoin, NewPush
  <2>4. CASE d # c
    BY <1>1, <2>1, <2>2, <2>4, RejoinedKept DEF RejoinedOK
  <2>5. QED
    BY <2>3, <2>4
<1> QED
  BY <1>2, <1>3, <1>4, <1>5
  DEF Next, Io, Server, Call, Begin, vars, DrawRef, Emplace, Receive, Send, Arm,
      On, Off, OffId, OpenHandler, RejoinDone, PublishOpened, Catch, CloseHandler,
      OnMessage, ProcessMessage, InvokeCallback, TakePush, ProcessResponse,
      EndDispatch, Deliver, Reply, Publish, Garble, Lose

\* Between the end of the loop and OPENED the registry is not locked: a channel
\* may come, with a ref newer than all that was sent, or go, and callers send.
LEMMA GapStep ==
  ASSUME MaxRef < RefMod, TypeInv, TypeInv', RefsOK, RejoinedOK, [Next]_vars,
         ioPc' = "rejoined", NEW d \in registry'
  PROVE  Rejoined(d)' \/ CreatedSince(d)'
<1> USE DEF refVars, appVars, msgVars, ioVars, netVars, IoGoto, IoLeave
<1>1. SameIdentity /\ registry' \subseteq Channel
  BY IdentityStep DEF TypeInv, TypeOK
<1>2. ASSUME d \in registry, ioPc = "rejoined", UNCHANGED joinRef, sent \subseteq sent',
             \A p \in sent' \ sent : ~IsRejoin(p)'
      PROVE  Rejoined(d)' \/ CreatedSince(d)'
  BY <1>1, <1>2, RejoinedKept, CreatedKept DEF RejoinedOK
<1>3. CASE UNCHANGED <<ioPc, joinRef, sent>> /\ registry' \subseteq registry
  BY <1>2, <1>3
<1>4. ASSUME NEW t \in Thread, NEW c \in Channel, GetChannel(t, c)
      PROVE  Rejoined(d)' \/ CreatedSince(d)'
  <2>1. /\ ioPc = "rejoined" /\ sent' = sent /\ push' = push
        /\ joinRef' = [joinRef EXCEPT ![c] = m_ref] /\ registry' = registry \cup {c}
    BY <1>4 DEF GetChannel
  <2>2. CASE d = c
    <3>1. joinRef'[c] = m_ref /\ m_ref # None
      BY <2>1, ChannelAssumption DEF TypeInv, TypeOK
    <3>2. \A p \in sent : push[p].ref < m_ref
      BY DEF TypeInv, TypeOK, IoOK, RefsOK
    <3>3. QED
      BY <2>1, <2>2, <3>1, <3>2 DEF CreatedSince
  <2>3. CASE d # c
    <3>1. d \in registry /\ d \in Channel /\ joinRef'[d] = joinRef[d]
      BY <1>1, <2>1, <2>3 DEF TypeInv, TypeOK
    <3>2. QED
      BY <1>1, <2>1, <3>1, RejoinedKept, CreatedKept DEF RejoinedOK
  <2>4. QED
    BY <2>2, <2>3
<1>5. ASSUME NEW t \in Thread, Send(t) PROVE Rejoined(d)' \/ CreatedSince(d)'
  <2>1. /\ ioPc = "rejoined" /\ registry' = registry /\ joinRef' = joinRef /\ push' = push
        /\ sent' = sent \cup {cur[t]} \/ sent' = sent
        /\ pc[t] # "idle"
    BY <1>5 DEF Send
  <2>2. \A p \in sent' \ sent : ~IsRejoin(p)'
    BY <2>1 DEF RejoinedOK, IsRejoin
  <2>3. QED
    BY <1>2, <2>1, <2>2
<1>6. CASE RejoinDone
  BY <1>1, <1>6, RejoinedKept DEF RejoinDone, RejoinedAll, RejoinedOK
<1> QED
  BY <1>3, <1>4, <1>5, <1>6
  DEF Next, Io, Server, Call, Begin, vars, RemoveChannel, DrawRef, Emplace, Receive,
      Arm, On, Off, OffId, OpenHandler, RejoinAll, RejoinChannel, PublishOpened, Catch,
      CloseHandler, OnMessage, ProcessMessage, InvokeCallback, TakePush,
      ProcessResponse, EndDispatch, Deliver, Reply, Publish, Garble, Lose

\* Only the open handler publishes OPENED, and only after its loop has returned.
LEMMA OpenedStep ==
  ASSUME RejoinedOK, [Next]_vars PROVE ReturnsRejoined /\ PublishesRejoined
<1>1. ASSUME ioPc = "rejoin", ioPc' = "rejoined" PROVE RejoinDone
  BY <1>1 DEF Next, Io, Server, Call, Begin, vars, refVars, appVars, msgVars, ioVars,
         netVars, GetChannel, RemoveChannel, DrawRef, Emplace, Receive, Send, Arm, On, Off,
         OffId, OpenHandler, RejoinAll, RejoinChannel, PublishOpened, Catch, CloseHandler,
         OnMessage, ProcessMessage, InvokeCallback, TakePush, ProcessResponse,
         EndDispatch, Deliver, Reply, Publish, Garble, Lose, IoGoto, IoLeave
<1>2. ASSUME m_state # "OPENED", m_state' = "OPENED" PROVE PublishOpened
  BY <1>2 DEF Next, Io, Server, Call, Begin, vars, refVars, appVars, msgVars, ioVars,
         netVars, GetChannel, RemoveChannel, DrawRef, Emplace, Receive, Send, Arm, On, Off,
         OffId, OpenHandler, RejoinAll, RejoinChannel, RejoinDone, Catch, CloseHandler,
         EndState, OnMessage, ProcessMessage, InvokeCallback, TakePush, ProcessResponse,
         EndDispatch, Deliver, Reply, Publish, Garble, Lose
<1>3. ReturnsRejoined
  BY <1>1 DEF ReturnsRejoined, RejoinDone, RejoinedAll, RejoinedOK
<1>4. PublishesRejoined
  BY <1>2 DEF PublishesRejoined, PublishOpened, RejoinedOK
<1> QED
  BY <1>3, <1>4

\* rejoinAllChannels returns with every registered channel joined on this
\* connection, and when OPENED is published only channels that getChannel has
\* created since are not, as long as m_ref has not wrapped.
THEOREM RejoinedFirst ==
  ASSUME MaxRef < RefMod PROVE Spec => OpenedAfterRejoin
<1>1. Init => RejoinedOK
  BY DEF Init, RejoinedOK
<1>2. IndInv /\ ReplyInv /\ RejoinedOK /\ [Next]_vars => RejoinedOK'
  <2> SUFFICES ASSUME TypeInv, TypeInv', RefsOK, RejoinedOK, [Next]_vars PROVE RejoinedOK'
    BY TypeStep DEF IndInv, PushInv, ReplyInv
  <2>1. \A t \in Thread : pc'[t] # "idle" => ~IsRejoin(cur[t])'
    BY CallersSendNone
  <2>2. ioPc' = "rejoin" => \A c \in registry' \ ioTodo' : Rejoined(c)'
    BY LoopStep
  <2>3. ioPc' = "rejoined" => \A c \in registry' : Rejoined(c)' \/ CreatedSince(c)'
    BY GapStep
  <2>4. QED
    BY <2>1, <2>2, <2>3 DEF RejoinedOK
<1>3. RejoinedOK /\ [Next]_vars => [ReturnsRejoined /\ PublishesRejoined]_vars
  BY OpenedStep
<1> QED
  BY <1>1, <1>2, <1>3, Invariance, ReplyInvariance, PTL DEF Spec, OpenedAfterRejoin

-----------------------------------------------------------------------------
(* PhoenixChannel implements PushLifecycle while m_ref has not wrapped. *)

\* The push is there as before and as often answered.
KeptPush(p) ==
  /\ push'[p] = None <=> push[p] = None
  /\ push[p] # None => push'[p].answers = push[p].answers

\* A push stays in its stage if nothing that the stage depends on changes.
LEMMA StageKept ==
  ASSUME NEW p \in PushId, KeptPush(p),
         Drawn(p)' <=> Drawn(p), Waiting(p)' <=> Waiting(p)
  PROVE  Stage(p)' = Stage(p)
BY DEF Stage, KeptPush

\* It is at most given up if it only stops to wait.
LEMMA StageFades ==
  ASSUME NEW p \in PushId, KeptPush(p),
         Drawn(p)' <=> Drawn(p), Waiting(p)' => Waiting(p)
  PROVE  Stage(p)' = Stage(p) \/ (Stage(p) = "pending" /\ Stage(p)' = "lost")
BY DEF Stage, KeptPush

\* Pushes given up and replies lost are a step of PushLifecycle.
LEMMA FadeStep ==
  ASSUME \A p \in PushId :
           Stage(p)' = Stage(p) \/ (Stage(p) = "pending" /\ Stage(p)' = "lost"),
         RepliesUnderWay' \subseteq RepliesUnderWay
  PROVE  Lifecycle!Next
<1> DEFINE S == {p \in PushId : Stage(p)' # Stage(p)}
<1>1. [p \in PushId |-> Stage(p)']
        = [p \in PushId |-> IF p \in S THEN "lost" ELSE [q \in PushId |-> Stage(q)][p]]
  OBVIOUS
<1>2. \A p \in S : [q \in PushId |-> Stage(q)][p] = "pending"
  OBVIOUS
<1>3. Lifecycle!GiveUp(S)
  BY <1>1, <1>2 DEF Lifecycle!GiveUp
<1> QED
  BY <1>3 DEF Lifecycle!Next

\* A push that starts to wait is a step of PushLifecycle.
LEMMA IssueStep ==
  ASSUME NEW p \in PushId, Stage(p) = "unborn", Stage(p)' = "pending",
         \A q \in PushId \ {p} : Stage(q)' = Stage(q),
         RepliesUnderWay' = RepliesUnderWay
  PROVE  Lifecycle!Next
<1>1. [q \in PushId |-> Stage(q)']
        = [[q \in PushId |-> Stage(q)] EXCEPT ![p] = "pending"]
  OBVIOUS
<1>2. Lifecycle!Issue(p)
  BY <1>1 DEF Lifecycle!Issue
<1> QED
  BY <1>2 DEF Lifecycle!Next

\* A push answered is a step of PushLifecycle.
LEMMA AnswerStep ==
  ASSUME NEW p \in PushId, Stage(p) = "pending", Stage(p)' = "answered",
         \A q \in PushId \ {p} : Stage(q)' = Stage(q),
         p \in RepliesUnderWay, RepliesUnderWay' \subseteq RepliesUnderWay
  PROVE  Lifecycle!Next
<1>1. [q \in PushId |-> Stage(q)']
        = [[q \in PushId |-> Stage(q)] EXCEPT ![p] = "answered"]
  OBVIOUS
<1>2. Lifecycle!Answer(p)
  BY <1>1 DEF Lifecycle!Answer
<1> QED
  BY <1>2 DEF Lifecycle!Next

\* A reply written by the server is a step of PushLifecycle.
LEMMA ServerStep ==
  ASSUME NEW p \in PushId, Stage(p) # "unborn",
         \A q \in PushId : Stage(q)' = Stage(q),
         RepliesUnderWay' = RepliesUnderWay \cup {p}
  PROVE  Lifecycle!Next
<1>1. [q \in PushId |-> Stage(q)'] = [q \in PushId |-> Stage(q)]
  OBVIOUS
<1>2. Lifecycle!ServerReplies(p)
  BY <1>1 DEF Lifecycle!ServerReplies
<1> QED
  BY <1>2 DEF Lifecycle!Next

\* on_message takes a reply out of the inbox or loses it; a handler that ends
\* or the close handler loses some.
LEMMA RepliesFade ==
  ASSUME inbox \in Seq(Message),
         \/ inbox' \in {inbox, <<>>} /\ ioMsg' \in {ioMsg, None}
         \/ inbox # <<>> /\ inbox' = Tail(inbox) /\ ioMsg' \in {Head(inbox), None}
  PROVE  RepliesUnderWay' \subseteq RepliesUnderWay
<1>1. CASE inbox' \in {inbox, <<>>} /\ ioMsg' \in {ioMsg, None}
  BY <1>1 DEF RepliesUnderWay
<1>2. CASE inbox # <<>> /\ inbox' = Tail(inbox) /\ ioMsg' \in {Head(inbox), None}
  <2>1. \A i \in DOMAIN inbox' : i + 1 \in DOMAIN inbox /\ inbox'[i] = inbox[i + 1]
    BY <1>2
  <2>2. 1 \in DOMAIN inbox /\ Head(inbox) = inbox[1]
    BY <1>2
  <2>3. QED
    BY <1>2, <2>1, <2>2 DEF RepliesUnderWay
<1> QED
  BY <1>1, <1>2

\* A message that arrives adds its push to those with a reply under way.
LEMMA RepliesGrow ==
  ASSUME inbox \in Seq(Message), NEW m \in Message, inbox' = Append(inbox, m), ioMsg' = ioMsg
  PROVE  RepliesUnderWay' = RepliesUnderWay \cup ({m.to} \ {None})
<1>1. /\ \A i \in DOMAIN inbox : i \in DOMAIN inbox' /\ inbox'[i] = inbox[i]
      /\ Len(inbox) + 1 \in DOMAIN inbox' /\ inbox'[Len(inbox) + 1] = m
      /\ \A i \in DOMAIN inbox' : i \in DOMAIN inbox \/ i = Len(inbox) + 1
  OBVIOUS
<1>2. {inbox'[i].to : i \in DOMAIN inbox'} = {inbox[i].to : i \in DOMAIN inbox} \cup {m.to}
  BY <1>1
<1> QED
  BY <1>2 DEF RepliesUnderWay

\* The same threads have drawn a ref and not stored the push yet.
SameDrawers ==
  \A t \in Thread : /\ pc'[t] = "emplace" <=> pc[t] = "emplace"
                    /\ pc[t] = "emplace" => cur'[t] = cur[t]

\* Pushes that only stop to wait, and replies that only get lost.
LEMMA FadingStep ==
  ASSUME SamePushes, SameDrawers, RepliesUnderWay' \subseteq RepliesUnderWay,
         \A p \in PushId : Waiting(p)' => Waiting(p)
  PROVE  Lifecycle!Next
<1>1. ASSUME NEW p \in PushId
      PROVE  Stage(p)' = Stage(p) \/ (Stage(p) = "pending" /\ Stage(p)' = "lost")
  <2>1. KeptPush(p)
    BY DEF SamePushes, KeptPush
  <2>2. Drawn(p)' <=> Drawn(p)
    BY DEF SameDrawers, Drawn
  <2>3. QED
    BY <2>1, <2>2, StageFades
<1> QED
  BY <1>1, FadeStep

\* A push found in a table after a step that removes entries at most.
LEMMA TableFades ==
  ASSUME TypeInv, SamePushes, NEW p \in PushId,
         \A c \in Channel, r \in Ref : idToPush'[c][r] \in {idToPush[c][r], None}
  PROVE  InTable(p)' => InTable(p)
<1> SUFFICES ASSUME InTable(p)' PROVE InTable(p)
  OBVIOUS
<1>1. push[p] # None /\ push'[p].chan = push[p].chan /\ push'[p].ref = push[p].ref
  BY DEF InTable, SamePushes
<1>2. push[p].chan \in Channel /\ push[p].ref \in Ref
  BY <1>1 DEF TypeInv, TypeOK, PushRecord
<1> QED
  BY <1>1, <1>2, ChannelAssumption DEF InTable

\* A push stored in a free place of a table displaces no other.
LEMMA OthersStay ==
  ASSUME TypeInv, NEW c \in Channel, NEW r \in Ref, CanEmplace(c, r), NEW p \in PushId,
         idToPush' = [idToPush EXCEPT ![c][r] = p],
         NEW q \in PushId \ {p}, push'[q] = push[q]
  PROVE  InTable(q)' <=> InTable(q)
<1>1. \A d \in Channel, x \in Ref :
        idToPush'[d][x] = IF d = c /\ x = r THEN p ELSE idToPush[d][x]
  BY DEF TypeInv, TypeOK
<1>2. push[q] # None => push[q].chan \in Channel /\ push[q].ref \in Ref
  BY DEF TypeInv, TypeOK, PushRecord
<1>3. idToPush[c][r] = None /\ q # None
  BY ChannelAssumption DEF CanEmplace
<1> QED
  BY <1>1, <1>2, <1>3 DEF InTable

\* channel::push has drawn a ref: the caller cannot tell the new push from one
\* not asked for yet.
LEMMA DrawRefLife ==
  ASSUME TypeInv, TableOK, NEW t \in Thread, NEW c \in Channel, NEW kind \in Kinds,
         DrawRef(t, c, kind)
  PROVE  UNCHANGED Lifecycle!vars
<1>1. PICK p \in Unused : /\ push' = [push EXCEPT ![p] = NewPush(c, kind, {})]
                          /\ cur' = [cur EXCEPT ![t] = p]
  BY DEF DrawRef
<1>2. /\ pc[t] = "idle" /\ pc' = [pc EXCEPT ![t] = "emplace"]
      /\ UNCHANGED <<idToPush, ioPush, ioMsg, inbox>>
  BY DEF DrawRef, ioVars, msgVars, netVars
<1>3. NewPush(c, kind, {}) \in PushRecord /\ NewPush(c, kind, {}).answers = 0
  BY ChannelAssumption, PushTypes DEF NewPush, TypeInv
<1>4. p \in PushId /\ push[p] = None
  BY DEF Unused
<1>5. Stage(p) = "unborn" /\ Stage(p)' = "unborn"
  <2>1. push'[p].answers = 0
    BY <1>1, <1>3, <1>4 DEF TypeInv, TypeOK
  <2>2. pc'[t] = "emplace" /\ cur'[t] = p
    BY <1>1, <1>2 DEF TypeInv, TypeOK
  <2>3. QED
    BY <1>4, <2>1, <2>2 DEF Stage, Drawn
<1>6. ASSUME NEW q \in PushId \ {p} PROVE Stage(q)' = Stage(q)
  <2>1. push'[q] = push[q]
    BY <1>1 DEF TypeInv, TypeOK
  <2>2. Drawn(q)' <=> Drawn(q)
    BY <1>1, <1>2 DEF Drawn, TypeInv, TypeOK
  <2>3. Waiting(q)' <=> Waiting(q)
    BY <1>2, <2>1 DEF Waiting, InTable
  <2>4. QED
    BY <2>1, <2>2, <2>3, StageKept DEF KeptPush
<1>7. [q \in PushId |-> Stage(q)'] = [q \in PushId |-> Stage(q)]
  BY <1>5, <1>6
<1>8. RepliesUnderWay' = RepliesUnderWay
  BY <1>2 DEF RepliesUnderWay
<1> QED
  BY <1>7, <1>8 DEF Lifecycle!vars

\* channel::push stores the push: the caller starts to wait.
LEMMA EmplaceLife ==
  ASSUME IndInv, ReplyInv, NEW t \in Thread, Emplace(t)
  PROVE  Lifecycle!Next
<1> USE DEF IndInv, PushInv, ReplyInv
<1>1. PICK p \in PushId : /\ p = cur[t] /\ push[p] # None
                          /\ pc[t] = "emplace" /\ push' = push
                          /\ UNCHANGED <<ioPush, ioMsg, inbox>>
  BY DEF Emplace, TypeInv, CallsOK, ioVars, msgVars, netVars
<1>2. InTable(p)' /\ Goto(t, "receive")
  BY <1>1, EmplaceStores DEF Goto, InTable
<1>3. push[p].answers = 0 /\ \A u \in Thread : pc[u] = "emplace" /\ cur[u] = p => u = t
  BY <1>1 DEF DrawnOK
<1>4. pc' = [pc EXCEPT ![t] = "receive"] /\ cur' = cur
  BY <1>2 DEF Goto
<1>5. Stage(p) = "unborn"
  BY <1>1, <1>3 DEF Stage, Drawn
<1>6. Stage(p)' = "pending"
  <2>1. ~Drawn(p)'
    BY <1>3, <1>4 DEF Drawn, TypeInv, TypeOK
  <2>2. QED
    BY <1>1, <1>2, <1>3, <1>4, <2>1 DEF Stage, Waiting
<1>7. ASSUME NEW q \in PushId \ {p} PROVE Stage(q)' = Stage(q)
  <2>1. Drawn(q)' <=> Drawn(q)
    BY <1>1, <1>4 DEF Drawn, TypeInv, TypeOK
  <2>2. push[p].chan \in Channel /\ push[p].ref \in Ref
    BY <1>1 DEF TypeInv, TypeOK, PushRecord
  <2>3. InTable(q)' <=> InTable(q)
    <3>1. CASE CanEmplace(push[p].chan, push[p].ref)
      <4>1. idToPush' = [idToPush EXCEPT ![push[p].chan][push[p].ref] = p]
        BY <1>1, <3>1 DEF Emplace
      <4>2. QED
        BY <1>1, <2>2, <3>1, <4>1, OthersStay
    <3>2. CASE ~CanEmplace(push[p].chan, push[p].ref)
      BY <1>1, <3>2 DEF Emplace, InTable
    <3>3. QED
      BY <3>1, <3>2
  <2>4. QED
    BY <1>1, <2>1, <2>3, StageKept DEF KeptPush, Waiting
<1>8. RepliesUnderWay' = RepliesUnderWay
  BY <1>1 DEF RepliesUnderWay
<1> QED
  BY <1>1, <1>5, <1>6, <1>7, <1>8, IssueStep

\* The open handler joins a channel: its push waits as soon as it exists, and
\* with a ref of its own emplace finds the place free.
LEMMA RejoinLife ==
  ASSUME IndInv, ReplyInv, NEW c \in Channel, RejoinChannel(c)
  PROVE  Lifecycle!Next
<1> USE DEF IndInv, PushInv, ReplyInv
<1>1. PICK p \in Unused :
        /\ push' = [push EXCEPT ![p] = NewPush(c, "rejoin", Status)]
        /\ idToPush' = IF CanEmplace(c, m_ref)
                       THEN [idToPush EXCEPT ![c][m_ref] = p] ELSE idToPush
  BY DEF RejoinChannel
<1>2. p \in PushId /\ push[p] = None
  BY DEF Unused
<1>3. /\ NewPush(c, "rejoin", Status) \in PushRecord
      /\ NewPush(c, "rejoin", Status).chan = c
      /\ NewPush(c, "rejoin", Status).ref = m_ref
      /\ NewPush(c, "rejoin", Status).answers = 0
  BY PushTypes DEF TypeInv, NewPush
<1>4. m_ref \in Ref
  BY DEF TypeInv, TypeOK
<1>5. CanEmplace(c, m_ref)
  <2>1. idToPush[c][m_ref] \in PushId \cup {None}
    BY <1>4 DEF TypeInv, TypeOK
  <2>2. m_ref \in Nat
    BY <1>4, ChannelAssumption DEF Ref
  <2>3. QED
    BY <1>4, <2>1, <2>2 DEF CanEmplace, TableOK, RefsOK
<1>6. ioMsg = None /\ ioPush = None /\ UNCHANGED <<ioMsg, ioPush, inbox, pc, cur>>
  BY DEF RejoinChannel, IoLeave, MessagesOK, appVars, msgVars
<1>7. push'[p] = NewPush(c, "rejoin", Status) /\ \A q \in PushId \ {p} : push'[q] = push[q]
  BY <1>1, <1>2 DEF TypeInv, TypeOK
<1>8. idToPush' = [idToPush EXCEPT ![c][m_ref] = p]
  BY <1>1, <1>5
<1>9. ~Drawn(p)' /\ \A q \in PushId : Drawn(q)' <=> Drawn(q)
  BY <1>2, <1>6 DEF Drawn, TypeInv, CallsOK
<1>10. Stage(p) = "unborn"
  BY <1>2 DEF Stage
<1>11. Stage(p)' = "pending"
  <2>1. push'[p] # None /\ push'[p].chan = c /\ push'[p].ref = m_ref /\ push'[p].answers = 0
    BY <1>3, <1>7, NoneAssumption
  <2>2. idToPush'[c][m_ref] = p
    BY <1>4, <1>8 DEF TypeInv, TypeOK
  <2>3. InTable(p)'
    BY <2>1, <2>2 DEF InTable
  <2>4. QED
    BY <1>9, <2>1, <2>3 DEF Stage, Waiting
<1>12. ASSUME NEW q \in PushId \ {p} PROVE Stage(q)' = Stage(q)
  <2>1. InTable(q)' <=> InTable(q)
    BY <1>2, <1>4, <1>5, <1>7, <1>8, OthersStay
  <2>2. QED
    BY <1>6, <1>7, <1>9, <2>1, StageKept DEF KeptPush, Waiting
<1>13. RepliesUnderWay' = RepliesUnderWay
  BY <1>6 DEF RepliesUnderWay
<1> QED
  BY <1>2, <1>10, <1>11, <1>12, <1>13, IssueStep

\* removeChannel and offId give pushes up.
LEMMA RemoveLife ==
  ASSUME TypeInv, NEW t \in Thread, NEW c \in Channel,
         RemoveChannel(t, c) \/ \E r \in Ref : OffId(t, c, r)
  PROVE  Lifecycle!Next
<1>1. UNCHANGED <<push, pc, cur, ioPush, ioMsg, inbox>>
  BY DEF RemoveChannel, OffId, appVars, ioVars, msgVars, netVars
<1>2. \A d \in Channel, x \in Ref : idToPush'[d][x] \in {idToPush[d][x], None}
  <2>1. idToPush \in [Channel -> [Ref -> PushId \cup {None}]]
    BY DEF TypeInv, TypeOK
  <2>2. ASSUME RemoveChannel(t, c)
        PROVE  \A d \in Channel, x \in Ref : idToPush'[d][x] \in {idToPush[d][x], None}
    <3>1. PICK gone : idToPush' = [d \in Channel |-> IF d \in gone THEN EmptyTable ELSE idToPush[d]]
      BY <2>2 DEF RemoveChannel
    <3>2. QED
      BY <2>1, <3>1 DEF EmptyTable
  <2>3. ASSUME NEW r \in Ref, OffId(t, c, r)
        PROVE  \A d \in Channel, x \in Ref : idToPush'[d][x] \in {idToPush[d][x], None}
    <3>1. idToPush' = Erase(c, r)
      BY <2>3 DEF OffId
    <3>2. QED
      BY <2>1, <3>1 DEF Erase
  <2>4. QED
    BY <2>2, <2>3
<1>3. SamePushes /\ SameDrawers
  BY <1>1 DEF SamePushes, SameDrawers
<1>4. \A p \in PushId : Waiting(p)' => Waiting(p)
  BY <1>1, <1>2, <1>3, TableFades DEF Waiting
<1>5. RepliesUnderWay' = RepliesUnderWay
  BY <1>1 DEF RepliesUnderWay
<1> QED
  BY <1>3, <1>4, <1>5, FadingStep

\* processMessage takes the push out of the table: it still waits.
LEMMA TakeLife ==
  ASSUME TypeInv, TableOK, TakePush
  PROVE  Lifecycle!Next
<1>1. UNCHANGED <<push, pc, cur, ioMsg, inbox>>
  BY DEF TakePush, appVars, netVars
<1>2. SamePushes /\ SameDrawers /\ RepliesUnderWay' = RepliesUnderWay
  BY <1>1 DEF SamePushes, SameDrawers, RepliesUnderWay
<1>3. ioMsg.ref # None => ioMsg.ref \in Ref /\ ioChan \in Channel
  BY DEF TakePush, TypeInv, TypeOK, IoOK, Message
<1>4. /\ idToPush' = idToPush \/ (ioMsg.ref # None /\ idToPush' = Erase(ioChan, ioMsg.ref))
      /\ ioPush' = IF ioMsg.ref = None THEN None ELSE idToPush[ioChan][ioMsg.ref]
  BY DEF TakePush
<1>5. \A d \in Channel, x \in Ref : idToPush'[d][x] \in {idToPush[d][x], None}
  BY <1>3, <1>4 DEF Erase, TypeInv, TypeOK
<1>6. ASSUME NEW p \in PushId, ioPush' = p PROVE InTable(p)
  <2>1. ioMsg.ref # None /\ idToPush[ioChan][ioMsg.ref] = p
    BY <1>4, <1>6, ChannelAssumption
  <2>2. QED
    BY <1>3, <2>1, ChannelAssumption DEF TableOK, InTable
<1>7. \A p \in PushId : Waiting(p)' => Waiting(p)
  BY <1>2, <1>5, <1>6, TableFades DEF Waiting
<1> QED
  BY <1>2, <1>7, FadingStep

\* processResponse answers the push that the server has replied to, or a
\* payload without a status throws and the push is gone.
LEMMA RespondLife ==
  ASSUME IndInv, ReplyInv, ProcessResponse
  PROVE  Lifecycle!Next
<1> USE DEF IndInv, PushInv, ReplyInv
<1>1. PICK p \in PushId : p = ioPush /\ push[p] \in PushRecord /\ push[p].answers = 0
  BY DEF ProcessResponse, TypeInv, TypeOK, IoOK, TakenOK
<1>2. /\ UNCHANGED <<idToPush, pc, cur, inbox>> /\ ioPush' = None
      /\ ioMsg' \in {ioMsg, None} /\ ioPc = "respond"
  BY DEF ProcessResponse, IoLeave, appVars
<1>3. RepliesUnderWay' \subseteq RepliesUnderWay
  BY <1>2, RepliesFade DEF TypeInv, TypeOK
<1>4. push[p] # None
  BY <1>1, NoneAssumption
<1>5. CASE push' = push
  <2>1. SamePushes /\ SameDrawers
    BY <1>2, <1>5 DEF SamePushes, SameDrawers
  <2>2. \A q \in PushId : Waiting(q)' => Waiting(q)
    BY <1>2, <1>5, ChannelAssumption DEF Waiting, InTable
  <2>3. QED
    BY <1>3, <2>1, <2>2, FadingStep
<1>6. CASE push' = [push EXCEPT ![p].answers = @ + 1]
  <2>1. /\ push'[p] = [push[p] EXCEPT !.answers = 1]
        /\ \A q \in PushId \ {p} : push'[q] = push[q]
    BY <1>1, <1>6 DEF TypeInv, TypeOK
  <2>2. [push[p] EXCEPT !.answers = 1] \in PushRecord /\ [push[p] EXCEPT !.answers = 1].answers = 1
    BY <1>1 DEF PushRecord
  <2>3. Stage(p)' = "answered"
    BY <2>1, <2>2, NoneAssumption DEF Stage
  <2>4. Stage(p) = "pending"
    BY <1>1, <1>4 DEF Stage, Waiting, Drawn, DrawnOK
  <2>5. ASSUME NEW q \in PushId \ {p} PROVE Stage(q)' = Stage(q)
    <3>1. Waiting(q)' <=> Waiting(q)
      BY <1>1, <1>2, <2>1, ChannelAssumption DEF Waiting, InTable
    <3>2. Drawn(q)' <=> Drawn(q)
      BY <1>2 DEF Drawn
    <3>3. QED
      BY <2>1, <3>1, <3>2, StageKept DEF KeptPush
  <2>6. p \in RepliesUnderWay
    <3>1. ioMsg.to = p /\ ioMsg # None
      BY <1>1, <1>2 DEF ReplyReachesItsPush, TypeInv, IoOK
    <3>2. QED
      BY <3>1, ChannelAssumption DEF RepliesUnderWay
  <2>7. QED
    BY <1>3, <2>3, <2>4, <2>5, <2>6, AnswerStep
<1> QED
  BY <1>1, <1>5, <1>6 DEF ProcessResponse

\* The server replies to a push that it has been sent.
LEMMA ReplyLife ==
  ASSUME TypeInv, CallersApart, NEW p \in sent, NEW s \in Answers, Reply(p, s)
  PROVE  Lifecycle!Next
<1>1. PICK w \in JoinRefs :
        Deliver([topic |-> Topic[push[p].chan], event |-> "phx_reply", ref |-> push[p].ref,
                 joinRef |-> IF w THEN joinRef[push[p].chan] ELSE None,
                 status |-> s, to |-> p])
  BY DEF Reply
<1> DEFINE m == [topic |-> Topic[push[p].chan], event |-> "phx_reply", ref |-> push[p].ref,
                 joinRef |-> IF w THEN joinRef[push[p].chan] ELSE None,
                 status |-> s, to |-> p]
<1>2. m \in Message /\ m.to = p
  BY ServerTypes
<1>3. Deliver(m)
  BY <1>1
<1> HIDE DEF m
<1>4. UNCHANGED <<push, idToPush, pc, cur, ioPush, ioMsg>> /\ inbox' = Append(inbox, m)
  BY <1>3 DEF Deliver, appVars, ioVars, msgVars
<1>5. p \in PushId /\ p # None /\ push[p] # None
  BY ChannelAssumption DEF TypeInv, TypeOK, IoOK
<1>6. RepliesUnderWay' = RepliesUnderWay \cup {p}
  BY <1>2, <1>4, <1>5, RepliesGrow DEF TypeInv, TypeOK
<1>7. Stage(p) # "unborn"
  BY <1>5 DEF Stage, Drawn, CallersApart
<1>8. \A q \in PushId : Stage(q)' = Stage(q)
  BY <1>4 DEF Stage, Drawn, Waiting, InTable
<1> QED
  BY <1>5, <1>6, <1>7, <1>8, ServerStep

\* Broadcasts and garbled text answer no push.
LEMMA PublishLife ==
  ASSUME TypeInv, NEW m \in Message, m.to = None, Deliver(m)
  PROVE  Lifecycle!Next
<1>1. UNCHANGED <<push, idToPush, pc, cur, ioPush, ioMsg>> /\ inbox' = Append(inbox, m)
  BY DEF Deliver, appVars, ioVars, msgVars
<1>2. RepliesUnderWay' = RepliesUnderWay
  BY <1>1, RepliesGrow DEF TypeInv, TypeOK
<1>3. \A q \in PushId : Stage(q)' = Stage(q)
  BY <1>1 DEF Stage, Drawn, Waiting, InTable
<1> QED
  BY <1>2, <1>3, FadeStep

\* A step that changes no push's waiting and adds no reply.
LEMMA QuietLife ==
  ASSUME TypeInv, SamePushes, SameDrawers, UNCHANGED <<idToPush, ioPush>>,
         \/ inbox' \in {inbox, <<>>} /\ ioMsg' \in {ioMsg, None}
         \/ inbox # <<>> /\ inbox' = Tail(inbox) /\ ioMsg' \in {Head(inbox), None}
  PROVE  Lifecycle!Next
<1>1. \A p \in PushId : InTable(p)' => InTable(p)
  BY DEF SamePushes, InTable
<1>2. \A p \in PushId : Waiting(p)' => Waiting(p)
  BY <1>1 DEF Waiting
<1> QED
  BY <1>2, RepliesFade, FadingStep DEF TypeInv, TypeOK

\* The steps of the application threads that are quiet.
LEMMA ThreadLife ==
  ASSUME TypeInv, NEW t \in Thread,
         \/ Receive(t) \/ Send(t) \/ Arm(t)
         \/ \E c \in Channel :
              \/ GetChannel(t, c)
              \/ \E e \in Event, k \in Callback : On(t, c, e, k)
              \/ \E e \in Event : Off(t, c, e)
  PROVE  Lifecycle!Next
<1> USE DEF appVars, ioVars, msgVars, netVars
<1>1. SamePushes
  <2>1. CASE push' = push
    BY <2>1 DEF SamePushes
  <2>2. QED
    BY <2>1, ReceiveSame, ArmSame DEF GetChannel, Send, On, Off
<1>2. SameDrawers
  BY DEF SameDrawers, GetChannel, Receive, Send, Arm, On, Off, Goto, Return, TypeInv, TypeOK
<1>3. UNCHANGED <<idToPush, ioPush, inbox, ioMsg>>
  BY DEF GetChannel, Receive, Send, Arm, On, Off
<1> QED
  BY <1>1, <1>2, <1>3, QuietLife

\* The steps of the I/O thread and the network that are quiet.
LEMMA IoLife ==
  ASSUME TypeInv, MessagesOK,
         \/ OpenHandler \/ RejoinAll \/ RejoinDone \/ PublishOpened \/ Catch \/ CloseHandler
         \/ OnMessage \/ EndDispatch \/ Lose
         \/ \E c \in Channel : ProcessMessage(c)
         \/ \E k \in Callback : InvokeCallback(k)
  PROVE  Lifecycle!Next
<1> USE DEF appVars, ioVars, msgVars, netVars, IoGoto, IoLeave, MessagesOK, OpenHandler,
            RejoinAll, RejoinDone, PublishOpened, Catch, CloseHandler, OnMessage, EndDispatch, Lose,
            ProcessMessage, InvokeCallback
<1>1. SamePushes /\ SameDrawers
  BY DEF SamePushes, SameDrawers
<1>2. UNCHANGED <<idToPush, ioPush>>
  OBVIOUS
<1>3. \/ inbox' \in {inbox, <<>>} /\ ioMsg' \in {ioMsg, None}
      \/ inbox # <<>> /\ inbox' = Tail(inbox) /\ ioMsg' \in {Head(inbox), None}
  OBVIOUS
<1> QED
  BY <1>1, <1>2, <1>3, QuietLife

\* Every step of the channels is a step of PushLifecycle or none.
LEMMA LifecycleStep ==
  ASSUME IndInv, ReplyInv, [Next]_vars
  PROVE  [Lifecycle!Next]_(Lifecycle!vars)
<1> USE DEF IndInv, PushInv, ReplyInv
<1>1. CASE UNCHANGED vars
  <2>1. RepliesUnderWay' = RepliesUnderWay
    BY <1>1 DEF vars, ioVars, msgVars, netVars, RepliesUnderWay
  <2>2. \A q \in PushId : Stage(q)' = Stage(q)
    BY <1>1 DEF vars, appVars, ioVars, msgVars, Stage, Drawn, Waiting, InTable
  <2>3. QED
    BY <2>1, <2>2, FadeStep
<1>2. ASSUME NEW c \in Channel, Garble(c) PROVE Lifecycle!Next
  BY <1>2, ServerTypes, PublishLife DEF Garble
<1>3. ASSUME NEW c \in Channel, NEW e \in Event, Publish(c, e) PROVE Lifecycle!Next
  BY <1>3, ServerTypes, PublishLife DEF Publish
<1>4. CASE Io \/ OpenHandler
  BY <1>4, IoLife, RejoinLife, TakeLife, RespondLife DEF Io
<1>5. CASE Server
  BY <1>2, <1>3, <1>5, IoLife, ReplyLife DEF Server
<1>6. ASSUME NEW t \in Thread, Begin(t) PROVE [Lifecycle!Next]_(Lifecycle!vars)
  BY <1>6, ThreadLife, RemoveLife, DrawRefLife DEF Begin
<1>7. ASSUME NEW t \in Thread, Call(t) PROVE [Lifecycle!Next]_(Lifecycle!vars)
  BY <1>7, ThreadLife, EmplaceLife DEF Call
<1> QED
  BY <1>1, <1>4, <1>5, <1>6, <1>7 DEF Next

\* The life of every push is the one PushLifecycle promises: its hooks run for
\* at most one message, that message is the server's reply to this very push,
\* and a push that was given up is never answered.
THEOREM LifecycleImplemented ==
  ASSUME MaxRef < RefMod PROVE Spec => ImplementsLifecycle
<1>1. Init => Lifecycle!Init
  <2> SUFFICES ASSUME Init PROVE Lifecycle!Init
    OBVIOUS
  <2>1. \A p \in PushId : Stage(p) = "unborn"
    BY DEF Init, Stage
  <2>2. RepliesUnderWay = {}
    BY DEF Init, RepliesUnderWay
  <2>3. QED
    BY <2>1, <2>2 DEF Lifecycle!Init
<1>2. IndInv /\ ReplyInv /\ [Next]_vars => [Lifecycle!Next]_(Lifecycle!vars)
  BY LifecycleStep
<1> QED
  BY <1>1, <1>2, Invariance, ReplyInvariance, PTL DEF Spec, ImplementsLifecycle, Lifecycle!Spec

\* What has become of a push is final: once answered it is answered no more
\* and not lost, once lost no late or repeated reply brings it back.
OutcomeKept ==
  \A p \in PushId : Stage(p) \in {"answered", "lost"} => Stage(p)' = Stage(p)

\* PushLifecycle changes no answered or lost push.
LEMMA OutcomeStep ==
  ASSUME [Lifecycle!Next]_(Lifecycle!vars)
  PROVE  OutcomeKept
<1> SUFFICES ASSUME NEW p \in PushId, Stage(p) \in {"answered", "lost"}
             PROVE  Stage(p)' = Stage(p)
  BY DEF OutcomeKept
<1> DEFINE old == [q \in PushId |-> Stage(q)]
           new == [q \in PushId |-> Stage(q)']
<1>1. old[p] = Stage(p) /\ new[p] = Stage(p)' /\ DOMAIN old = PushId
  OBVIOUS
<1>2. CASE new = old
  BY <1>1, <1>2
<1>3. ASSUME NEW q \in PushId,
             \/ Lifecycle!Issue(q) \/ Lifecycle!Refuse(q)
             \/ Lifecycle!ServerReplies(q) \/ Lifecycle!Answer(q)
      PROVE  new[p] = old[p]
  <2>1. new = old \/ (old[q] \in {"unborn", "pending"}
                      /\ \E s \in {"pending", "lost", "answered"} : new = [old EXCEPT ![q] = s])
    BY <1>3 DEF Lifecycle!Issue, Lifecycle!Refuse, Lifecycle!ServerReplies, Lifecycle!Answer
  <2> HIDE DEF old, new
  <2>2. q # p \/ new = old
    BY <1>1, <2>1
  <2>3. QED
    BY <1>1, <2>1, <2>2
<1>4. ASSUME NEW S \in SUBSET PushId, Lifecycle!GiveUp(S) PROVE new[p] = old[p]
  <2>1. /\ \A q \in S : old[q] = "pending"
        /\ new = [q \in PushId |-> IF q \in S THEN "lost" ELSE old[q]]
    BY <1>4 DEF Lifecycle!GiveUp
  <2> HIDE DEF old, new
  <2>2. p \notin S
    BY <1>1, <2>1
  <2>3. QED
    BY <2>1, <2>2
<1> QED
  BY <1>1, <1>2, <1>3, <1>4 DEF Lifecycle!Next, Lifecycle!vars

\* The outcome of every push is final, through reconnects, repeated replies and
\* the ends of its caller's and its channel's lives.
THEOREM OutcomeFinal ==
  ASSUME MaxRef < RefMod PROVE Spec => [][OutcomeKept]_vars
<1>1. IndInv /\ ReplyInv /\ [Next]_vars => [OutcomeKept]_vars
  BY LifecycleStep, OutcomeStep
<1> QED
  BY <1>1, Invariance, ReplyInvariance, PTL DEF Spec

=============================================================================
