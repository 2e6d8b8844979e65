--------------------------- MODULE PhoenixChannel ---------------------------
(***************************************************************************)
(* The channels that one phoenix::socket multiplexes over its connection:  *)
(* channel.cpp, push.cpp and the part of socket.cpp that hands out refs,   *)
(* keeps the topic -> channel registry, rejoins the channels when the      *)
(* connection opens and dispatches the messages that arrive.               *)
(*                                                                         *)
(* Actors.  Application threads (Thread) create channels and run the       *)
(* chain  channel.push(..).receive(..).start(..)  one library call at a    *)
(* time.  The I/O thread (variables io...) runs the websocketpp handlers   *)
(* one after the other.  The Phoenix server and the network answer, repeat *)
(* an answer, stay silent, or lose the connection.                         *)
(*                                                                         *)
(* A step is what one thread does while it holds a mutex, or between two   *)
(* of them.  m_toppicToChannelsMutex is the only mutex held across steps:  *)
(* the I/O thread has it exactly in the phases of Locked.  The connection  *)
(* is one object here; whether there is only one is a question about the   *)
(* socket's life cycle, not about this module.                             *)
(***************************************************************************)
EXTENDS Naturals, Sequences, FiniteSets

CONSTANTS
  Channel,    \* the channel objects that getChannel can create
  Topic,      \* the topic each of them is created with
  Thread,     \* the application threads
  PushId,     \* bound: identities of the phoenix::push objects
  Event,      \* the application events a channel can subscribe to
  Callback,   \* the callbacks given to channel::on
  HookSets,   \* the sets of statuses a caller may subscribe to with receive()
  Kinds,      \* what the threads push: a subset of {"join", "push"}
  Timeouts,   \* may start() be given a nonzero duration: a subset of BOOLEAN
  Answers,    \* the statuses of the server's replies, "bad" for none
  JoinRefs,   \* does the server write join_ref: a subset of BOOLEAN
  RefMod,     \* number of values of m_ref, 2^32 for uint32_t
  MaxRef,     \* bound: no ref is drawn once m_ref has reached this value
  MaxInbox,   \* bound: messages in flight from the server
  None        \* the empty string, the end iterator, no push

Status == {"ok", "error"}
Ref == 0 .. RefMod - 1
Topics == {Topic[c] : c \in Channel}

ASSUME ChannelAssumption ==
  /\ RefMod \in Nat \ {0}
  /\ MaxRef \in Nat
  /\ MaxInbox \in Nat
  /\ HookSets \subseteq SUBSET Status
  /\ Kinds \subseteq {"join", "push"}
  /\ Answers \subseteq Status \cup {"bad"}
  /\ Timeouts \subseteq BOOLEAN /\ JoinRefs \subseteq BOOLEAN
  /\ None \notin Ref /\ None \notin Channel /\ None \notin PushId

VARIABLES
  m_ref,      \* socket::m_ref, the next ref to hand out
  registry,   \* socket::m_toppicToChannels, as the set of its channels
  joinRef,    \* channel::m_joinRef, None before the channel is constructed
  handlers,   \* channel::m_topicToCallback, as <<event, callback>> pairs
  idToPush,   \* channel::m_idToPush, ref -> push or None
  push,       \* the push objects, None for one not yet constructed
  pc,         \* what each application thread does next
  cur,        \* the phoenix::push& each application thread works on
  ioPc,       \* what the I/O thread does next
  ioMsg,      \* on_message: the message being dispatched
  ioTodo,     \* the channels its loop over the registry has not reached
  ioChan,     \* processMessage: the channel
  ioCbs,      \* processMessage: the copied callbacks not yet called
  ioPush,     \* processMessage: the push moved out of the table
  m_state,    \* socket::m_state
  link,       \* the websocketpp connection: "down", "open" or "closing"
  sent,       \* the pushes whose frame was written on this connection
  inbox       \* the messages the server has put on it, oldest first

refVars == <<m_ref, joinRef>>
appVars == <<pc, cur>>
msgVars == <<ioMsg, ioChan, ioCbs, ioPush>>
ioVars  == <<ioPc, ioTodo, msgVars>>
netVars == <<m_state, link, sent, inbox>>
vars == <<refVars, registry, handlers, idToPush, push, appVars, ioVars, netVars>>

-----------------------------------------------------------------------------
(* Data.                                                                   *)

PushRecord == [chan: Channel, ref: Ref, kind: {"join", "rejoin", "push"},
               hooks: SUBSET Status, timer: BOOLEAN, answers: Nat]

\* A message as the server wrote it.  "bad" is a payload without a string
\* status, "malformed" is text that json::parse or from_json rejects.  "to"
\* is the push the server answers, which the client does not see.
Message == [topic: Topics, event: Event \cup {"phx_reply"},
            ref: Ref \cup {None}, joinRef: Ref \cup {None},
            status: Status \cup {"bad", "malformed"}, to: PushId \cup {None}]

ASSUME NoneAssumption == None \notin PushRecord /\ None \notin Message

Unused == {p \in PushId : push[p] = None}

\* getRef returns m_ref++ under m_mutex; the uint32_t wraps.
\* Mutants: the increment is forgotten; the counter is wider than a Ref.
SameRef(r) == r
WiderRef(r) == r + 1
NextRef(r) == (r + 1) % RefMod

NewPush(c, kind, hooks) ==
  [chan |-> c, ref |-> m_ref, kind |-> kind, hooks |-> hooks,
   timer |-> FALSE, answers |-> 0]

\* emplace on an unordered_map inserts only where the key is free.
\* Mutant: operator[] instead of emplace.
AlwaysFree(c, r) == TRUE
CanEmplace(c, r) == idToPush[c][r] = None

\* A channel just constructed, or destroyed, holds no push.
EmptyTable == [r \in Ref |-> None]

\* m_idToPush.erase(ref).  Mutants: the push is copied and its entry stays;
\* the whole table is cleared.
KeepEntry(c, r) == idToPush
EraseAll(c, r) == [idToPush EXCEPT ![c] = EmptyTable]
Erase(c, r) == [idToPush EXCEPT ![c][r] = None]

\* The phases in which the I/O thread holds m_toppicToChannelsMutex.
Locked == ioPc \in {"rejoin", "dispatch", "callbacks", "respond"}

\* lock_guard on m_toppicToChannelsMutex.  Mutant: no lock_guard.
NoLock == TRUE
RegistryFree == ~Locked

\* websocketpp's close(): has an effect only on an open connection.
Close == IF link = "open" THEN "closing" ELSE link

\* Bound: one unused push is kept back for each channel that the open handler
\* has still to rejoin, so that the bound on pushes never stops it half way.
ToRejoin == CASE ioPc = "opening" -> registry
              [] ioPc = "rejoin" -> ioTodo
              [] OTHER -> {}
SparePush == Cardinality(Unused) > Cardinality(ToRejoin)

-----------------------------------------------------------------------------
(* Application threads.                                                    *)

Goto(t, label) == pc' = [pc EXCEPT ![t] = label] /\ UNCHANGED cur
Return(t) == pc' = [pc EXCEPT ![t] = "idle"] /\ cur' = [cur EXCEPT ![t] = None]

\* socket::getChannel: always a new channel, even for a topic already there.
GetChannel(t, c) ==
  /\ pc[t] = "idle" /\ RegistryFree
  /\ joinRef[c] = None /\ m_ref < MaxRef
  /\ ioPc = "opening" => SparePush
  /\ registry' = registry \cup {c}
  /\ joinRef' = [joinRef EXCEPT ![c] = m_ref]
  /\ m_ref' = NextRef(m_ref)
  /\ UNCHANGED <<handlers, idToPush, push, appVars, ioVars, netVars>>

\* socket::removeChannel destroys every channel of the topic.  That no thread
\* still works on one of them is the caller's duty, here a guard.
RemoveChannel(t, c) ==
  LET gone == {d \in registry : Topic[d] = Topic[c]} IN
  /\ pc[t] = "idle" /\ RegistryFree
  /\ c \in registry
  /\ \A u \in Thread : pc[u] # "idle" => push[cur[u]].chan \notin gone
  /\ registry' = registry \ gone
  /\ handlers' = [d \in Channel |-> IF d \in gone THEN {} ELSE handlers[d]]
  /\ idToPush' = [d \in Channel |-> IF d \in gone THEN EmptyTable ELSE idToPush[d]]
  /\ UNCHANGED <<refVars, push, appVars, ioVars, netVars>>

\* channel::push and channel::join: getRef ...
DrawRef(t, c, kind) ==
  /\ pc[t] = "idle" /\ c \in registry /\ m_ref < MaxRef
  /\ SparePush
  /\ \E p \in Unused :
       /\ push' = [push EXCEPT ![p] = NewPush(c, kind, {})]
       /\ cur' = [cur EXCEPT ![t] = p]
  /\ m_ref' = NextRef(m_ref)
  /\ pc' = [pc EXCEPT ![t] = "emplace"]
  /\ UNCHANGED <<joinRef, registry, handlers, idToPush, ioVars, netVars>>

\* ... then emplace under m_mutex, or throw "Can start push".
Emplace(t) ==
  LET p == cur[t]  c == push[p].chan  r == push[p].ref IN
  /\ pc[t] = "emplace"
  /\ IF CanEmplace(c, r)
     THEN /\ idToPush' = [idToPush EXCEPT ![c][r] = p]
          /\ Goto(t, "receive")
     ELSE /\ Return(t)
          /\ UNCHANGED idToPush
  /\ UNCHANGED <<refVars, registry, handlers, push, ioVars, netVars>>

\* push::receive, the chain of calls that subscribe to the statuses.
Receive(t) ==
  /\ pc[t] = "receive"
  /\ \E S \in HookSets : push' = [push EXCEPT ![cur[t]].hooks = S]
  /\ Goto(t, "send")
  /\ UNCHANGED <<refVars, registry, handlers, idToPush, ioVars, netVars>>

\* push::start: send() throws unless the connection is open, and then leaves
\* the push in the table; afterwards only a nonzero timeout touches the push.
Send(t) ==
  /\ pc[t] = "send"
  /\ \/ /\ link = "open"
        /\ sent' = sent \cup {cur[t]}
        /\ \E timed \in Timeouts : IF timed THEN Goto(t, "arm") ELSE Return(t)
     \/ /\ link # "open"
        /\ Return(t)
        /\ UNCHANGED sent
  /\ UNCHANGED <<refVars, registry, handlers, idToPush, push, ioVars,
                 m_state, link, inbox>>

\* channel::setTimeout on the channel's own io_service.  Nothing runs that
\* io_service, so the timer's handler is no action of this module.  If the
\* push has left the table the assignment writes to a dead object.
Arm(t) ==
  LET p == cur[t] IN
  /\ pc[t] = "arm"
  /\ push' = [push EXCEPT ![p].timer = idToPush[push[p].chan][push[p].ref] = p]
  /\ Return(t)
  /\ UNCHANGED <<refVars, registry, handlers, idToPush, ioVars, netVars>>

\* channel::on and channel::off.
On(t, c, e, k) ==
  /\ pc[t] = "idle" /\ c \in registry
  /\ handlers' = [handlers EXCEPT ![c] = @ \cup {<<e, k>>}]
  /\ UNCHANGED <<refVars, registry, idToPush, push, appVars, ioVars, netVars>>

Off(t, c, e) ==
  /\ pc[t] = "idle" /\ c \in registry
  /\ handlers' = [handlers EXCEPT ![c] = {h \in @ : h[1] # e}]
  /\ UNCHANGED <<refVars, registry, idToPush, push, appVars, ioVars, netVars>>

\* channel::offId.  That no thread is still building the push is the caller's
\* duty, here a guard.
OffId(t, c, r) ==
  /\ pc[t] = "idle" /\ c \in registry
  /\ \A u \in Thread : pc[u] # "idle" => cur[u] # idToPush[c][r]
  /\ idToPush' = Erase(c, r)
  /\ UNCHANGED <<refVars, registry, handlers, push, appVars, ioVars, netVars>>

-----------------------------------------------------------------------------
(* The I/O thread: the connection opens and closes.                        *)

IoGoto(label) == ioPc' = label
\* The end of a handler, or an exception that unwinds it.
IoLeave(label) ==
  /\ ioPc' = label /\ ioTodo' = {} /\ ioMsg' = None /\ ioChan' = None
  /\ ioCbs' = {} /\ ioPush' = None

\* websocketpp marks the connection open, then calls the open handler.
OpenHandler ==
  /\ ioPc = "idle" /\ link = "down"
  /\ Cardinality(Unused) >= Cardinality(registry)     \* bound: see ToRejoin
  /\ link' = "open"
  /\ IoGoto("opening")
  /\ UNCHANGED <<refVars, registry, handlers, idToPush, push, appVars, ioTodo,
                 msgVars, m_state, sent, inbox>>

\* rejoinAllChannels takes the registry mutex.
RejoinAll ==
  /\ ioPc = "opening"
  /\ IoGoto("rejoin")
  /\ ioTodo' = registry
  /\ UNCHANGED <<refVars, registry, handlers, idToPush, push, appVars, msgVars,
                 netVars>>

\* join().receive("ok").receive("error").start(0) for one channel.  A ref in
\* use and a connection that is no longer open throw out of the handler.
RejoinChannel(c) ==
  /\ ioPc = "rejoin" /\ c \in ioTodo /\ m_ref < MaxRef
  /\ m_ref' = NextRef(m_ref)
  /\ \E p \in Unused :
       /\ push' = [push EXCEPT ![p] = NewPush(c, "rejoin", Status)]
       /\ idToPush' = IF CanEmplace(c, m_ref)
                      THEN [idToPush EXCEPT ![c][m_ref] = p] ELSE idToPush
       /\ IF CanEmplace(c, m_ref) /\ link = "open"
          THEN /\ sent' = sent \cup {p}
               /\ ioTodo' = ioTodo \ {c}
               /\ UNCHANGED <<ioPc, msgVars>>
          ELSE /\ IoLeave("caught")
               /\ UNCHANGED sent
  /\ UNCHANGED <<joinRef, registry, handlers, appVars, m_state, link, inbox>>

\* rejoinAllChannels returns and its lock is released.
\* Mutant: the loop is left before its last channel.
RejoinAny == TRUE
RejoinedAll == ioTodo = {}
RejoinDone ==
  /\ ioPc = "rejoin" /\ RejoinedAll
  /\ IoLeave("rejoined")
  /\ UNCHANGED <<refVars, registry, handlers, idToPush, push, appVars, netVars>>

\* The open handler goes on under m_cvMutex.
PublishOpened ==
  /\ ioPc = "rejoined"
  /\ m_state' = "OPENED"
  /\ IoGoto("idle")
  /\ UNCHANGED <<refVars, registry, handlers, idToPush, push, appVars, ioTodo,
                 msgVars, link, sent, inbox>>

\* What the catch block does to the connection.  Mutant: it leaves it open.
LeaveOpen == link
CloseCaught == Close

\* The catch block around m_client.run().  If the connection is no longer
\* open, close() reports an error and its close handler is still to come.
Catch ==
  /\ ioPc = "caught"
  /\ link' = CloseCaught
  /\ IoGoto("idle")
  /\ UNCHANGED <<refVars, registry, handlers, idToPush, push, appVars, ioTodo,
                 msgVars, m_state, sent, inbox>>

\* What the close handler leaves in m_state.  Mutant: it does not change it.
SameState == m_state
EndState == "CLOSED"

\* The close handler; the next OpenHandler is the end of its connect().
CloseHandler ==
  /\ ioPc = "idle" /\ link = "closing"
  /\ m_state' = EndState
  /\ link' = "down" /\ sent' = {} /\ inbox' = <<>>
  /\ UNCHANGED <<refVars, registry, handlers, idToPush, push, appVars, ioVars>>

-----------------------------------------------------------------------------
(* The I/O thread: a message arrives.                                      *)

\* on_message: parse, take the registry mutex, find the channels of the topic.
OnMessage ==
  /\ ioPc = "idle" /\ link = "open" /\ inbox # <<>>
  /\ inbox' = Tail(inbox)
  /\ IF Head(inbox).status = "malformed"
     THEN IoLeave("caught")
     ELSE /\ IoGoto("dispatch")
          /\ ioMsg' = Head(inbox)
          /\ ioTodo' = {c \in registry : Topic[c] = Head(inbox).topic}
          /\ UNCHANGED <<ioChan, ioCbs, ioPush>>
  /\ UNCHANGED <<refVars, registry, handlers, idToPush, push, appVars, m_state,
                 link, sent>>

\* from_json reads join_ref only when *ref* is not null.
JoinRefRead(m) == IF m.ref = None THEN None ELSE m.joinRef

\* processMessage drops a message for another join.  Mutant: != becomes ==.
IsOwnRef(c) == joinRef[c] = JoinRefRead(ioMsg)
IsOtherJoin(c) == JoinRefRead(ioMsg) \notin {None, joinRef[c]}

\* The loop's ++it.  Mutant: the iterator stays where it is.
Stay(c) == ioTodo
Advance(c) == ioTodo \ {c}

\* processMessage up to the end of its first critical section.
ProcessMessage(c) ==
  /\ ioPc = "dispatch" /\ c \in ioTodo
  /\ ioTodo' = Advance(c)
  /\ IF IsOtherJoin(c)
     THEN UNCHANGED <<ioPc, ioChan, ioCbs>>
     ELSE /\ IoGoto("callbacks")
          /\ ioChan' = c
          /\ ioCbs' = {k \in Callback : <<ioMsg.event, k>> \in handlers[c]}
  /\ UNCHANGED <<refVars, registry, handlers, idToPush, push, appVars, ioMsg,
                 ioPush, netVars>>

\* The copied callbacks run without m_mutex; each may throw.
InvokeCallback(k) ==
  /\ ioPc = "callbacks" /\ k \in ioCbs
  /\ \/ /\ ioCbs' = ioCbs \ {k}
        /\ UNCHANGED <<ioPc, ioTodo, ioMsg, ioChan, ioPush>>
     \/ IoLeave("caught")
  /\ UNCHANGED <<refVars, registry, handlers, idToPush, push, appVars, netVars>>

\* The second critical section: move the push with the message's ref out.
TakePush ==
  LET p == IF ioMsg.ref = None THEN None ELSE idToPush[ioChan][ioMsg.ref] IN
  /\ ioPc = "callbacks" /\ ioCbs = {}
  /\ ioPush' = p
  /\ IF p = None
     THEN IoGoto("dispatch") /\ UNCHANGED idToPush
     ELSE IoGoto("respond") /\ idToPush' = Erase(ioChan, ioMsg.ref)
  /\ UNCHANGED <<refVars, registry, handlers, push, appVars, ioTodo, ioMsg,
                 ioChan, ioCbs, netVars>>

\* push::processResponse.  A payload without a status throws before any hook
\* runs; a caller's hook may throw; the "error" hook of a rejoin closes the
\* connection, and throws if that is no longer open.
ProcessResponse ==
  LET p == push[ioPush]
      hooked == ioMsg.status \in p.hooks
      closes == hooked /\ p.kind = "rejoin" /\ ioMsg.status = "error" IN
  /\ ioPc = "respond"
  /\ push' = IF ioMsg.status = "bad" THEN push
             ELSE [push EXCEPT ![ioPush].answers = @ + 1]
  /\ link' = IF closes THEN Close ELSE link
  /\ \/ /\ ioMsg.status # "bad" /\ (closes => link = "open")
        /\ IoGoto("dispatch") /\ ioPush' = None
        /\ UNCHANGED <<ioTodo, ioMsg, ioChan, ioCbs>>
     \/ /\ \/ ioMsg.status = "bad"
           \/ hooked /\ p.kind # "rejoin"
           \/ closes /\ link # "open"
        /\ IoLeave("caught")
  /\ UNCHANGED <<refVars, registry, handlers, idToPush, appVars, m_state, sent,
                 inbox>>

\* The loop ends and the mutex is released.
EndDispatch ==
  /\ ioPc = "dispatch" /\ ioTodo = {}
  /\ IoLeave("idle")
  /\ UNCHANGED <<refVars, registry, handlers, idToPush, push, appVars, netVars>>

-----------------------------------------------------------------------------
(* The server and the network.                                             *)

Deliver(m) ==
  /\ link = "open" /\ Len(inbox) < MaxInbox
  /\ inbox' = Append(inbox, m)
  /\ UNCHANGED <<refVars, registry, handlers, idToPush, push, appVars, ioVars,
                 m_state, link, sent>>

\* A reply to a push sent on this connection, with or without its join_ref;
\* the server may also repeat it.
Reply(p, status) ==
  \E written \in JoinRefs :
    Deliver([topic |-> Topic[push[p].chan], event |-> "phx_reply",
             ref |-> push[p].ref,
             joinRef |-> IF written THEN joinRef[push[p].chan] ELSE None,
             status |-> status, to |-> p])

\* An event for a channel that has joined on this connection: a broadcast
\* to the topic, or a message to this one join of it.
Publish(c, e) ==
  /\ \E p \in sent : push[p].chan = c /\ push[p].kind # "push"
  /\ \E written \in JoinRefs :
       Deliver([topic |-> Topic[c], event |-> e, ref |-> None,
                joinRef |-> IF written THEN joinRef[c] ELSE None,
                status |-> "ok", to |-> None])

Garble(c) ==
  Deliver([topic |-> Topic[c], event |-> "phx_reply", ref |-> None,
           joinRef |-> None, status |-> "malformed", to |-> None])

\* The peer or the network ends the connection, or the heartbeat thread's
\* close() does: nothing can be sent, the close handler is still to come.
Lose ==
  /\ link = "open"
  /\ link' = "closing"
  /\ UNCHANGED <<refVars, registry, handlers, idToPush, push, appVars, ioVars,
                 m_state, sent, inbox>>

-----------------------------------------------------------------------------

Init ==
  /\ m_ref = 0
  /\ registry = {}
  /\ joinRef = [c \in Channel |-> None]
  /\ handlers = [c \in Channel |-> {}]
  /\ idToPush = [c \in Channel |-> EmptyTable]
  /\ push = [p \in PushId |-> None]
  /\ pc = [t \in Thread |-> "idle"]
  /\ cur = [t \in Thread |-> None]
  /\ ioPc = "idle" /\ ioMsg = None /\ ioTodo = {} /\ ioChan = None
  /\ ioCbs = {} /\ ioPush = None
  /\ m_state = "INITIAL" /\ link = "down" /\ sent = {} /\ inbox = <<>>

\* A call an application thread has begun.
Call(t) == Emplace(t) \/ Receive(t) \/ Send(t) \/ Arm(t)

\* The calls it may begin.
Begin(t) ==
  \E c \in Channel :
    \/ GetChannel(t, c)
    \/ RemoveChannel(t, c)
    \/ \E kind \in Kinds : DrawRef(t, c, kind)
    \/ \E e \in Event, k \in Callback : On(t, c, e, k)
    \/ \E e \in Event : Off(t, c, e)
    \/ \E r \in Ref : OffId(t, c, r)

Io ==
  \/ RejoinAll \/ RejoinDone \/ PublishOpened \/ Catch \/ CloseHandler
  \/ OnMessage \/ TakePush \/ ProcessResponse \/ EndDispatch
  \/ \E c \in Channel : RejoinChannel(c) \/ ProcessMessage(c)
  \/ \E k \in Callback : InvokeCallback(k)

Server ==
  \/ \E p \in sent, s \in Answers : Reply(p, s)
  \/ \E c \in Channel : Garble(c)
  \/ \E c \in Channel, e \in Event : Publish(c, e)
  \/ Lose

Next == Io \/ OpenHandler \/ Server \/ \E t \in Thread : Call(t) \/ Begin(t)

Spec == Init /\ [][Next]_vars

\* The operating system schedules the I/O thread and a thread that is inside
\* a call; nothing obliges the application to call, the network to connect or
\* the server to answer.
Fairness == WF_vars(Io) /\ \A t \in Thread : WF_vars(Call(t))
FairSpec == Spec /\ Fairness

-----------------------------------------------------------------------------
(* Properties.                                                             *)

\* The push is in its channel's table; processMessage has not answered it yet;
\* channel::push has drawn its ref and not yet stored it; q joins channel c.
InTable(p) == push[p] # None /\ idToPush[push[p].chan][push[p].ref] = p
Waiting(p) == InTable(p) \/ ioPush = p
Drawn(p) == \E t \in Thread : pc[t] = "emplace" /\ cur[t] = p
JoinOf(q, c) == push[q] # None /\ push[q].chan = c /\ push[q].kind # "push"

\* The types of the variables.
TypeOK ==
  /\ m_ref \in Ref
  /\ registry \subseteq Channel
  /\ joinRef \in [Channel -> Ref \cup {None}]
  /\ handlers \in [Channel -> SUBSET (Event \X Callback)]
  /\ idToPush \in [Channel -> [Ref -> PushId \cup {None}]]
  /\ push \in [PushId -> PushRecord \cup {None}]
  /\ pc \in [Thread -> {"idle", "emplace", "receive", "send", "arm"}]
  /\ cur \in [Thread -> PushId \cup {None}]
  /\ ioPc \in {"idle", "opening", "rejoin", "rejoined", "caught", "dispatch",
               "callbacks", "respond"}
  /\ ioMsg \in Message \cup {None}
  /\ ioTodo \subseteq Channel
  /\ ioChan \in Channel \cup {None}
  /\ ioCbs \subseteq Callback
  /\ ioPush \in PushId \cup {None}
  /\ m_state \in {"INITIAL", "OPENED", "CLOSED"}
  /\ link \in {"down", "open", "closing"}
  /\ sent \subseteq PushId
  /\ inbox \in Seq(Message)

\* However often the server repeats a reply, and whatever offId, removeChannel
\* and reconnects do in between, the hooks of a push run for at most one
\* message: processMessage takes the push out of m_idToPush before it answers.
AnsweredAtMostOnce ==
  \A p \in PushId : push[p] # None => push[p].answers <= 1

\* The push that processMessage finds under a reply's ref is the one the
\* server replied to, also with several channels on the topic and refs drawn
\* by several threads (as long as m_ref has not wrapped).
ReplyReachesItsPush == ioPc = "respond" => ioMsg.to = ioPush

\* The phoenix::push& that a caller holds between push(), receive() and
\* start() refers to a push still in m_idToPush: no reply, rejoin or
\* removal by another thread has destroyed it in between (as long as start()
\* is given no timeout: after send() the reply races with the timer).
NoDanglingPush ==
  \A t \in Thread : pc[t] \in {"receive", "send", "arm"} => InTable(cur[t])

\* The channels that on_message and rejoinAllChannels still visit are alive:
\* removeChannel cannot destroy one under the I/O thread's loop.
VisitedChannelsLive ==
  /\ ioTodo \subseteq registry
  /\ ioChan # None => ioChan \in registry

\* A push that waits for its reply is never displaced by another push with
\* the same ref, even when m_ref has wrapped.
KeepsPending ==
  \A c \in Channel, r \in Ref : idToPush[c][r] # None =>
    idToPush'[c][r] \in {idToPush[c][r], None}
PendingNeverReplaced == [][KeepsPending]_vars

\* The open handler has sent a join of c on this connection; c has been created
\* since the last of its joins: a rejoin has an older ref than c's first one.
IsRejoin(p) == push[p] # None /\ push[p].kind = "rejoin"
Rejoined(c) == \E p \in sent : IsRejoin(p) /\ push[p].chan = c
CreatedSince(c) ==
  joinRef[c] # None /\ \A p \in sent : IsRejoin(p) => push[p].ref < joinRef[c]

\* rejoinAllChannels returns only when it has sent a join on this connection for
\* every channel of the registry.  OPENED, which wakes waitForConnection, is
\* published after the registry has been let go: a registered channel that was
\* not rejoined then is one that getChannel has created in between (as long as
\* m_ref has not wrapped).
ReturnsRejoined ==
  ioPc = "rejoin" /\ ioPc' = "rejoined" => \A c \in registry : Rejoined(c)
PublishesRejoined ==
  m_state # "OPENED" /\ m_state' = "OPENED" =>
    \A c \in registry : Rejoined(c) \/ CreatedSince(c)
OpenedAfterRejoin == [][ReturnsRejoined /\ PublishesRejoined]_vars

\* Where a push is in the life PushLifecycle describes.
Stage(p) ==
  IF push[p] = None THEN "unborn"
  ELSE IF push[p].answers # 0 THEN "answered"
  ELSE IF Drawn(p) THEN "unborn"
  ELSE IF Waiting(p) THEN "pending"
  ELSE "lost"

RepliesUnderWay ==
  ({inbox[i].to : i \in DOMAIN inbox} \cup {IF ioMsg = None THEN None ELSE ioMsg.to})
    \ {None}

Lifecycle == INSTANCE PushLifecycle
  WITH stage <- [p \in PushId |-> Stage(p)], replies <- RepliesUnderWay

\* The channels implement PushLifecycle while m_ref has not wrapped: the table
\* keyed by ref, the two critical sections of processMessage and the handlers
\* of a lost connection together give each push at most one answer, its own.
ImplementsLifecycle == Lifecycle!Spec

\* The handlers of a message and of the opening run only while there is a
\* connection, whatever closes it meanwhile.
HandlersHaveLink == ioPc # "idle" => link # "down"

\* The connection the channels see is a Link, as the socket's are (see
\* PhoenixSocket): no interleaving of a rejoin with the loss of the connection
\* publishes OPENED after the close handler has run.
TheLink == INSTANCE Link WITH published <- m_state = "OPENED"
ImplementsLink == TheLink!Spec

\* A reply that has reached the client does not leave its push waiting while
\* the connection stays open.
ReplyEndsWait ==
  \A p \in PushId :
    Waiting(p) /\ (\E i \in DOMAIN inbox : inbox[i].to = p)
      ~> ~Waiting(p) \/ link # "open"

\* After the connection has opened, waitForConnection is woken, or the
\* connection is given up so that the next one can wake it: an exception in
\* the middle of rejoinAllChannels does not leave an open connection unusable.
OpeningEnds == ioPc = "opening" ~> m_state = "OPENED" \/ link # "open"

\* Neither getChannel nor removeChannel has to wait for ever: no message and no
\* rejoin keeps m_toppicToChannelsMutex locked.
RegistryReleased == Locked ~> ~Locked

\* A message with the join_ref of another join is dropped, which is what the
\* first lines of processMessage are for.
StaleJoinRefDropped ==
  ioPc \in {"callbacks", "respond"} => ioMsg.joinRef \in {None, joinRef[ioChan]}

\* On one connection the client joins each topic at most once.
SingleSubscription ==
  \A p, q \in sent :
    /\ "push" \notin {push[p].kind, push[q].kind}
    /\ Topic[push[p].chan] = Topic[push[q].chan]
    => p = q

\* Once a channel has joined, its pushes on a later connection go out after
\* the rejoin that makes the server know the channel there.
JoinBeforePush ==
  \A p \in sent :
    (\E q \in PushId : JoinOf(q, push[p].chan) /\ push[q].answers > 0) =>
      \E q \in sent : JoinOf(q, push[p].chan)

\* A push started with a nonzero duration does not wait for ever.
TimeoutEndsWait ==
  \A p \in PushId : InTable(p) /\ push[p].timer ~> ~InTable(p)

-----------------------------------------------------------------------------
(* The inductive invariant behind TypeOK, AnsweredAtMostOnce and           *)
(* VisitedChannelsLive.                                                    *)

\* A thread inside a call works on a push that has been constructed.
CallsOK ==
  \A t \in Thread : pc[t] # "idle" => cur[t] \in PushId /\ push[cur[t]] # None

\* What each phase of the I/O thread has at hand; frames are written by pushes.
IoOK ==
  /\ ioPc \in {"dispatch", "callbacks", "respond"} => ioMsg # None
  /\ ioPc \in {"callbacks", "respond"} => ioChan # None
  /\ ioPc = "respond" => ioPush # None
  /\ ioPush # None => push[ioPush] # None
  /\ \A p \in sent : push[p] # None

\* Outside the critical section the I/O thread looks at no channel.
LoopsLocked == ~Locked => ioTodo = {} /\ ioChan = None

\* An entry of the table is the unanswered push with that channel and ref.
TableOK ==
  \A c \in Channel, r \in Ref : idToPush[c][r] # None =>
    /\ push[idToPush[c][r]] # None
    /\ push[idToPush[c][r]].chan = c
    /\ push[idToPush[c][r]].ref = r
    /\ push[idToPush[c][r]].answers = 0

\* The push taken for a reply is in no table and not answered yet.
TakenOK ==
  ioPush # None =>
    /\ push[ioPush].answers = 0
    /\ \A c \in Channel, r \in Ref : idToPush[c][r] # ioPush

\* A push drawn and not stored yet belongs to one thread only.
DrawnOK ==
  \A t \in Thread : pc[t] = "emplace" =>
    /\ push[cur[t]].answers = 0
    /\ cur[t] # ioPush
    /\ \A c \in Channel, r \in Ref : idToPush[c][r] # cur[t]
    /\ \A u \in Thread : pc[u] = "emplace" /\ cur[u] = cur[t] => u = t

\* Types with what they depend on; the life of a push; all of it.
TypeInv == TypeOK /\ CallsOK /\ IoOK
PushInv == TableOK /\ TakenOK /\ DrawnOK /\ AnsweredAtMostOnce
IndInv == TypeInv /\ PushInv /\ LoopsLocked /\ VisitedChannelsLive /\ HandlersHaveLink

-----------------------------------------------------------------------------
(* What the other properties need besides.                                 *)

\* While m_ref has not wrapped, no two pushes have drawn the same ref.
RefsOK ==
  /\ m_ref <= MaxRef
  /\ \A p \in PushId : push[p] # None => push[p].ref < m_ref
  /\ \A p, q \in PushId :
       push[p] # None /\ push[q] # None /\ push[p].ref = push[q].ref => p = q

\* A message with a ref answers a push whose frame went out on this connection,
\* under the ref of that push.
ReplyOK(m) ==
  /\ m.ref # None => m.to # None
  /\ m.to # None => m.to \in sent /\ m.ref = push[m.to].ref

\* All messages on their way are of that kind, and the I/O thread has dropped
\* the last one when the close handler forgets what was sent.
MessagesOK ==
  /\ \A i \in DOMAIN inbox : ReplyOK(inbox[i])
  /\ ioMsg # None => ReplyOK(ioMsg) /\ ioPc \in {"dispatch", "callbacks", "respond"}
  /\ ioPush # None => ioPc = "respond"

\* No two callers work on one push, and none sends a push before it is stored.
CallersApart ==
  \A t \in Thread : pc[t] # "idle" =>
    /\ \A u \in Thread : pc[u] # "idle" /\ cur[u] = cur[t] => u = t
    /\ pc[t] = "emplace" => cur[t] \notin sent

\* Without timeouts a caller has nothing more to do once its push is sent, and
\* until then the push stays where emplace has put it.
CallersOK ==
  \A t \in Thread : pc[t] # "idle" =>
    /\ pc[t] # "arm"
    /\ cur[t] \notin sent
    /\ pc[t] # "emplace" => InTable(cur[t])

\* The open handler has joined every channel that its loop is past, and after
\* the loop every channel that is not newer; callers send no rejoins.
RejoinedOK ==
  /\ ioPc = "rejoin" => \A c \in registry \ ioTodo : Rejoined(c)
  /\ ioPc = "rejoined" => \A c \in registry : Rejoined(c) \/ CreatedSince(c)
  /\ \A t \in Thread : pc[t] # "idle" => ~IsRejoin(cur[t])

\* Replies find their push; callers keep theirs.
ReplyInv == RefsOK /\ MessagesOK /\ CallersApart /\ ReplyReachesItsPush

=============================================================================
