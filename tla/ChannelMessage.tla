--------------------------- MODULE ChannelMessage ---------------------------
(***************************************************************************)
(* A frame from the socket to the hooks of a push: on_message parses it,   *)
(* from_json takes the fields (channel_message.cpp), the payload as text,  *)
(* and invokeCallbacks parses that text for its status (push.cpp).         *)
(*                                                                         *)
(* The same parser runs twice, token by token (JsonParser).  An exception  *)
(* ends the frame: it leaves the handler and on_message with it.           *)
(***************************************************************************)
EXTENDS JsonGrammar

CONSTANTS
  Frames,    \* what the server may send, as trees
  Messages   \* messages that a push may send

\* The fields of a message, in the order of std::map.
Fields == <<"event", "join_ref", "payload", "ref", "topic">>
Field == Range(Fields)

ASSUME MessageAssumption ==
  /\ \A f \in Frames : IsTree(f)
  /\ Messages \subseteq [Field -> Str]
  /\ Field \subseteq Str

VARIABLES
  sent,      \* history: the frame as it was sent, or NoFrame
  phase,     \* "frame", "payload", "invoked", or "thrown"
  message,   \* the channelMessage, NoMessage before from_json is through
  status     \* the status whose hooks run, Absent before that

vars == <<parseVars, lexerVars, sent, phase, message, status>>

NoFrame == <<>>
NoMessage == [topic |-> "", event |-> "", payload |-> <<>>, ref |-> "", join_ref |-> ""]

-----------------------------------------------------------------------------
(* Members of the object at n: contains, and at or operator[].             *)

Has(heap, n, k) == k \in DOMAIN heap[n][2]
Member(heap, n, k) == heap[heap[n][2][k]]

Absent == <<"absent", 0>>
Null == Leaf("null")
IsString(v) == v[1] = "string"

\* to_json: every field is a string, the payload too, whatever text it holds.
to_json(m) ==
  << <<"object", [i \in DOMAIN Fields |-> <<Fields[i], i + 1>>]>> >>
    \o [i \in DOMAIN Fields |-> <<"string", m[Fields[i]]>>]

-----------------------------------------------------------------------------
(* from_json, of the object at the root of j.                              *)

\* j.at("ref") has a value that is not null.
HasRef(j) == Has(j, 1, "ref") /\ Member(j, 1, "ref") # Null

\* The fields that from_json insists on.  Mutant: a null ref is not passed over.
RefIsTaken(j) ==
  /\ \A k \in {"topic", "event", "payload"} : Has(j, 1, k)
  /\ IsString(Member(j, 1, "topic")) /\ IsString(Member(j, 1, "event"))
  /\ Has(j, 1, "ref") => IsString(Member(j, 1, "ref"))
  /\ Has(j, 1, "join_ref") => HasRef(j) /\ IsString(Member(j, 1, "join_ref"))
Complies(j) ==
  /\ \A k \in {"topic", "event", "payload"} : Has(j, 1, k)
  /\ IsString(Member(j, 1, "topic")) /\ IsString(Member(j, 1, "event"))
  /\ HasRef(j) => IsString(Member(j, 1, "ref"))
  /\ Has(j, 1, "join_ref") =>
       Has(j, 1, "ref") /\ (HasRef(j) => IsString(Member(j, 1, "join_ref")))

\* The join_ref is taken when there is a ref that is not null.  Mutant: the
\* field above it is taken.
RefAgain(j) == IF HasRef(j) THEN Member(j, 1, "ref")[2] ELSE ""
JoinRef(j) ==
  IF Has(j, 1, "join_ref") /\ HasRef(j) THEN Member(j, 1, "join_ref")[2] ELSE ""

from_json(j) ==
  [topic |-> Member(j, 1, "topic")[2], event |-> Member(j, 1, "event")[2],
   payload |-> Dump(j)[j[1][2]["payload"]],
   ref |-> IF HasRef(j) THEN Member(j, 1, "ref")[2] ELSE "",
   join_ref |-> JoinRef(j)]

Decode ==
  /\ phase = "frame" /\ pc = "accepted"
  /\ IF dom.heap[1][1] = "object" /\ Complies(dom.heap)
     THEN /\ message' = from_json(dom.heap) /\ phase' = "payload"
          /\ ParseAgain(from_json(dom.heap).payload)
     ELSE phase' = "thrown" /\ UNCHANGED <<parseVars, lexerVars, message>>
  /\ UNCHANGED <<sent, status>>

-----------------------------------------------------------------------------
(* invokeCallbacks.                                                        *)

\* json["status"] of the payload at n, when it converts to a string.  Absent: the
\* conversion throws, or operator[] does because the payload is neither an object
\* nor null.  Mutant: a payload without a status counts as ok.
HasStatus(heap, n) ==
  heap[n][1] = "object" /\ Has(heap, n, "status") /\ IsString(Member(heap, n, "status"))
OkByDefault(heap, n) ==
  IF HasStatus(heap, n) THEN Member(heap, n, "status") ELSE <<"string", "ok">>
Status(heap, n) == IF HasStatus(heap, n) THEN Member(heap, n, "status") ELSE Absent

InvokeCallbacks ==
  /\ phase = "payload" /\ pc = "accepted"
  /\ status' = Status(dom.heap, 1)
  /\ phase' = IF Status(dom.heap, 1) = Absent THEN "thrown" ELSE "invoked"
  /\ UNCHANGED <<parseVars, lexerVars, sent, message>>

-----------------------------------------------------------------------------

Init ==
  /\ ParserInit
  /\ \/ sent = NoFrame /\ todo = Free
     \/ /\ sent \in Frames \cup {to_json(m) : m \in Messages}
        /\ todo = Spelled(sent)[1]
  /\ phase = "frame" /\ message = NoMessage /\ status = Absent

Next ==
  \/ ParseNext /\ UNCHANGED <<sent, phase, message, status>>
  \/ Decode
  \/ InvokeCallbacks

Spec == Init /\ [][Next]_vars

-----------------------------------------------------------------------------
(* Properties.                                                             *)

\* What was sent, and a field of it.
SentFrame == Meaning(sent)[1]
Sent(k) == IF k \in DOMAIN SentFrame[2] THEN SentFrame[2][k] ELSE Absent

\* Frames as a Phoenix server writes them: a ref and a join_ref that may be null, a
\* join_ref never without a ref.
ServerForm ==
  /\ sent # NoFrame /\ SentFrame[1] = "object"
  /\ IsString(Sent("topic")) /\ IsString(Sent("event")) /\ Sent("payload") # Absent
  /\ IsString(Sent("ref")) \/ Sent("ref") \in {Null, Absent}
  /\ IsString(Sent("join_ref")) \/ Sent("join_ref") \in {Null, Absent}
  /\ Sent("join_ref") # Absent => Sent("ref") # Absent

\* The one frame of that form that from_json throws on: it looks for a null in ref,
\* not in join_ref, before it takes the join_ref as a string.
NullJoinRef == IsString(Sent("ref")) /\ Sent("join_ref") = Null

\* Every field of a message is the one that was sent under its name, in whatever order
\* and also when another was sent under it before, and what the text of the payload is
\* parsed to is the payload that was sent.  Where there is a ref the join_ref is the
\* one sent or none was; the join_ref may only be missing where the ref was null.  A
\* frame of the server's form gets through parse and from_json, and its payload through
\* the second parse, unless it has a null join_ref beside a ref: that one never does.
AsSent ==
  /\ SentFrame[1] = "object"
  /\ Sent("topic") = <<"string", message.topic>>
  /\ Sent("event") = <<"string", message.event>>
  /\ Sent("payload") # Absent /\ (pc = "accepted" => Root = Sent("payload"))
  /\ IF IsString(Sent("ref"))
     THEN /\ Sent("ref")[2] = message.ref
          /\ Sent("join_ref") # Absent => Sent("join_ref") = <<"string", message.join_ref>>
     ELSE message.ref = ""
  /\ message.join_ref # "" => Sent("join_ref") = <<"string", message.join_ref>>
DecodedAsSent ==
  /\ sent # NoFrame /\ message # NoMessage => AsSent /\ ~NullJoinRef
  /\ ServerForm =>
       pc # "rejected" /\ (phase = "thrown" => message # NoMessage \/ NullJoinRef)

\* The hooks that run are those for the status in the payload as it was sent, and a
\* payload that has one never ends in an exception, unless the whole frame does.
SentStatus ==
  LET payload == Sent("payload") IN
  IF payload[1] = "object" /\ "status" \in DOMAIN payload[2] THEN payload[2]["status"] ELSE Absent
HooksGetStatus ==
  /\ sent # NoFrame /\ phase = "invoked" => IsString(SentStatus) /\ status = SentStatus
  /\ ServerForm /\ ~NullJoinRef /\ IsString(SentStatus) => phase # "thrown"

=============================================================================
