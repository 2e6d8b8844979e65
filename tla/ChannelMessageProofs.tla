------------------------ MODULE ChannelMessageProofs ------------------------
(***************************************************************************)
(* Theorems about ChannelMessage, on those about the grammar: the fields   *)
(* and the status that come out of the two parses are those that were      *)
(* sent, in frames of any size and depth.                                  *)
(***************************************************************************)
EXTENDS ChannelMessage, JsonGrammarProofs

-----------------------------------------------------------------------------
(* The parser and a text that it is given.                                 *)

\* Nothing but the whole text goes on after the end.
LEMMA EndToken ==
  ASSUME Good(pc, states, dom), Parsing, Token("end")
  PROVE  pc' \in {"accepted", "rejected"}
<1> DEFINE t == "end"
<1>1. t \notin Str /\ t \notin {"null", "number"} /\ t # ":"
  BY DumpAssumption DEF NonString
<1>2. t # "{" /\ t # "[" /\ t # "}" /\ t # "]" /\ t # ","
  BY Zenon
<1>3. Token(t)
  OBVIOUS
<1>4. t \notin Scalar
  BY <1>1 DEF Scalar
<1> HIDE DEF t
<1>5. \A st : Value(t, st) => pc' = "rejected"
  BY <1>2, <1>4, Zenon DEF Value, Fail, Goto
<1>6. First(t) \/ Colon1(t) \/ Element(t) \/ Colon(t) \/ NextKey(t) \/ InArray(t) \/ InObject(t) => pc' = "rejected"
  BY <1>1, <1>2, <1>5, Zenon DEF First, Colon1, Element, Colon, NextKey, InArray, InObject, Fail, Goto
<1>7. AtEnd(t) => pc' \in {"accepted", "rejected"}
  BY DEF AtEnd, Goto
<1>8. pc \in {"value", "first", "colon1", "element", "colon", "key", "next"}
  BY DEF Good, Places, Parsing
<1>9. \/ \E st : Value(t, st)
      \/ First(t) \/ Colon1(t) \/ Element(t) \/ Colon(t) \/ NextKey(t) \/ InArray(t) \/ InObject(t) \/ AtEnd(t)
  <2> HIDE DEF Value
  <2> QED
    BY <1>3, <1>8 DEF Token
<1> QED
  BY <1>5, <1>6, <1>7, <1>9


\* With the tokens q and the end to come, the parser gets to the value V.
Expects(p, d, q, V) ==
  IF p = "accepted" THEN V = ValueAt(d.heap)[1] ELSE Agrees(Str, p, d, q \o <<"end">>, V)

\* A text is taken to its end, and gives its value.
LEMMA TextStarts ==
  ASSUME NEW t, NEW V, IsValue(Str, t, V)
  PROVE  Expects("value", NoDom, t, V) /\ t \in Seq(Tok) /\ t # <<>>
<1> DEFINE end == <<"end">>
           r == t \o end
<1>1. t \in Seq(Tok) /\ <<t, V>> \in Grammar(Str)[Len(t)].values
  BY ValueTyped
<1>2. Len(t) \in Nat /\ Len(t) # 0
  <2>1. Len(t) \in Nat
    BY <1>1
  <2>2. LeafText(Str, Len(t), <<t, V>>) \/ EmptyText(Len(t), <<t, V>>) \/ FullText(Str, Len(t), <<t, V>>)
    BY <1>1, <2>1, ValueForm
  <2> QED
    <3> DEFINE n == Len(t)
               p == <<t, V>>
    <3> HIDE DEF n, p
    <3>1. LeafText(Str, n, p) \/ EmptyText(n, p) \/ FullText(Str, n, p)
      BY <2>2 DEF n, p
    <3>2. n # 0
      <4>1. LeafText(Str, n, p) => n = 1
        BY Zenon DEF LeafText
      <4>2. EmptyText(n, p) => n # 0
        BY DEF EmptyText
      <4>3. FullText(Str, n, p) => n # 0
        BY DEF FullText
      <4> QED
        BY <3>1, <4>1, <4>2, <4>3
    <3> QED
      BY <2>1, <3>2 DEF n
<1>3. r \in Seq(Tok)
  BY <1>1, Marks, OneToken, Concat
<1>4. Denotes(Str, r, V)
  BY DEF Denotes
<1> HIDE DEF r
<1>5. <<>> \o r = r
  BY <1>3
<1>6. Denotes(Str, <<>> \o r, V) <=> Agrees(Str, "value", NoDom, r, V)
  BY <1>3, GoesOnStart DEF GoesOn
<1>7. Agrees(Str, "value", NoDom, r, V)
  BY <1>4, <1>5, <1>6
<1> QED
  BY <1>1, <1>2, <1>7 DEF Expects, r

\* While a text of JSON is due, the parser has not given up.
LEMMA NeverRejected ==
  ASSUME NEW d, NEW q, NEW V PROVE ~Expects("rejected", d, q, V)
<1> DEFINE r == q \o <<"end">>
<1> HIDE DEF r
<1>1. ~Agrees(Str, "rejected", d, r, V)
  BY AgreesAt
<1> QED
  BY <1>1 DEF Expects, r

\* A token of a text of JSON that is given keeps the rest of it due.
LEMMA GivenStep ==
  ASSUME ParserInv, todo \in Seq(Tok), NEW V, Expects(pc, dom, todo, V), ParseNext
  PROVE  todo' \in Seq(Tok) /\ Expects(pc', dom', todo', V)
<1> DEFINE end == "end"
           done == <<end>>
           t == IF todo = <<>> THEN end ELSE Head(todo)
<1>1. todo # Free
  <2>1. Str \cup Vocabulary = Tok
    BY ParserAssumption DEF Vocabulary, Tok
  <2>2. TokenSeq = Seq(Tok)
    BY <2>1 DEF TokenSeq
  <2> QED
    BY <2>2, DumpAssumption
<1>2. Parsing /\ Token(t) /\ todo' = IF todo = <<>> THEN <<>> ELSE Tail(todo)
  BY <1>1 DEF ParseNext, TakeAny, ScanFirst, NumberFirst, TakeGiven
<1>3. end \in Tok /\ done \in Seq(Tok)
  BY Marks, OneToken
<1>4. t \in Tok /\ todo' \in Seq(Tok)
  BY <1>2, <1>3
<1>5. Good(pc, states, dom)
  BY GoodIsInv
<1>6. AgreesStep(Str, t)
  BY <1>2, <1>4, <1>5, TokenAgrees DEF Tok
<1>7. Agrees(Str, pc, dom, todo \o done, V)
  BY <1>2 DEF Expects, Parsing
<1>8. CASE todo = <<>>
  <2> DEFINE nothing == <<>>
  <2>1. nothing \in Seq(Tok) /\ todo \o done = Lead(end, nothing)
    BY <1>3, <1>8 DEF Lead
  <2>2. t = end /\ todo' = nothing
    BY <1>2, <1>8
  <2> HIDE DEF nothing, t, done
  <2>3. Agrees(Str, pc', dom', nothing, V)
    BY <1>6, <1>7, <2>1, <2>2 DEF AgreesStep
  <2>4. pc' \in {"accepted", "rejected"}
    BY <1>2, <1>5, <2>2, EndToken DEF end
  <2>5. /\ Agrees(Str, "accepted", dom', nothing, V) => V = ValueAt(dom'.heap)[1]
        /\ ~Agrees(Str, "rejected", dom', nothing, V)
    BY AgreesAt
  <2>6. Expects(pc', dom', todo', V)
    BY <2>3, <2>4, <2>5 DEF Expects
  <2> QED
    BY <1>4, <2>6
<1>9. CASE todo # <<>>
  <2> DEFINE r == todo' \o done
  <2>1. r \in Seq(Tok)
    BY <1>3, <1>4, Concat
  <2>2. todo = <<t>> \o todo'
    BY <1>2, <1>9
  <2>3. (<<t>> \o todo') \o done = <<t>> \o r
    <3> DEFINE o == <<t>>
    <3>1. o \in Seq(Tok) /\ todo' \in Seq(Tok) /\ done \in Seq(Tok)
      BY <1>3, <1>4
    <3> HIDE DEF o, done
    <3> QED
      BY <3>1, ConcatAssociative DEF r
  <2>4. todo \o done = Lead(t, r)
    BY <2>2, <2>3 DEF Lead
  <2> HIDE DEF r, t, done
  <2>5. Agrees(Str, pc', dom', r, V)
    BY <1>6, <1>7, <2>1, <2>4 DEF AgreesStep
  <2>6. pc' = "accepted" => V = ValueAt(dom'.heap)[1]
    BY <2>5, AgreesAt
  <2>7. Expects(pc', dom', todo', V)
    BY <2>5, <2>6 DEF Expects, r, done
  <2> QED
    BY <1>4, <2>7
<1> QED
  BY <1>8, <1>9

-----------------------------------------------------------------------------
(* The fields of a message.                                                *)

\* A member as parse has built it and as it was sent.
MemberAs(v, w) ==
  /\ IsString(v) <=> IsString(w)
  /\ v = Null <=> w = Null
  /\ w # Absent /\ (IsString(v) => v = w /\ w = <<"string", v[2]>>)

\* The member k of a value.
ValueOf(v, k) == IF k \in DOMAIN v[2] THEN v[2][k] ELSE Absent
FieldAs(g, v, k) ==
  IF Has(g, 1, k) THEN MemberAs(Member(g, 1, k), ValueOf(v, k)) ELSE ValueOf(v, k) = Absent

\* Each node of a heap has the members, and the type, of its value.
LEMMA MembersAlike ==
  ASSUME NEW g \in Seq(Node), IsForest(g), NEW n \in 1 .. Len(g)
  PROVE  MemberAs(g[n], ValueAt(g)[n]) /\ ValueAt(g)[n][1] = g[n][1]
<1> DEFINE v == g[n]
           w == ValueAt(g)[n]
<1>1. /\ v[1] \notin Container => w = v
      /\ v[1] \in Container => w = <<v[1], [k \in DOMAIN v[2] |-> ValueAt(g)[v[2][k]]]>>
  BY ValueIs
<1>2. v \in Node
  OBVIOUS
<1>3. Null = <<"null", "null">>
  BY DumpAssumption DEF Null, Leaf, NonString
<1> HIDE DEF v, w
<1>4. v = <<v[1], v[2]>> /\ v[1] \in {"string", "null", "number", "array", "object"}
  BY <1>2 DEF Node
<1>5. CASE v[1] \in Container
  <2>1. w[1] = v[1] /\ v[1] \notin {"string", "null", "absent"}
    BY <1>1, <1>5 DEF Container
  <2> QED
    BY <1>3, <2>1 DEF MemberAs, IsString, Absent, v, w
<1>6. CASE v[1] \notin Container
  <2>1. w = v /\ v[1] # "absent"
    BY <1>1, <1>4, <1>6
  <2>2. v # Absent
    BY <2>1 DEF Absent
  <2>3. IsString(v) => v = <<"string", v[2]>>
    BY <1>4 DEF IsString
  <2> QED
    BY <2>1, <2>2, <2>3 DEF MemberAs, v, w
<1> QED
  BY <1>5, <1>6

\* An object that was parsed, and the value that it has.
RootAs(g, v) ==
  /\ g[1][1] = "object" => /\ v[1] = "object" /\ DOMAIN v[2] = DOMAIN g[1][2]
                           /\ \A k \in DOMAIN g[1][2] : MemberAs(Member(g, 1, k), v[2][k])
  /\ v[1] = "object" => g[1][1] = "object"

\* So has the root.
LEMMA RootAlike ==
  ASSUME NEW g \in Seq(Node), IsForest(g), g # <<>>
  PROVE  /\ RootAs(g, ValueAt(g)[1])
         /\ g[1][1] = "object" => \A k \in DOMAIN g[1][2] :
              g[1][2][k] \in 1 .. Len(g) /\ ValueAt(g)[1][2][k] = ValueAt(g)[g[1][2][k]]
<1> DEFINE v == ValueAt(g)[1]
           kids == g[1][2]
<1>1. 1 \in 1 .. Len(g) /\ Len(g) \in Nat
  OBVIOUS
<1>2. v[1] = g[1][1]
  BY <1>1, MembersAlike
<1>3. ASSUME g[1][1] = "object"
      PROVE  v[2] = [k \in DOMAIN kids |-> ValueAt(g)[kids[k]]] /\ \A k \in DOMAIN kids : kids[k] \in 1 .. Len(g)
  <2>1. g[1][1] \in Container
    BY <1>3 DEF Container
  <2>2. v = <<g[1][1], [k \in DOMAIN kids |-> ValueAt(g)[kids[k]]]>>
    BY <1>1, <2>1, ValueIs
  <2>3. \A k \in DOMAIN kids : kids[k] \in 2 .. Len(g)
    BY <1>1, <2>1, ForestDescends DEF Descends
  <2> QED
    BY <1>1, <2>2, <2>3
<1>4. ASSUME g[1][1] = "object", NEW k \in DOMAIN kids PROVE MemberAs(Member(g, 1, k), v[2][k])
  <2>1. kids[k] \in 1 .. Len(g) /\ v[2][k] = ValueAt(g)[kids[k]]
    BY <1>3, <1>4
  <2>2. MemberAs(g[kids[k]], ValueAt(g)[kids[k]])
    BY <2>1, MembersAlike
  <2> QED
    BY <2>1, <2>2 DEF Member
<1> HIDE DEF v
<1>5. RootAs(g, v)
  BY <1>2, <1>3, <1>4 DEF RootAs
<1> QED
  BY <1>3, <1>5 DEF v

\* A field is a string, null or absent in the heap as it is in the value.
LEMMA FieldsAlike ==
  ASSUME NEW g, NEW v, RootAs(g, v), g[1][1] = "object", NEW k
  PROVE  FieldAs(g, v, k)
BY DEF RootAs, FieldAs, ValueOf, Has

\* What AsSent says of the message m when v was sent, and ServerForm and NullJoinRef
\* of v.
AsSentOf(v, m) ==
  /\ v[1] = "object"
  /\ ValueOf(v, "topic") = <<"string", m.topic>>
  /\ ValueOf(v, "event") = <<"string", m.event>>
  /\ ValueOf(v, "payload") # Absent
  /\ IF IsString(ValueOf(v, "ref"))
     THEN /\ ValueOf(v, "ref")[2] = m.ref
          /\ ValueOf(v, "join_ref") # Absent =>
               ValueOf(v, "join_ref") = <<"string", m.join_ref>>
     ELSE m.ref = ""
  /\ m.join_ref # "" => ValueOf(v, "join_ref") = <<"string", m.join_ref>>
ServerFormOf(v) ==
  /\ v[1] = "object"
  /\ IsString(ValueOf(v, "topic")) /\ IsString(ValueOf(v, "event")) /\ ValueOf(v, "payload") # Absent
  /\ IsString(ValueOf(v, "ref")) \/ ValueOf(v, "ref") \in {Null, Absent}
  /\ IsString(ValueOf(v, "join_ref")) \/ ValueOf(v, "join_ref") \in {Null, Absent}
  /\ ValueOf(v, "join_ref") # Absent => ValueOf(v, "ref") # Absent
NullJoinRefOf(v) == IsString(ValueOf(v, "ref")) /\ ValueOf(v, "join_ref") = Null

\* With the frame that was sent for v, these are the properties.
LEMMA OfSent ==
  /\ \A k : Sent(k) = ValueOf(SentFrame, k)
  /\ AsSent <=> AsSentOf(SentFrame, message) /\ (pc = "accepted" => Root = Sent("payload"))
  /\ ServerForm <=> sent # NoFrame /\ ServerFormOf(SentFrame)
  /\ NullJoinRef <=> NullJoinRefOf(SentFrame)
<1>1. \A k : Sent(k) = ValueOf(SentFrame, k)
  BY DEF Sent, ValueOf
<1> QED
  BY <1>1 DEF AsSent, AsSentOf, ServerForm, ServerFormOf, NullJoinRef, NullJoinRefOf

\* A string is none of the other values a field may have.
LEMMA NoString == ~IsString(Null) /\ ~IsString(Absent) /\ \A s : IsString(<<"string", s>>)
<1>1. Null = <<"null", "null">>
  BY DumpAssumption DEF Null, Leaf, NonString
<1> QED
  BY <1>1 DEF Absent, IsString

\* A message is never taken from a frame with a null join_ref beside a ref.
LEMMA NoNullTaken == \A v, m : AsSentOf(v, m) => ~NullJoinRefOf(v)
<1> SUFFICES ASSUME NEW v, NEW m, AsSentOf(v, m), NullJoinRefOf(v) PROVE FALSE
  OBVIOUS
<1>1. IsString(ValueOf(v, "ref")) /\ ValueOf(v, "join_ref") = Null
  BY DEF NullJoinRefOf
<1>2. ValueOf(v, "join_ref") = Absent \/ ValueOf(v, "join_ref") = <<"string", m.join_ref>>
  BY <1>1 DEF AsSentOf
<1>3. Null # Absent
  BY DumpAssumption DEF Null, Leaf, NonString, Absent
<1> QED
  BY <1>1, <1>2, <1>3, NoString

\* What from_json takes is what was sent.
LEMMA FromJson ==
  ASSUME NEW g, NEW v, RootAs(g, v), g[1][1] = "object", Complies(g)
  PROVE  /\ AsSentOf(v, from_json(g)) /\ Has(g, 1, "payload")
         /\ from_json(g).payload = Dump(g)[g[1][2]["payload"]]
<1> DEFINE m == from_json(g)
<1>1. \A k : FieldAs(g, v, k)
  BY FieldsAlike
<1>2. /\ Has(g, 1, "topic") /\ Has(g, 1, "event") /\ Has(g, 1, "payload")
      /\ IsString(Member(g, 1, "topic")) /\ IsString(Member(g, 1, "event"))
      /\ HasRef(g) => IsString(Member(g, 1, "ref"))
      /\ Has(g, 1, "join_ref") /\ HasRef(g) => IsString(Member(g, 1, "join_ref"))
  BY DEF Complies
<1>3. /\ m.topic = Member(g, 1, "topic")[2] /\ m.event = Member(g, 1, "event")[2]
      /\ m.payload = Dump(g)[g[1][2]["payload"]]
      /\ m.ref = IF HasRef(g) THEN Member(g, 1, "ref")[2] ELSE ""
      /\ m.join_ref = JoinRef(g)
  BY DEF from_json
<1> HIDE DEF m
<1>4. v[1] = "object"
  BY DEF RootAs
<1>5. ValueOf(v, "topic") = <<"string", m.topic>>
  BY <1>1, <1>2, <1>3 DEF FieldAs, MemberAs
<1>6. ValueOf(v, "event") = <<"string", m.event>>
  BY <1>1, <1>2, <1>3 DEF FieldAs, MemberAs
<1>14. ValueOf(v, "payload") # Absent
  BY <1>1, <1>2 DEF FieldAs, MemberAs
<1>7. ~IsString(Null) /\ ~IsString(Absent) /\ \A s : IsString(<<"string", s>>)
  BY NoString
<1>8. ASSUME HasRef(g)
      PROVE  IsString(ValueOf(v, "ref")) /\ ValueOf(v, "ref") = <<"string", m.ref>>
  BY <1>1, <1>2, <1>3, <1>8 DEF HasRef, FieldAs, MemberAs
<1>9. ASSUME ~HasRef(g) PROVE ~IsString(ValueOf(v, "ref")) /\ m.ref = "" /\ m.join_ref = ""
  BY <1>1, <1>3, <1>7, <1>9 DEF HasRef, FieldAs, MemberAs, JoinRef
<1>10. ASSUME HasRef(g), Has(g, 1, "join_ref")
       PROVE  ValueOf(v, "join_ref") = <<"string", m.join_ref>>
  <2>1. m.join_ref = Member(g, 1, "join_ref")[2]
    BY <1>3, <1>10 DEF JoinRef
  <2> QED
    BY <1>1, <1>2, <1>10, <2>1 DEF FieldAs, MemberAs
<1>11. ASSUME ~Has(g, 1, "join_ref") PROVE ValueOf(v, "join_ref") = Absent /\ m.join_ref = ""
  BY <1>1, <1>3, <1>11 DEF FieldAs, JoinRef
<1>12. IF IsString(ValueOf(v, "ref"))
       THEN /\ ValueOf(v, "ref")[2] = m.ref
            /\ ValueOf(v, "join_ref") # Absent =>
                 ValueOf(v, "join_ref") = <<"string", m.join_ref>>
       ELSE m.ref = ""
  <2>1. \A s : <<"string", s>>[2] = s
    OBVIOUS
  <2>2. IsString(ValueOf(v, "ref")) => HasRef(g)
    BY <1>9
  <2>3. HasRef(g) => ValueOf(v, "ref")[2] = m.ref /\ IsString(ValueOf(v, "ref"))
    BY <1>8, <2>1
  <2>4. ValueOf(v, "join_ref") # Absent => Has(g, 1, "join_ref")
    BY <1>11
  <2>5. HasRef(g) /\ Has(g, 1, "join_ref") =>
          ValueOf(v, "join_ref") = <<"string", m.join_ref>>
    BY <1>10
  <2> QED
    BY <1>9, <2>2, <2>3, <2>4, <2>5
<1>13. m.join_ref # "" => ValueOf(v, "join_ref") = <<"string", m.join_ref>>
  BY <1>9, <1>10, <1>11
<1>15. AsSentOf(v, m)
  BY <1>4, <1>5, <1>6, <1>12, <1>13, <1>14 DEF AsSentOf
<1> QED
  BY <1>2, <1>3, <1>15 DEF m

\* from_json has no objection to a frame as a server writes it, but the one.
LEMMA FormComplies ==
  ASSUME NEW g, NEW v, RootAs(g, v), ServerFormOf(v), ~NullJoinRefOf(v)
  PROVE  g[1][1] = "object" /\ Complies(g)
<1>1. g[1][1] = "object"
  BY DEF RootAs, ServerFormOf
<1>2. \A k : FieldAs(g, v, k)
  BY <1>1, FieldsAlike
<1>3. ~IsString(Absent)
  BY DEF Absent, IsString
<1>4. /\ IsString(ValueOf(v, "topic")) /\ IsString(ValueOf(v, "event"))
      /\ ValueOf(v, "payload") # Absent
  BY DEF ServerFormOf
<1>5. Has(g, 1, "topic") /\ IsString(Member(g, 1, "topic"))
  BY <1>2, <1>3, <1>4 DEF FieldAs, MemberAs
<1>6. Has(g, 1, "event") /\ IsString(Member(g, 1, "event"))
  BY <1>2, <1>3, <1>4 DEF FieldAs, MemberAs
<1>7. Has(g, 1, "payload")
  BY <1>2, <1>4 DEF FieldAs
<1>8. HasRef(g) => IsString(Member(g, 1, "ref"))
  BY <1>2 DEF FieldAs, MemberAs, HasRef, ServerFormOf
<1>9. ASSUME Has(g, 1, "join_ref")
      PROVE  Has(g, 1, "ref") /\ (HasRef(g) => IsString(Member(g, 1, "join_ref")))
  <2>1. Has(g, 1, "ref") /\ ValueOf(v, "join_ref") # Absent
    BY <1>2, <1>9, NoString DEF FieldAs, MemberAs, ServerFormOf
  <2>2. HasRef(g) => IsString(ValueOf(v, "ref"))
    BY <1>2, <1>8 DEF FieldAs, MemberAs, HasRef
  <2>3. IsString(ValueOf(v, "ref")) => IsString(ValueOf(v, "join_ref"))
    BY <2>1 DEF ServerFormOf, NullJoinRefOf
  <2> QED
    BY <1>2, <1>9, <2>1, <2>2, <2>3 DEF FieldAs, MemberAs
<1> QED
  BY <1>1, <1>5, <1>6, <1>7, <1>8, <1>9 DEF Complies

\* The status in a payload, when it is a string, and otherwise what is not one.
StatusOf(v) == IF v[1] = "object" /\ "status" \in DOMAIN v[2] THEN v[2]["status"] ELSE Absent
\* The status that invokeCallbacks reads in the heap is that of the value.
LEMMA StatusSame ==
  ASSUME NEW g, NEW v, RootAs(g, v)
  PROVE  /\ Status(g, 1) # Absent <=> IsString(StatusOf(v))
         /\ Status(g, 1) # Absent => Status(g, 1) = StatusOf(v)
<1>0. ~IsString(Absent)
  BY DEF Absent, IsString
<1>1. CASE g[1][1] = "object" /\ Has(g, 1, "status")
  <2> DEFINE x == Member(g, 1, "status")
             w == v[2]["status"]
  <2>1. MemberAs(x, w) /\ StatusOf(v) = w
    BY <1>1 DEF RootAs, Has, StatusOf
  <2>2. HasStatus(g, 1) <=> IsString(x)
    BY <1>1 DEF HasStatus
  <2>3. Status(g, 1) = IF HasStatus(g, 1) THEN x ELSE Absent
    BY DEF Status
  <2> HIDE DEF x, w
  <2> QED
    BY <2>1, <2>2, <2>3 DEF MemberAs
<1>2. CASE ~(g[1][1] = "object" /\ Has(g, 1, "status"))
  <2>1. ~HasStatus(g, 1) /\ StatusOf(v) = Absent
    BY <1>2 DEF HasStatus, RootAs, StatusOf, Has
  <2> QED
    BY <1>0, <2>1 DEF Status
<1> QED
  BY <1>1, <1>2

-----------------------------------------------------------------------------
(* What is sent.                                                           *)

\* A tree that is sent is one of the trees whose text has a meaning.
LEMMA TreeOf ==
  ASSUME NEW tree, IsTree(tree) PROVE TreeIn(Str, tree, Len(tree)) /\ Len(tree) >= 1
<1> DEFINE N == Len(tree)
<1>1. N \in Nat /\ DOMAIN tree = 1 .. N /\ N >= 1
  <2> DEFINE R == Range(tree)
  <2>1. tree \in Seq(R) /\ tree # <<>>
    BY DEF IsTree
  <2> HIDE DEF R
  <2> QED
    BY <2>1
<1>2. ASSUME NEW n \in 1 .. N
      PROVE  \/ \E t \in Str \cup {"null", "number"} : tree[n] = Leaf(t)
             \/ \E kids \in Seq(n + 1 .. N) : tree[n] = <<"array", kids>>
             \/ \E parts \in Seq(Str \X (n + 1 .. N)) : tree[n] = <<"object", parts>>
  <2> DEFINE v == tree[n]
             A == Seq(n + 1 .. N)
             O == Seq(Str \X (n + 1 .. N))
  <2>1. \/ v \in ({"string"} \X Str) \cup {<<"null", "null">>, <<"number", "number">>}
        \/ v \in {"array"} \X A
        \/ v \in {"object"} \X O
    BY <1>1 DEF IsTree
  <2> HIDE DEF v, A, O
  <2>2. CASE v \in {"string"} \X Str
    <3>1. v = Leaf(v[2]) /\ v[2] \in Str
      BY <2>2 DEF Leaf
    <3> QED
      BY <3>1 DEF v
  <2>3. CASE v \in {<<"null", "null">>, <<"number", "number">>}
    <3>1. "null" \notin Str /\ "number" \notin Str
      BY DumpAssumption DEF NonString
    <3>2. v = Leaf("null") \/ v = Leaf("number")
      BY <2>3, <3>1 DEF Leaf
    <3> QED
      BY <3>2 DEF v
  <2>4. CASE v \in {"array"} \X A
    <3>1. v = <<"array", v[2]>> /\ v[2] \in A
      BY <2>4
    <3> QED
      BY <3>1 DEF v, A
  <2>5. CASE v \in {"object"} \X O
    <3>1. v = <<"object", v[2]>> /\ v[2] \in O
      BY <2>5
    <3> QED
      BY <3>1 DEF v, O
  <2> QED
    BY <2>1, <2>2, <2>3, <2>4, <2>5
<1> QED
  BY <1>1, <1>2 DEF TreeIn

\* Functions on the first numbers are sequences.
LEMMA FunctionSeq ==
  ASSUME NEW S, NEW n \in Nat, NEW f \in [1 .. n -> S] PROVE f \in Seq(S) /\ Len(f) = n
OBVIOUS

\* A sequence after one more element.
Prefixed(q, a, s, S) ==
  /\ q \in Seq(S) /\ Len(q) = Len(s) + 1
  /\ q[1] = a /\ \A n \in 2 .. Len(s) + 1 : q[n] = s[n - 1]

\* One token before a text.
LEMMA OneBefore ==
  ASSUME NEW S, NEW a \in S, NEW s \in Seq(S)
  PROVE  Prefixed(<<a>> \o s, a, s, S)
<1> DEFINE r == <<a>>
<1>1. r \in Seq(S) /\ Len(r) = 1 /\ r[1] = a
  OBVIOUS
<1> HIDE DEF r
<1>2. r \o s \in Seq(S) /\ Len(r \o s) = Len(r) + Len(s)
  BY <1>1, ConcatProperties
<1>3. \A n \in 1 .. Len(r) + Len(s) : (r \o s)[n] = IF n <= Len(r) THEN r[n] ELSE s[n - Len(r)]
  BY <1>1, ConcatProperties
<1>4. Len(s) \in Nat
  OBVIOUS
<1>5. (r \o s)[1] = a /\ \A n \in 2 .. Len(s) + 1 : (r \o s)[n] = s[n - 1]
  <2> DEFINE l == Len(s)
             q == r \o s
  <2>1. l \in Nat /\ \A n \in 1 .. 1 + l : q[n] = IF n <= 1 THEN r[n] ELSE s[n - 1]
    BY <1>1, <1>3, <1>4
  <2> HIDE DEF l, q
  <2>2. 1 \in 1 .. 1 + l /\ \A n \in 2 .. l + 1 : n \in 1 .. 1 + l /\ ~(n <= 1)
    BY <2>1
  <2>3. q[1] = r[1] /\ \A n \in 2 .. l + 1 : q[n] = s[n - 1]
    BY <2>1, <2>2
  <2> QED
    BY <1>1, <2>3 DEF l, q
<1> QED
  BY <1>1, <1>2, <1>4, <1>5 DEF r, Prefixed

\* What to_json makes of a message.
LEMMA MessageTree ==
  ASSUME NEW m \in Messages PROVE TreeIn(Str, to_json(m), 6)
<1> DEFINE parts == [i \in DOMAIN Fields |-> <<Fields[i], i + 1>>]
           root == <<"object", parts>>
           leaves == [i \in DOMAIN Fields |-> <<"string", m[Fields[i]]>>]
           tree == to_json(m)
           one == <<root>>
           S == {root} \cup ({"string"} \X Str)
<1>1. DOMAIN Fields = 1 .. 5 /\ \A i \in 1 .. 5 : Fields[i] \in Field
  <2>1. DOMAIN Fields = 1 .. 5
    BY DEF Fields
  <2> QED
    BY <2>1 DEF Field, Range
<1>2. m \in [Field -> Str] /\ Field \subseteq Str
  BY MessageAssumption
<1>3. parts \in Seq(Str \X (1 + 1 .. 6))
  <2> DEFINE P == Str \X (1 + 1 .. 6)
  <2>1. \A i \in 1 .. 5 : <<Fields[i], i + 1>> \in P
    BY <1>1, <1>2
  <2> HIDE DEF P
  <2>2. parts \in [1 .. 5 -> P]
    BY <1>1, <2>1
  <2>3. parts \in Seq(P)
    BY <2>2
  <2> QED
    BY <2>3 DEF P
<1>4. tree = one \o leaves
  BY DEF to_json
<1>5. DOMAIN leaves = 1 .. 5 /\ \A i \in 1 .. 5 : leaves[i] \in {"string"} \X Str
  BY <1>1, <1>2
<1>6. root \in S /\ {"string"} \X Str \subseteq S /\ leaves = [i \in DOMAIN leaves |-> leaves[i]]
  OBVIOUS
<1> HIDE DEF root, leaves, S
<1>7. leaves \in [1 .. 5 -> S]
  BY <1>5, <1>6
<1>8. leaves \in Seq(S) /\ Len(leaves) = 5
  BY <1>7, FunctionSeq
<1>9. Prefixed(one \o leaves, root, leaves, S)
  BY <1>6, <1>8, OneBefore
<1> HIDE DEF one, tree
<1>10. tree \in Seq(S) /\ Len(tree) = 6 /\ tree[1] = root /\ \A n \in 2 .. 6 : tree[n] = leaves[n - 1]
  BY <1>4, <1>8, <1>9 DEF Prefixed
<1>11. DOMAIN tree = 1 .. 6
  BY <1>10
<1>12. ASSUME NEW n \in 1 .. 6
       PROVE  \/ \E t \in Str \cup {"null", "number"} : tree[n] = Leaf(t)
              \/ \E kids \in Seq(n + 1 .. 6) : tree[n] = <<"array", kids>>
              \/ \E p \in Seq(Str \X (n + 1 .. 6)) : tree[n] = <<"object", p>>
  <2>1. CASE n = 1
    BY <1>3, <1>10, <2>1 DEF root
  <2>2. CASE n # 1
    <3>1. n - 1 \in 1 .. 5 /\ n \in 2 .. 6
      BY <2>2
    <3>2. tree[n] \in {"string"} \X Str
      BY <1>5, <1>10, <3>1
    <3>3. tree[n] = Leaf(tree[n][2]) /\ tree[n][2] \in Str
      BY <3>2 DEF Leaf
    <3> QED
      BY <3>3
  <2> QED
    BY <2>1, <2>2
<1>13. TreeIn(Str, tree, 6)
  BY <1>11, <1>12 DEF TreeIn
<1> QED
  BY <1>13 DEF tree

\* The text that is sent is JSON for what it means.
LEMMA SentText ==
  ASSUME sent \in Frames \cup {to_json(m) : m \in Messages}
  PROVE  IsValue(Str, Spelled(sent)[1], SentFrame)
<1>1. \E N \in Nat : TreeIn(Str, sent, N) /\ N >= 1
  <2>1. CASE sent \in Frames
    <3>1. IsTree(sent)
      BY <2>1, MessageAssumption
    <3>2. TreeIn(Str, sent, Len(sent)) /\ Len(sent) >= 1
      BY <3>1, TreeOf
    <3> QED
      BY <3>2 DEF TreeIn
  <2>2. CASE sent \in {to_json(m) : m \in Messages}
    <3>1. TreeIn(Str, sent, 6)
      BY <2>2, MessageTree
    <3> QED
      BY <3>1
  <2> QED
    BY <2>1, <2>2
<1>2. PICK N \in Nat : TreeIn(Str, sent, N) /\ 1 \in 1 .. N
  BY <1>1
<1> QED
  BY <1>2, TreeMeans DEF SentFrame

-----------------------------------------------------------------------------
(* The invariant: at every token the parser gets with the rest of the text  *)
(* to the frame that was sent, or to its payload.                           *)

SentPayload == ValueOf(SentFrame, "payload")
InFrame(p, d, q, m) == m = NoMessage /\ Expects(p, d, q, SentFrame)
InPayload(p, d, q, m) == m # NoMessage /\ AsSentOf(SentFrame, m) /\ Expects(p, d, q, SentPayload)
HasPayload(p, d, m) == p = "accepted" /\ AsSentOf(SentFrame, m) /\ SentPayload = ValueAt(d.heap)[1]
WasInvoked(p, d, m, st) ==
  HasPayload(p, d, m) /\ IsString(StatusOf(SentPayload)) /\ st = StatusOf(SentPayload)
WasThrown(p, d, m) ==
  /\ p = "accepted"
  /\ m = NoMessage /\ ServerFormOf(SentFrame) => NullJoinRefOf(SentFrame)
  /\ m # NoMessage => HasPayload(p, d, m) /\ ~IsString(StatusOf(SentPayload))

Holds(ph, p, d, q, m, st) ==
  /\ q \in Seq(Tok)
  /\ \/ ph = "frame" /\ InFrame(p, d, q, m)
     \/ ph = "payload" /\ InPayload(p, d, q, m)
     \/ ph = "invoked" /\ WasInvoked(p, d, m, st)
     \/ ph = "thrown" /\ WasThrown(p, d, m)

MessageInv ==
  ParserInv /\ (sent # NoFrame => Holds(phase, pc, dom, todo, message, status))

\* MessageInv holds at the start.
LEMMA InitHolds == Init => MessageInv
<1> SUFFICES ASSUME Init PROVE MessageInv
  OBVIOUS
<1>1. /\ pc = "value" /\ states = <<>> /\ dom = NoDom /\ phase = "frame" /\ message = NoMessage
      /\ sent # NoFrame => sent \in Frames \cup {to_json(m) : m \in Messages} /\ todo = Spelled(sent)[1]
  BY DEF Init, ParserInit
<1>2. ParserInv
  BY <1>1, GoodStartOver, GoodIsInv
<1>3. ASSUME sent # NoFrame PROVE Holds(phase, pc, dom, todo, message, status)
  <2>1. IsValue(Str, todo, SentFrame)
    BY <1>1, <1>3, SentText
  <2>2. Expects("value", NoDom, todo, SentFrame) /\ todo \in Seq(Tok)
    BY <2>1, TextStarts
  <2> QED
    BY <1>1, <2>2 DEF Holds, InFrame
<1> QED
  BY <1>2, <1>3 DEF MessageInv

\* What was accepted: an object or another value, in memory and as it was sent.
LEMMA AcceptedRoot ==
  ASSUME ParserInv, pc = "accepted"
  PROVE  /\ RootAs(dom.heap, Root)
         /\ dom.heap[1][1] = "object" => \A k \in DOMAIN dom.heap[1][2] :
              IsValue(Str, Dump(dom.heap)[dom.heap[1][2][k]], Root[2][k])
<1> DEFINE g == dom.heap
<1>1. g \in Seq(Node) /\ IsForest(g) /\ g # <<>>
  BY DEF ParserInv, ParserTypeOK, InPlace
<1>2. HeapIn(Str, g)
  <2>1. \A node \in Node : NodeIn(Str, node)
    BY DEF Node, NodeIn
  <2> QED
    BY <1>1, <2>1 DEF HeapIn
<1>3. \A n \in 1 .. Len(g) : IsValue(Str, Dump(g)[n], ValueAt(g)[n])
  BY <1>1, <1>2, DumpMeans
<1>4. /\ RootAs(g, ValueAt(g)[1])
      /\ g[1][1] = "object" => \A k \in DOMAIN g[1][2] :
           g[1][2][k] \in 1 .. Len(g) /\ ValueAt(g)[1][2][k] = ValueAt(g)[g[1][2][k]]
  BY <1>1, RootAlike
<1> QED
  BY <1>3, <1>4 DEF Root

\* Every step keeps MessageInv.
LEMMA NextHolds == MessageInv /\ [Next]_vars => MessageInv'
<1> SUFFICES ASSUME MessageInv, [Next]_vars PROVE MessageInv'
  OBVIOUS
<1>1. ParserInv
  BY DEF MessageInv
<1>2. sent # NoFrame => Holds(phase, pc, dom, todo, message, status)
  BY DEF MessageInv
<1>0. /\ SentFrame' = Meaning(sent')[1] /\ SentPayload' = ValueOf(Meaning(sent')[1], "payload")
      /\ SentFrame = Meaning(sent)[1] /\ SentPayload = ValueOf(Meaning(sent)[1], "payload")
  BY DEF SentFrame, SentPayload, ValueOf
<1>9. ASSUME sent' = sent, ParserInv', sent # NoFrame => Holds(phase', pc', dom', todo', message', status')
      PROVE  MessageInv'
  <2>1. SentFrame' = SentFrame /\ SentPayload' = SentPayload
    BY <1>0, <1>9
  <2> QED
    BY <1>9, <2>1 DEF MessageInv, Holds, InFrame, InPayload, HasPayload, WasInvoked, WasThrown, Expects, AsSentOf, ServerFormOf, NullJoinRefOf
<1>3. CASE ParseNext /\ UNCHANGED <<sent, phase, message, status>>
  <2>1. ParserInv'
    BY <1>1, <1>3, ParserStep
  <2>2. ASSUME sent # NoFrame PROVE Holds(phase, pc', dom', todo', message, status)
    <3>1. Holds(phase, pc, dom, todo, message, status) /\ todo \in Seq(Tok)
      BY <1>2, <2>2 DEF Holds
    <3>2. CASE phase = "frame"
      <4>1. message = NoMessage /\ Expects(pc, dom, todo, SentFrame)
        BY <3>1, <3>2 DEF Holds, InFrame
      <4>2. todo' \in Seq(Tok) /\ Expects(pc', dom', todo', SentFrame)
        BY <1>1, <1>3, <3>1, <4>1, GivenStep
      <4> QED
        BY <3>2, <4>1, <4>2 DEF Holds, InFrame
    <3>3. CASE phase = "payload"
      <4>1. message # NoMessage /\ AsSentOf(SentFrame, message) /\ Expects(pc, dom, todo, SentPayload)
        BY <3>1, <3>3 DEF Holds, InPayload
      <4>2. todo' \in Seq(Tok) /\ Expects(pc', dom', todo', SentPayload)
        BY <1>1, <1>3, <3>1, <4>1, GivenStep
      <4> QED
        BY <3>3, <4>1, <4>2 DEF Holds, InPayload
    <3>4. phase \notin {"frame", "payload"} => ~Parsing
      BY <3>1 DEF Holds, HasPayload, WasInvoked, WasThrown, Parsing
    <3>5. Parsing
      BY <1>3 DEF ParseNext, TakeAny, TakeGiven, ScanFirst, NumberFirst
    <3> QED
      BY <3>2, <3>3, <3>4, <3>5
  <2> QED
    BY <1>3, <1>9, <2>1, <2>2
<1>4. CASE Decode
  <2>1. phase = "frame" /\ pc = "accepted" /\ sent' = sent /\ status' = status
    BY <1>4 DEF Decode
  <2> DEFINE g == dom.heap
  <2>2. ASSUME sent # NoFrame PROVE RootAs(g, SentFrame) /\ Root = SentFrame /\ message = NoMessage /\ todo \in Seq(Tok)
    <3>1. message = NoMessage /\ SentFrame = Root /\ todo \in Seq(Tok)
      BY <1>2, <2>1, <2>2 DEF Holds, InFrame, Expects, Root
    <3> QED
      BY <1>1, <2>1, <3>1, AcceptedRoot
  <2>3. CASE g[1][1] = "object" /\ Complies(g)
    <3>1. /\ message' = from_json(g) /\ phase' = "payload" /\ todo' = message'.payload
          /\ pc' = "value" /\ states' = <<>> /\ dom' = NoDom
      BY <1>4, <2>3 DEF Decode, ParseAgain, Goto
    <3>2. ParserInv'
      BY <3>1, GoodStartOver, GoodIsInv
    <3>3. ASSUME sent # NoFrame PROVE Holds(phase', pc', dom', todo', message', status')
      <4>1. AsSentOf(SentFrame, message') /\ Has(g, 1, "payload") /\ todo' = Dump(g)[g[1][2]["payload"]]
        BY <2>2, <2>3, <3>1, <3>3, FromJson
      <4>2. "payload" \in DOMAIN g[1][2] /\ SentPayload = Root[2]["payload"]
        BY <2>2, <2>3, <3>3, <4>1 DEF Has, SentPayload, ValueOf, RootAs
      <4>3. IsValue(Str, todo', SentPayload)
        BY <1>1, <2>1, <2>3, <4>1, <4>2, AcceptedRoot
      <4>4. Expects("value", NoDom, todo', SentPayload) /\ todo' \in Seq(Tok) /\ todo' # <<>>
        BY <4>3, TextStarts
      <4>5. message' # NoMessage
        <5>1. NoMessage.payload = <<>>
          BY DEF NoMessage
        <5> QED
          BY <3>1, <4>4, <5>1
      <4> QED
        BY <3>1, <4>1, <4>4, <4>5 DEF Holds, InPayload
    <3> QED
      BY <1>9, <2>1, <3>2, <3>3
  <2>4. CASE ~(g[1][1] = "object" /\ Complies(g))
    <3>1. phase' = "thrown" /\ UNCHANGED <<pc, states, dom, todo, message>>
      BY <1>4, <2>4 DEF Decode, parseVars
    <3>2. ParserInv'
      BY <1>1, <3>1, GoodIsInv
    <3>3. ASSUME sent # NoFrame PROVE Holds(phase', pc', dom', todo', message', status')
      <4>1. ServerFormOf(SentFrame) => NullJoinRefOf(SentFrame)
        BY <2>2, <2>4, <3>3, FormComplies
      <4> QED
        BY <2>1, <2>2, <3>1, <3>3, <4>1 DEF Holds, WasThrown
    <3> QED
      BY <1>9, <2>1, <3>2, <3>3
  <2> QED
    BY <2>3, <2>4
<1>5. CASE InvokeCallbacks
  <2>1. /\ phase = "payload" /\ pc = "accepted" /\ status' = Status(dom.heap, 1)
        /\ phase' = IF Status(dom.heap, 1) = Absent THEN "thrown" ELSE "invoked"
        /\ UNCHANGED <<pc, states, dom, todo, sent, message>>
    BY <1>5 DEF InvokeCallbacks, parseVars
  <2>2. ParserInv'
    BY <1>1, <2>1, GoodIsInv
  <2>3. ASSUME sent # NoFrame PROVE Holds(phase', pc', dom', todo', message', status')
    <3>1. message # NoMessage /\ HasPayload(pc, dom, message) /\ todo \in Seq(Tok)
      BY <1>2, <2>1, <2>3 DEF Holds, InPayload, HasPayload, Expects
    <3>2. RootAs(dom.heap, SentPayload)
      BY <1>1, <2>1, <3>1, AcceptedRoot DEF HasPayload, Root
    <3>3. /\ Status(dom.heap, 1) # Absent <=> IsString(StatusOf(SentPayload))
          /\ Status(dom.heap, 1) # Absent => Status(dom.heap, 1) = StatusOf(SentPayload)
      BY <3>2, StatusSame
    <3>4. CASE Status(dom.heap, 1) = Absent
      BY <2>1, <3>1, <3>3, <3>4 DEF Holds, WasThrown, HasPayload
    <3>5. CASE Status(dom.heap, 1) # Absent
      BY <2>1, <3>1, <3>3, <3>5 DEF Holds, WasInvoked, HasPayload
    <3> QED
      BY <3>4, <3>5
  <2> QED
    BY <1>9, <2>1, <2>2, <2>3
<1>6. CASE UNCHANGED vars
  <2>1. UNCHANGED <<pc, states, dom, todo, sent, phase, message, status>>
    BY <1>6 DEF vars, parseVars
  <2>2. ParserInv'
    BY <1>1, <2>1, GoodIsInv
  <2> QED
    BY <1>2, <1>9, <2>1, <2>2
<1> QED
  BY <1>3, <1>4, <1>5, <1>6 DEF Next

\* At every token, for any frames of the server and any messages.
THEOREM MessageInvariance == Spec => []MessageInv
BY InitHolds, NextHolds, PTL DEF Spec

\* Every field of a message is the one that was sent under its name, and a frame of
\* the server's form gets through both parses, whatever its size, its depth and the
\* order of its members, unless its join_ref is null beside a ref: from_json never
\* makes a message of that one.
THEOREM FieldsDecoded == Spec => []DecodedAsSent
<1>1. MessageInv => DecodedAsSent
  <2> SUFFICES ASSUME MessageInv, sent # NoFrame
               PROVE  /\ message # NoMessage => AsSent /\ ~NullJoinRef
                      /\ ServerForm => /\ pc # "rejected"
                                       /\ phase = "thrown" => message # NoMessage \/ NullJoinRef
    BY DEF DecodedAsSent, ServerForm
  <2>1. Holds(phase, pc, dom, todo, message, status) /\ SentPayload = Sent("payload")
    BY OfSent DEF MessageInv, SentPayload
  <2>2. message # NoMessage => AsSentOf(SentFrame, message) /\ (pc = "accepted" => Root = SentPayload)
    BY <2>1 DEF Holds, InFrame, InPayload, HasPayload, WasInvoked, WasThrown, Expects, Root
  <2>3. pc # "rejected"
    BY <2>1, NeverRejected DEF Holds, InFrame, InPayload, HasPayload, WasInvoked, WasThrown
  <2>4. ServerFormOf(SentFrame) /\ phase = "thrown" =>
          message # NoMessage \/ NullJoinRefOf(SentFrame)
    BY <2>1 DEF Holds, WasThrown
  <2> QED
    BY <2>1, <2>2, <2>3, <2>4, OfSent, NoNullTaken
<1> QED
  BY <1>1, MessageInvariance, PTL

\* The hooks that run are those for the status in the payload as it was sent.
THEOREM StatusReaches == Spec => []HooksGetStatus
<1>1. MessageInv => HooksGetStatus
  <2> SUFFICES ASSUME MessageInv, sent # NoFrame
               PROVE  /\ phase = "invoked" => IsString(SentStatus) /\ status = SentStatus
                      /\ ServerForm /\ ~NullJoinRef /\ IsString(SentStatus) => phase # "thrown"
    BY DEF HooksGetStatus, ServerForm
  <2>1. Holds(phase, pc, dom, todo, message, status)
    BY DEF MessageInv
  <2>2. SentStatus = StatusOf(SentPayload)
    BY OfSent DEF SentStatus, StatusOf, SentPayload
  <2>3. phase = "invoked" => WasInvoked(pc, dom, message, status)
    BY <2>1 DEF Holds
  <2>4. phase = "thrown" => WasThrown(pc, dom, message)
    BY <2>1 DEF Holds
  <2> QED
    BY <2>2, <2>3, <2>4, OfSent DEF WasInvoked, WasThrown
<1> QED
  BY <1>1, MessageInvariance, PTL

=============================================================================
