---------------------------- MODULE JsonCallback ----------------------------
(***************************************************************************)
(* json::parse with a callback (json.hpp): json_sax_dom_callback_parser    *)
(* asks it at every value, at every key and at both ends of every array    *)
(* and object whether to keep them, and builds what is kept in place.      *)
(*                                                                         *)
(* The events are those of a text without errors (JsonParser); the         *)
(* callback may answer anything.  The value is a heap of nodes, into which *)
(* ref_stack and object_element point; 0 is the null pointer.              *)
(***************************************************************************)
EXTENDS Integers, SequencesExt, FiniteSetsExt, Functions

CONSTANT Trees   \* what the text says: an object as its members, <<key, value>>, in their order

VARIABLES
  tree,      \* history: what is parsed
  todo,      \* the events to come
  sdp,       \* the parser: heap, ref_stack, keep_stack, key_keep_stack, object_element
  dropped,   \* history: the events at which the callback said no
  asked,     \* history: the last event at which it was asked, and the depth it was told
  result     \* what parse returns, or Parsing
vars == <<tree, todo, sdp, dropped, asked, result>>

Null == <<"null", 0>>
Discarded == <<"discarded", 0>>
Parsing == <<"parsing", 0>>

\* The events of a value and where they belong: the positions on the way to it.
Event(name, place, content) == [name |-> name, place |-> place, content |-> content]
RECURSIVE Events(_, _)
Events(v, place) ==
  LET member(i) == <<Event("key", Append(place, i), v[2][i][1])>> \o Events(v[2][i][2], Append(place, i)) IN
  CASE v[1] = "array" ->
         <<Event("start", place, "array")>>
           \o FlattenSeq([i \in DOMAIN v[2] |-> Events(v[2][i], Append(place, i))])
           \o <<Event("end_array", place, 0)>>
    [] v[1] = "object" ->
         <<Event("start", place, "object")>>
           \o FlattenSeq([i \in DOMAIN v[2] |-> member(i)]) \o <<Event("end_object", place, 0)>>
    [] OTHER -> <<Event("value", place, v)>>

NewParser ==
  [heap |-> <<>>, ref_stack |-> <<>>, keep_stack |-> <<TRUE>>, key_keep_stack |-> <<>>, object_element |-> 0]
Init ==
  /\ tree \in Trees /\ todo = Events(tree, <<>>)
  /\ sdp = NewParser
  /\ dropped = {} /\ asked = Event("none", <<>>, 0) /\ result = Parsing

-----------------------------------------------------------------------------

Back(d) == IF d.ref_stack = <<>> THEN 0 ELSE Last(d.ref_stack)
IsNode(d, type) == Back(d) # 0 /\ d.heap[Back(d)][1] = type

\* handle_value, when the value is kept: the node it goes to, and the parser with it.
Place(d) ==
  CASE d.ref_stack = <<>> -> 1
    [] d.ref_stack # <<>> /\ Back(d) = 0 -> 0
    [] IsNode(d, "array") -> Len(d.heap) + 1
    [] IsNode(d, "object") -> IF Last(d.key_keep_stack) THEN d.object_element ELSE 0
Stored(d, node) ==
  CASE d.ref_stack = <<>> -> [d EXCEPT !.heap = <<node>>]
    [] d.ref_stack # <<>> /\ Back(d) = 0 -> d
    [] IsNode(d, "array") ->
         [d EXCEPT !.heap = Append([@ EXCEPT ![Back(d)][2] = Append(@, Place(d))], node)]
    [] IsNode(d, "object") ->
         [d EXCEPT !.key_keep_stack = Front(@),
                   !.heap = IF Place(d) = 0 THEN @ ELSE [@ EXCEPT ![Place(d)] = node]]

\* The callback is asked about the event, or not, and leaves the parser d.
Answer(ask) == IF ask THEN BOOLEAN ELSE {TRUE}
Leave(ask, depth, keep, d) ==
  /\ todo' = Tail(todo)
  /\ sdp' = d
  /\ dropped' = IF keep THEN dropped ELSE dropped \cup {<<Head(todo).name, Head(todo).place>>}
  /\ asked' = IF ask THEN [Head(todo) EXCEPT !.content = depth] ELSE asked
  /\ UNCHANGED <<tree, result>>
Comes(name) == todo # <<>> /\ Head(todo).name = name

\* null, boolean, number_..., string: no question about what is in a dropped container.
Value ==
  /\ Comes("value")
  /\ LET ask == Last(sdp.keep_stack) IN
     \E keep \in Answer(ask) :
       Leave(ask, Len(sdp.ref_stack), keep, IF ask /\ keep THEN Stored(sdp, Head(todo).content) ELSE sdp)

\* start_array, start_object
Started(d, keep, node) ==
  [(IF keep THEN Stored(d, node) ELSE d) EXCEPT
     !.keep_stack = Append(@, keep),
     !.ref_stack = Append(@, IF keep THEN Place(d) ELSE 0)]
Start ==
  /\ Comes("start")
  /\ \E keep \in Answer(TRUE) :
       Leave(TRUE, Len(sdp.ref_stack), keep, Started(sdp, keep, <<Head(todo).content, <<>> >>))

\* key: a place is made for the value, as yet discarded.
Keyed(d, k) ==
  LET members == d.heap[Back(d)][2]
      n == Len(d.heap) + 1 IN
  IF k \in DOMAIN members
  THEN [d EXCEPT !.object_element = members[k], !.heap[members[k]] = Discarded]
  ELSE [d EXCEPT !.object_element = n,
                 !.heap = Append([@ EXCEPT ![Back(d)][2] = members @@ (k :> n)], Discarded)]
Key ==
  /\ Comes("key")
  /\ \E keep \in Answer(TRUE) :
       LET d == [sdp EXCEPT !.key_keep_stack = Append(@, keep)] IN
       Leave(TRUE, Len(sdp.ref_stack), keep, IF keep /\ Back(d) # 0 THEN Keyed(d, Head(todo).content) ELSE d)

\* What both ends do: a container that is not kept is discarded.
Ended(d, keep) ==
  [d EXCEPT !.heap = IF keep THEN @ ELSE [@ EXCEPT ![Back(d)] = Discarded],
            !.ref_stack = Front(@), !.keep_stack = Front(@)]

\* end_object: the first discarded member of the object around it goes.
Erased(d) ==
  LET members == d.heap[Back(d)][2]
      gone == {k \in DOMAIN members : d.heap[members[k]] = Discarded} IN
  IF IsNode(d, "object") /\ gone # {}
  THEN [d EXCEPT !.heap[Back(d)][2] = Restrict(members, DOMAIN members \ {Min(gone)})] ELSE d
EndObject ==
  /\ Comes("end_object")
  /\ LET ask == Back(sdp) # 0 IN
     \E keep \in Answer(ask) : Leave(ask, Len(sdp.ref_stack) - 1, keep, Erased(Ended(sdp, keep)))

\* end_array: when it was dropped, it leaves the array around it.  Mutant: it leaves it anyway.
AlwaysPopped(d, keep) == IF IsNode(d, "array") THEN [d EXCEPT !.heap[Back(d)][2] = Front(@)] ELSE d
Popped(d, keep) ==
  IF ~keep /\ IsNode(d, "array") THEN [d EXCEPT !.heap[Back(d)][2] = Front(@)] ELSE d
EndArray ==
  /\ Comes("end_array")
  /\ LET ask == Back(sdp) # 0 IN
     \E keep \in Answer(ask) : Leave(ask, Len(sdp.ref_stack) - 1, keep, Popped(Ended(sdp, keep), keep))

-----------------------------------------------------------------------------

\* The value in the heap.
RECURSIVE ValueAt(_, _)
ValueAt(heap, i) ==
  LET kids == heap[i][2] IN
  IF heap[i][1] \in {"array", "object"}
  THEN <<heap[i][1], [k \in DOMAIN kids |-> ValueAt(heap, kids[k])]>> ELSE heap[i]

\* parse: a value that was dropped as a whole is null.
Return ==
  /\ todo = <<>> /\ result = Parsing
  /\ result' = IF sdp.heap = <<>> \/ sdp.heap[1] = Discarded THEN Null ELSE ValueAt(sdp.heap, 1)
  /\ UNCHANGED <<tree, todo, sdp, dropped, asked>>

Next == Value \/ Start \/ Key \/ EndObject \/ EndArray \/ Return

Spec == Init /\ [][Next]_vars

-----------------------------------------------------------------------------
(* Properties.                                                             *)

IsKept(place) == \A name \in {"value", "start", "end_array", "end_object", "key"} : <<name, place>> \notin dropped

\* The tree without what the callback said no to, "as if the discarded value was never read"
\* (json.hpp:13865).
RECURSIVE Filtered(_, _)
Filtered(v, place) ==
  LET kept == {i \in DOMAIN v[2] : IsKept(Append(place, i))}
      left == SetToSortSeq(kept, <)
      at(k) == CHOOSE i \in kept : v[2][i][1] = k IN
  CASE v[1] = "array" -> <<"array", [j \in DOMAIN left |-> Filtered(v[2][left[j]], Append(place, left[j]))]>>
    [] v[1] = "object" ->
         <<"object", [k \in {v[2][i][1] : i \in kept} |-> Filtered(v[2][at(k)][2], Append(place, at(k)))]>>
    [] OTHER -> v

\* The same with the discarded values that stay: an object in an array that was dropped at its
\* end; a member that was dropped after its key was kept, in place of an earlier one of that
\* key too; but with the end of every object the object around it loses the first of them.
Swept(members) ==
  LET gone == {k \in DOMAIN members : members[k] = Discarded} IN
  IF gone = {} THEN members ELSE Restrict(members, DOMAIN members \ {Min(gone)})
RECURSIVE Remaining(_, _)
Remaining(v, place) ==
  LET kept(i) == IsKept(Append(place, i))
      said_no(i, name) == <<name, Append(place, i)>> \in dropped
      element(i) ==
        CASE kept(i) -> <<Remaining(v[2][i], Append(place, i))>>
          [] ~kept(i) -> IF said_no(i, "end_object") THEN <<Discarded>> ELSE <<>>
      content(i) == IF kept(i) THEN Remaining(v[2][i][2], Append(place, i)) ELSE Discarded
      member(members, i) ==
        LET with == IF said_no(i, "key") THEN members ELSE (v[2][i][1] :> content(i)) @@ members IN
        IF v[2][i][2][1] = "object" THEN Swept(with) ELSE with IN
  CASE v[1] = "array" -> <<"array", FlattenSeq([i \in DOMAIN v[2] |-> element(i)])>>
    [] v[1] = "object" -> <<"object", FoldLeft(member, <<>>, [i \in DOMAIN v[2] |-> i])>>
    [] OTHER -> v

RECURSIVE Whole(_)
Whole(v) == v # Discarded /\ (v[1] \in {"array", "object"} => \A k \in DOMAIN v[2] : Whole(v[2][k]))
Repeated(e, f) ==
  e # f /\ e.name = "key" /\ f.name = "key" /\ e.content = f.content /\ Front(e.place) = Front(f.place)
KeyTwice == \E e, f \in Range(Events(tree, <<>>)) : Repeated(e, f)

\* "Discarded values in structured types are skipped.  That is, the parser will behave as if the
\* discarded value was never read.  In case a value outside a structured type is skipped, it is
\* replaced with null" (json.hpp:13865), and is_discarded() "will always be false for JSON
\* values after parsing" (json.hpp:15079).  The code does not keep all of this: end_object
\* (json.hpp:3116) removes one discarded member, and nothing from an array, so that discarded
\* values reach the caller.  Whatever the callback drops, inside of what it drops and around it,
\* the result is that of Remaining and no other; it is as if the dropped values were never read
\* where none of them stays and no key comes twice; and the depth the callback is told is
\* that of the value.
FilteredAsSaid ==
  /\ result # Parsing =>
       /\ result = IF IsKept(<<>>) THEN Remaining(tree, <<>>) ELSE Null
       /\ IsKept(<<>>) /\ Whole(result) /\ ~KeyTwice => result = Filtered(tree, <<>>)
  /\ asked.name # "none" => asked.content = Len(asked.place)

=============================================================================
