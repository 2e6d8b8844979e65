----------------------------- MODULE JsonPatch -----------------------------
(***************************************************************************)
(* What basic_json computes over pointers (json.hpp): patch applies the    *)
(* operations of a JSON patch one by one, diff makes one, flatten and      *)
(* unflatten go over pointers, merge_patch over keys.                      *)
(*                                                                         *)
(* patch works on a copy, so an exception leaves the value as it was: the  *)
(* outcome is the number of the exception, and result is of no account.    *)
(***************************************************************************)
EXTENDS JsonPointer

CONSTANTS
  Docs,       \* values that operations of any patch are applied to
  Ops,        \* operations, as they may stand in a patch
  MaxOps,     \* bound: operations of such a patch
  Diffs,      \* values that diff compares
  Flats,      \* values that flatten takes
  Merges      \* values that merge_patch takes, and patches for it

VARIABLES
  call,       \* "patch", "diff", "unflatten", "merge", or "merging" inside it
  source,     \* the value at the start
  target,     \* the value that diff goes to, the patch of merge_patch, or Null
  todo,       \* what is left to apply: operations, entries or keys
  result,     \* the value so far
  before,     \* history: the value before the last operation
  last,       \* history: that operation, or NoOp
  outcome     \* Running, Returned, or the exception

vars == <<call, source, target, todo, result, before, last, outcome>>

Running == <<"running", 0>>
Returned == <<"returned", 0>>
IsString(v) == v[1] = "string"
NoOp == NoMembers("none")
Given == NoMembers("given")  \* stands for any operation of a patch that is given

\* Exceptions without a number of the library.
InvalidArgument == Threw(0)
AssertionFails == Threw(1)
OutOfRange == 401 .. 499

-----------------------------------------------------------------------------
(* The operations of a patch.                                              *)

\* What follows a result that may be an exception, and v with a new parent in it.
After(r, next) == IF Failed(r) THEN r ELSE next
Put(v, ptr, parent) == After(parent, Assigned(v, Front(ptr), parent, FALSE))

\* The "add" of a value under the last token: to an array, at most at its end.
Inserted(parent, i, v) ==
  IF i[2] \in 0 .. Len(parent[2]) THEN <<"array", InsertAt(parent[2], i[2] + 1, v)>> ELSE Threw(401)
AddedAt(parent, i, v) == After(i, Inserted(parent, i, v))
Added(parent, token, v) ==
  CASE Failed(parent) -> parent
    [] parent = Null -> WithKey(EmptyObject, token, v)
    [] IsObject(parent) -> WithKey(parent, token, v)
    [] IsArray(parent) -> IF token = <<Minus>> THEN <<"array", Append(parent[2], v)>>
                          ELSE AddedAt(parent, array_index(token), v)
    [] OTHER -> AssertionFails

\* operation_add: only the first token must be there, the rest is made.
OperationAdd(v, ptr, w) ==
  IF ptr = <<>> THEN w
  ELSE After(IF Len(ptr) > 1 THEN at(v, <<Head(ptr)>>) ELSE v,
             Put(v, ptr, Added(Unchecked(v, Front(ptr), FALSE), Last(ptr), w)))

\* The removal of a child.
RemovedAt(parent, i) ==
  IF ~Failed(i) /\ i[2] \in 0 .. Len(parent[2]) - 1
  THEN <<"array", RemoveAt(parent[2], i[2] + 1)>> ELSE After(i, Threw(401))
Removed(parent, token) ==
  CASE IsObject(parent) -> IF token \in DOMAIN parent[2] THEN WithoutKey(parent, token) ELSE Threw(403)
    [] IsArray(parent) -> RemovedAt(parent, array_index(token))
    [] OTHER -> parent

\* operation_remove: nothing is removed from a value that is no container.
OperationRemove(v, ptr) ==
  IF ptr = <<>> THEN Threw(405)
  ELSE Put(v, ptr, Removed(at(v, Front(ptr)), Last(ptr)))

\* The loop over the patch: o is the next operation, r the value it leaves.
Candidates == IF todo = <<>> THEN {} ELSE IF Head(todo) = Given THEN Ops ELSE {Head(todo)}

Leave(o, r) ==
  /\ todo' = Tail(todo)
  /\ last' = o /\ before' = result
  /\ IF Failed(r) THEN outcome' = r /\ UNCHANGED result
                  ELSE result' = r /\ UNCHANGED outcome
  /\ UNCHANGED <<call, source, target>>

\* What every operation must have: an object with an op, a string that is a pointer
\* as its path, and the members of its kind.  (A missing member is found before the value is
\* looked at; the order that the compiler chooses decides no more than the number.)
Members(o) ==
  CASE o = NoObject -> Threw(104)
    [] o # NoObject /\ ~IsString(o.path) -> Threw(105)
    [] IsString(o.path) /\ Failed(split(o.path[2])) -> split(o.path[2])
    [] OTHER ->
         CASE o.op \in {"add", "replace", "test"} /\ o.value = Missing -> Threw(105)
           [] o.op \in {"move", "copy"} ->
                IF IsString(o.from) THEN split(o.from[2]) ELSE Threw(105)
           [] o.op \notin {"add", "remove", "replace", "move", "copy", "test"} -> Threw(105)
           [] OTHER -> split(o.path[2])

Ready(o, op) == o.op = op /\ ~Failed(Members(o))
Ptr(o) == split(o.path[2])[2]
From(o) == split(o.from[2])[2]

PatchRefuse(o) == Failed(Members(o)) /\ Leave(o, Members(o))

PatchAdd(o) == Ready(o, "add") /\ Leave(o, OperationAdd(result, Ptr(o), o.value))

PatchRemove(o) == Ready(o, "remove") /\ Leave(o, OperationRemove(result, Ptr(o)))

PatchReplace(o) ==
  /\ Ready(o, "replace")
  /\ Leave(o, After(at(result, Ptr(o)), Assigned(result, Ptr(o), o.value, FALSE)))

\* Mutant: the value is added before the old one is removed.
ThenRemove(more, from) == After(more, OperationRemove(more, from))
AddThenRemove(v, from, ptr) ==
  After(at(v, from), ThenRemove(OperationAdd(v, ptr, at(v, from)), from))
ThenAdd(rest, ptr, w) == After(rest, OperationAdd(rest, ptr, w))
OperationMove(v, from, ptr) ==
  After(at(v, from), ThenAdd(OperationRemove(v, from), ptr, at(v, from)))

PatchMove(o) == Ready(o, "move") /\ Leave(o, OperationMove(result, From(o), Ptr(o)))

OperationCopy(v, ptr, w) == After(w, OperationAdd(v, ptr, w))
PatchCopy(o) ==
  Ready(o, "copy") /\ Leave(o, OperationCopy(result, Ptr(o), at(result, From(o))))

\* An exception other than out_of_range leaves patch as it is.
OperationTest(v, found, w) ==
  IF Failed(found) THEN IF found[2] \in OutOfRange THEN Threw(501) ELSE found
  ELSE IF Equal(found, w) THEN v ELSE Threw(501)
PatchTest(o) ==
  Ready(o, "test") /\ Leave(o, OperationTest(result, at(result, Ptr(o)), o.value))

-----------------------------------------------------------------------------
(* diff                                                                    *)

Operation(op, path, v) == [op |-> op, path |-> <<"string", path>>, value |-> v, from |-> Missing]

\* The elements that only one of two arrays has.  The last is removed first.
\* Mutant: the first is.
Ascending(s, path, n) ==
  [i \in 1 .. Len(s) - n |-> Operation("remove", path \o <<Slash>> \o IndexText(n + i - 1), Missing)]
Surplus(s, path, n) ==
  Reverse([i \in 1 .. Len(s) - n |->
             Operation("remove", path \o <<Slash>> \o IndexText(n + i - 1), Missing)])
Missed(t, path, n) ==
  [i \in 1 .. Len(t) - n |->
     Operation("add", path \o <<Slash>> \o IndexText(n + i - 1), t[n + i])]

RECURSIVE diff(_, _, _)
diff(v, w, path) ==
  LET s == v[2]
      t == w[2]
      n == Min({Len(s), Len(t)})
      kept(k) == diff(s[k], t[k], path \o <<Slash>> \o escape(k))
      gone(k) == <<Operation("remove", path \o <<Slash>> \o escape(k), Missing)>>
      news == SelectSeq(Keys(t), LAMBDA k : k \notin DOMAIN s) IN
  CASE Equal(v, w) -> <<>>
    [] ~Equal(v, w) /\ v[1] = w[1] /\ IsArray(v) ->
         FlattenSeq([i \in 1 .. n |-> diff(s[i], t[i], path \o <<Slash>> \o IndexText(i - 1))])
           \o Surplus(s, path, n) \o Missed(t, path, n)
    [] ~Equal(v, w) /\ v[1] = w[1] /\ IsObject(v) ->
         FlattenSeq([i \in DOMAIN Keys(s) |->
                       LET k == Keys(s)[i] IN IF k \in DOMAIN t THEN kept(k) ELSE gone(k)])
           \o [i \in DOMAIN news |-> Operation("add", path \o <<Slash>> \o escape(news[i]), t[news[i]])]
    [] OTHER -> <<Operation("replace", path, w)>>

-----------------------------------------------------------------------------
(* flatten and unflatten                                                   *)

\* The object that flatten returns, as the set of its entries.
RECURSIVE Entries(_, _)
Entries(v, path) ==
  LET text(k) == IF IsArray(v) THEN IndexText(k - 1) ELSE escape(k) IN
  CASE v[1] \in {"array", "object"} /\ DOMAIN v[2] = {} -> {<<path, Null>>}
    [] v[1] \in {"array", "object"} /\ DOMAIN v[2] # {} ->
         UNION {Entries(v[2][k], path \o <<Slash>> \o text(k)) : k \in DOMAIN v[2]}
    [] OTHER -> {<<path, v>>}

\* In the order of std::map.  Mutant: of their length first.
ShorterFirst(S) ==
  InOrderOf(S, LAMBDA d, e : Len(d[1]) < Len(e[1])
                             \/ (Len(d[1]) = Len(e[1]) /\ KeyLess(e[1], d[1])))
InOrder(S) == InOrderOf(S, LAMBDA d, e : KeyLess(d[1], e[1]))

Unflattened(v, tokens, w) == After(Unchecked(v, tokens, TRUE), Assigned(v, tokens, w, TRUE))
Unflatten ==
  /\ call = "unflatten" /\ todo # <<>>
  /\ Leave(NoOp, Unflattened(result, split(Head(todo)[1])[2], Head(todo)[2]))

-----------------------------------------------------------------------------
(* merge_patch                                                             *)

\* One key of the patch, with the merge of its value.  Mutant: null is stored.
Stored(v, k, w) == WithKey(v, k, w)
Taken(v, k, w) == IF w = Null THEN WithoutKey(v, k) ELSE WithKey(v, k, w)

RECURSIVE Merge(_, _)
MergeKey(v, p, k) ==
  Taken(v, k, IF p[2][k] = Null THEN Null
              ELSE Merge(IF k \in DOMAIN v[2] THEN v[2][k] ELSE Null, p[2][k]))
Merge(v, p) ==
  IF IsObject(p)
  THEN FoldLeft(LAMBDA w, k : MergeKey(w, p, k), IF IsObject(v) THEN v ELSE EmptyObject, Keys(p[2]))
  ELSE p

MergeStart ==
  /\ call = "merge" /\ call' = "merging"
  /\ IF IsObject(target)
     THEN result' = (IF IsObject(result) THEN result ELSE EmptyObject) /\ todo' = Keys(target[2])
     ELSE result' = target /\ todo' = <<>>
  /\ UNCHANGED <<source, target, before, last, outcome>>

MergeNext ==
  /\ call = "merging" /\ todo # <<>>
  /\ Leave(NoOp, MergeKey(result, target, Head(todo)))

-----------------------------------------------------------------------------

Init ==
  /\ \/ call = "patch" /\ source \in Docs /\ target = Null /\ todo = [i \in 1 .. MaxOps |-> Given]
     \/ call = "diff" /\ source \in Diffs /\ target \in Diffs /\ todo = diff(source, target, <<>>)
     \/ call = "unflatten" /\ source \in Flats /\ target = Null
        /\ todo = InOrder(Entries(source, <<>>))
     \/ call = "merge" /\ source \in Merges /\ target \in Merges /\ todo = <<>>
  /\ result = (IF call = "unflatten" THEN Null ELSE source)
  /\ before = result /\ last = NoOp /\ outcome = Running

PatchNext ==
  /\ call \in {"patch", "diff"}
  /\ \E o \in Candidates :
       PatchRefuse(o) \/ PatchAdd(o) \/ PatchRemove(o) \/ PatchReplace(o) \/ PatchMove(o) \/ PatchCopy(o) \/ PatchTest(o)

Return ==
  /\ call # "merge" /\ (todo = <<>> \/ call = "patch")
  /\ outcome' = Returned
  /\ UNCHANGED <<call, source, target, todo, result, before, last>>

Next == outcome = Running /\ (PatchNext \/ Unflatten \/ MergeStart \/ MergeNext \/ Return)

Spec == Init /\ [][Next]_vars

-----------------------------------------------------------------------------
(* Properties.                                                             *)

\* A patch that diff makes applies without an exception and gives the target.
DiffGivesTarget ==
  call = "diff" => /\ ~Failed(outcome)
                   /\ outcome = Returned => Equal(result, target)

\* Where an operation on v finds, or makes, the place of ptr: in an array a token is
\* an index, also one with a leading zero at the end, and "-" the index behind the last.
TokenIn(u, t) ==
  IF ~IsArray(u) THEN t
  ELSE IndexText(IF t = <<Minus>> THEN Len(u[2]) ELSE array_index(t)[2])
Place(v, ptr) ==
  [i \in DOMAIN ptr |->
     LET u == Unchecked(v, SubSeq(ptr, 1, i - 1), FALSE) IN
     TokenIn(IF i < Len(ptr) THEN Container(u, ptr[i], FALSE) ELSE u, ptr[i])]

\* After an add, a move or a copy that succeeds, at() finds the value in its place: a "-"
\* inside the pointer appends a null that becomes what the next token asks for.  In
\* an array, or under a key that is new, nothing else has changed.
AddedTo(v, ptr, w) ==
  LET there == Place(v, ptr)
      parent == at(v, Front(there)) IN
  /\ at(result, there) = w
  /\ ptr # <<>> =>
       (IsArray(parent) \/ (IsObject(parent) /\ Last(there) \notin DOMAIN parent[2]) =>
          OperationRemove(result, there) = v)
AddedIsThere ==
  CASE last.op = "add" -> AddedTo(before, Ptr(last), last.value)
    [] last.op = "copy" -> AddedTo(before, Ptr(last), at(before, From(last)))
    [] last.op = "move" ->
         AddedTo(OperationRemove(before, From(last)), Ptr(last), at(before, From(last)))
    [] OTHER -> TRUE

\* A remove that succeeds takes just the value in its place: adding it again there gives
\* back what there was.  Below a value that is no container nothing is removed, and no
\* exception says so.
RemoveTakesOne ==
  last.op = "remove" =>
    LET there == Place(before, Ptr(last))
        parent == at(before, Front(there)) IN
    IF IsArray(parent) \/ IsObject(parent)
    THEN /\ ~Failed(at(before, there))
         /\ OperationAdd(result, there, at(before, there)) = before
    ELSE ~Failed(parent) /\ result = before
PatchedAsSaid == ~Failed(outcome) => AddedIsThere /\ RemoveTakesOne

\* flatten and unflatten give back a value without empty containers and without
\* a key "0", which unflatten takes for the index of an array.
RECURSIVE Restorable(_)
Restorable(v) ==
  v[1] \in {"array", "object"} =>
    /\ DOMAIN v[2] # {}
    /\ IsObject(v) => <<Zero>> \notin DOMAIN v[2]
    /\ \A k \in DOMAIN v[2] : Restorable(v[2][k])
FlattenRestored ==
  call = "unflatten" /\ Restorable(source) =>
    ~Failed(outcome) /\ (outcome = Returned => result = source)

\* A merge patch leaves in v what it says: a null takes the key away, a value that
\* is no object stands as it is, and other keys keep what they had.
RECURSIVE IsMerged(_, _, _)
IsMerged(old, p, v) ==
  IF ~IsObject(p) THEN v = p
  ELSE LET olds == IF IsObject(old) THEN old[2] ELSE <<>>
           had(k) == IF k \in DOMAIN olds THEN olds[k] ELSE Null IN
       /\ IsObject(v)
       /\ \A k \in DOMAIN olds \cup DOMAIN p[2] \cup DOMAIN v[2] :
            IF k \in DOMAIN p[2]
            THEN IF p[2][k] = Null THEN k \notin DOMAIN v[2]
                 ELSE k \in DOMAIN v[2] /\ IsMerged(had(k), p[2][k], v[2][k])
            ELSE k \in DOMAIN v[2] /\ k \in DOMAIN olds /\ v[2][k] = olds[k]
MergedAsSaid == call = "merging" /\ outcome = Returned => IsMerged(source, target, result)

=============================================================================
