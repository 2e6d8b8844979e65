---------------------------- MODULE JsonPointer ----------------------------
(***************************************************************************)
(* Values of basic_json and json_pointer (json.hpp): access to a value by  *)
(* index, key and pointer, and the text of a pointer.                      *)
(***************************************************************************)
EXTENDS JsonValue

CONSTANT Width   \* bits of number_integer_t and number_unsigned_t
WidthAssumption == Width \in Nat \ {0}

\* operator==: numbers of different types compare as number_integer_t.
AsInteger(n) == IF n >= 2 ^ (Width - 1) THEN n - 2 ^ Width ELSE n
RECURSIVE Equal(_, _)
Equal(v, w) ==
  IF v[1] = w[1]
  THEN CASE IsArray(v) \/ IsObject(v) ->
              /\ DOMAIN v[2] = DOMAIN w[2]
              /\ \A k \in DOMAIN v[2] : Equal(v[2][k], w[2][k])
         [] OTHER -> v = w
  ELSE IsNumber(v) /\ IsNumber(w) /\ AsInteger(v[2]) = AsInteger(w[2])

\* What is kept of a value when one of its elements is assigned: operator[] fills
\* an array up to the index with nulls.
Filled(s, n) == IF Len(s) < n THEN s \o [j \in 1 .. n - Len(s) |-> Null] ELSE s
WithElement(v, i, w) == <<"array", [Filled(v[2], i + 1) EXCEPT ![i + 1] = w]>>
WithoutKey(v, k) == <<"object", Restrict(v[2], DOMAIN v[2] \ {k})>>

-----------------------------------------------------------------------------
(* The text of a pointer.                                                  *)

Minus == 45
Plus == 43
Slash == 47
One == 49
Tilde == 126
IsDigit(c) == c \in Zero .. Zero + 9

\* replace_substring, from position p on.
RECURSIVE Replaced(_, _, _, _)
Replaced(s, p, f, t) ==
  LET found == {i \in p .. Len(s) - Len(f) + 1 : SubSeq(s, i, i + Len(f) - 1) = f}
      i == Min(found) IN
  IF found = {} THEN s
  ELSE Replaced(SubSeq(s, 1, i - 1) \o t \o SubSeq(s, i + Len(f), Len(s)), i + Len(t), f, t)

\* The order matters in both.
escape(s) == Replaced(Replaced(s, 1, <<Tilde>>, <<Tilde, Zero>>), 1, <<Slash>>, <<Tilde, One>>)
unescape(s) ==
  Replaced(Replaced(s, 1, <<Tilde, One>>, <<Slash>>), 1, <<Tilde, Zero>>, <<Tilde>>)

to_string(tokens) == FlattenSeq([i \in DOMAIN tokens |-> <<Slash>> \o escape(tokens[i])])

\* split, in two: what lies between the slashes, and the tokens, or the exception.
Parts(s) ==
  LET slashes == InOrderOf({i \in DOMAIN s : s[i] = Slash}, <)
      end(i) == IF i = Len(slashes) THEN Len(s) ELSE slashes[i + 1] - 1 IN
  [i \in DOMAIN slashes |-> SubSeq(s, slashes[i] + 1, end(i))]
BadEscape(t) ==
  \E i \in DOMAIN t : t[i] = Tilde /\ (i = Len(t) \/ t[i + 1] \notin {Zero, One})
split(s) ==
  CASE s # <<>> /\ s[1] # Slash -> Threw(107)
    [] \E i \in DOMAIN Parts(s) : s[1] = Slash /\ BadEscape(Parts(s)[i]) -> Threw(108)
    [] OTHER -> <<"tokens", [i \in DOMAIN Parts(s) |-> unescape(Parts(s)[i])]>>

\* std::stoi, for the digits that lead s.
Stoi(negative, s, n) ==
  LET number == FoldLeft(LAMBDA sum, c : 10 * sum + (c - Zero), 0, s) IN
  CASE n = 0 -> Threw(0)
    [] n # 0 /\ n < Len(s) -> Threw(404)
    [] OTHER -> <<"index", IF negative THEN -number ELSE number>>
Leading(s) == Cardinality({i \in DOMAIN s : \A k \in 1 .. i : IsDigit(s[k])})

\* array_index.  std::stoi takes a sign and leading zeros, and throws an exception of
\* its own when there is no digit: 0 here.  An index that does not fit an int is left out.
array_index(t) ==
  IF t # <<>> /\ t[1] \in {Minus, Plus} THEN Stoi(t[1] = Minus, Tail(t), Leading(Tail(t)))
                                        ELSE Stoi(FALSE, t, Leading(t))

-----------------------------------------------------------------------------
(* Access by pointer, token by token.                                      *)

LeadingZero(t) == Len(t) > 1 /\ t[1] = Zero

\* get_checked: the child of v, or an exception.  A negative index is a huge size_type.
CheckedElement(v, i) ==
  CASE i = Threw(0) -> Threw(109)
    [] i = Threw(404) -> i
    [] ~Failed(i) /\ i[2] \in 0 .. Len(v[2]) - 1 -> v[2][i[2] + 1]
    [] OTHER -> Threw(401)
CheckedChild(v, t) ==
  CASE Failed(v) -> v
    [] IsObject(v) -> IF t \in DOMAIN v[2] THEN v[2][t] ELSE Threw(403)
    [] IsArray(v) ->
         CASE t = <<Minus>> -> Threw(402)
           [] LeadingZero(t) -> Threw(106)
           [] OTHER -> CheckedElement(v, array_index(t))
    [] OTHER -> Threw(404)
at(v, tokens) == FoldLeft(CheckedChild, v, tokens)

\* get_unchecked and get_and_create, which unflatten uses, make a null the container
\* that the token asks for ...
Container(v, t, unflatten) ==
  IF v # Null THEN v
  ELSE IF IF unflatten THEN t = <<Zero>> ELSE t = <<Minus>> \/ \A i \in DOMAIN t : IsDigit(t[i])
       THEN EmptyArray ELSE EmptyObject

Indexed(i) == IF i = Threw(0) THEN Threw(109) ELSE i
\* ... and take the index in an array.  A negative one, with which operator[] would
\* fill up the memory, is left out.
Slot(v, t, unflatten) ==
  CASE ~unflatten /\ LeadingZero(t) -> Threw(106)
    [] ~unflatten /\ t = <<Minus>> -> <<"index", Len(v[2])>>
    [] OTHER -> Indexed(array_index(t))

\* The child, null if it is not there yet, or the exception.
ChildAt(v, i) == IF Failed(i) THEN i ELSE IF i[2] < Len(v[2]) THEN v[2][i[2] + 1] ELSE Null
ChildOf(v, t, unflatten) ==
  CASE IsObject(v) -> IF t \in DOMAIN v[2] THEN v[2][t] ELSE Null
    [] IsArray(v) -> ChildAt(v, Slot(v, t, unflatten))
    [] OTHER -> Threw(IF unflatten THEN 313 ELSE 404)
Child(u, t, unflatten) ==
  IF Failed(u) THEN u ELSE ChildOf(Container(u, t, unflatten), t, unflatten)
Unchecked(v, tokens, unflatten) == FoldLeft(LAMBDA u, t : Child(u, t, unflatten), v, tokens)

\* v after an assignment through the reference that they return.
WithChild(v, t, w, unflatten) ==
  IF IsObject(v) THEN WithKey(v, t, w) ELSE WithElement(v, Slot(v, t, unflatten)[2], w)
RECURSIVE Assigned(_, _, _, _)
Assigned(u, tokens, w, unflatten) ==
  IF tokens = <<>> THEN w
  ELSE WithChild(Container(u, Head(tokens), unflatten), Head(tokens),
         Assigned(Child(u, Head(tokens), unflatten), Tail(tokens), w, unflatten), unflatten)

-----------------------------------------------------------------------------

\* An operation of a patch, whose members may be missing, or what is no object.
Missing == <<"missing", 0>>
NoMembers(op) == [op |-> op, path |-> Missing, value |-> Missing, from |-> Missing]
NoObject == NoMembers("no object")

=============================================================================
