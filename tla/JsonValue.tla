----------------------------- MODULE JsonValue -----------------------------
(***************************************************************************)
(* Values of basic_json (json.hpp), as the modules that work on whole      *)
(* values see them.                                                        *)
(*                                                                         *)
(* A value is a pair of its type and its content.  A string is a sequence  *)
(* of character codes, an array a sequence, an object a function on        *)
(* strings; how it writes a number is up to the module that EXTENDS this   *)
(* one.  An exception is a result too: Threw of the number that            *)
(* json::exception carries.                                                *)
(***************************************************************************)
EXTENDS Integers, SequencesExt, FiniteSetsExt, Functions

Null == <<"null", 0>>
EmptyArray == <<"array", <<>> >>
EmptyObject == <<"object", <<>> >>
Threw(id) == <<"threw", id>>
Failed(v) == v[1] = "threw"
IsArray(v) == v[1] = "array"
IsObject(v) == v[1] = "object"
IsNumber(v) == v[1] \in {"integer", "unsigned"}

\* The keys of an object in the order of std::map.
KeyLess(s, t) ==
  \/ IsStrictPrefix(s, t)
  \/ \E i \in DOMAIN s \cap DOMAIN t : s[i] < t[i] /\ SubSeq(s, 1, i - 1) = SubSeq(t, 1, i - 1)
InOrderOf(S, Less(_, _)) ==
  [i \in 1 .. Cardinality(S) |-> CHOOSE e \in S : Cardinality({d \in S : Less(d, e)}) = i - 1]
Keys(f) == InOrderOf(DOMAIN f, KeyLess)

\* The value with k in place of what it has under k, and the text of an index.
WithKey(v, k, w) == <<"object", [x \in DOMAIN v[2] \cup {k} |-> IF x = k THEN w ELSE v[2][x]]>>
Zero == 48
IndexText(i) == IF i < 10 THEN <<Zero + i>> ELSE <<Zero + (i \div 10), Zero + (i % 10)>>

=============================================================================
