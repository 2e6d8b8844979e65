----------------------------- MODULE JsonGrammar -----------------------------
(***************************************************************************)
(* The value that json::parse has built, and what JSON says of texts and   *)
(* their values, apart from the code (json.hpp).                           *)
(***************************************************************************)
EXTENDS JsonDump

-----------------------------------------------------------------------------
(* Values, apart from where they are in memory: an array as a sequence and *)
(* an object as a function on keys.                                        *)

\* The value of each node of a heap.
ValueAt(heap) ==
  LET value[n \in DOMAIN heap] ==
        LET type == heap[n][1]
            kids == heap[n][2] IN
        IF type \in {"object", "array"}
        THEN <<type, [k \in DOMAIN kids |-> value[kids[k]]]>>
        ELSE heap[n]
  IN value

Root == ValueAt(dom.heap)[1]

\* The value of each node of a tree: of two members with one key the later counts.
LastOf(members, k) ==
  CHOOSE i \in DOMAIN members :
    members[i][1] = k /\ \A j \in DOMAIN members : members[j][1] = k => j <= i
Meaning(tree) ==
  LET meaning[n \in DOMAIN tree] ==
        LET type == tree[n][1]
            parts == tree[n][2] IN
        CASE type = "array" -> <<type, [i \in DOMAIN parts |-> meaning[parts[i]]]>>
          [] type = "object" ->
               <<type, [k \in {parts[i][1] : i \in DOMAIN parts} |-> meaning[parts[LastOf(parts, k)][2]]]>>
          [] OTHER -> tree[n]
  IN meaning

-----------------------------------------------------------------------------
(* What JSON says, apart from the code.                                    *)

\* A member k of value v, and after it the members in f: of two with one key the
\* later counts.
Overruled(k, v, f) == [j \in {k} \cup DOMAIN f |-> IF j \in DOMAIN f THEN f[j] ELSE v]

\* A text with what it means, made of the parts in a container: the container, a list
\* of a value, of a value and a list, members of a key and a value, and of these and more.
ArrayOf(l) == << <<"[">> \o (l[1] \o <<"]">>), <<"array", l[2]>> >>
ObjectOf(m) == << <<"{">> \o (m[1] \o <<"}">>), <<"object", m[2]>> >>
Single(v) == <<v[1], <<v[2]>> >>
Longer(v, l) == <<v[1] \o (<<",">> \o l[1]), <<v[2]>> \o l[2]>>
OneMember(k, v) == << <<k, ":">> \o v[1], Overruled(k, v[2], <<>>)>>
MoreMembers(k, v, m) == << <<k, ":">> \o (v[1] \o (<<",">> \o m[1])), Overruled(k, v[2], m[2])>>

\* The texts of n tokens, over the strings W, that are a value, a list of values
\* or a list of members; g has the shorter ones.
ValueTexts(W, n, g) ==
  CASE n = 1 -> {<< <<t>>, Leaf(t)>> : t \in W \cup {"null", "number"}}
    [] n = 2 -> {<< <<"[", "]">>, <<"array", <<>> >> >>, << <<"{", "}">>, <<"object", <<>> >> >>}
    [] n > 2 -> {ArrayOf(l) : l \in g[n - 2].lists} \cup {ObjectOf(m) : m \in g[n - 2].members}
    [] OTHER -> {}
ListTexts(W, n, g) ==
  {Single(v) : v \in ValueTexts(W, n, g)}
    \cup UNION {{Longer(v, l) : v \in g[i].values, l \in g[n - 1 - i].lists} : i \in 1 .. n - 2}
MemberTexts(W, n, g) ==
  (UNION {{OneMember(k, v) : k \in W, v \in g[i].values} : i \in {n - 2} \cap Nat})
    \cup UNION {{MoreMembers(k, v, m) : k \in W, v \in g[i].values, m \in g[n - 3 - i].members} :
                  i \in 1 .. n - 4}
Grammar(W) ==
  LET g[n \in Nat] ==
        [values |-> ValueTexts(W, n, g), lists |-> ListTexts(W, n, g), members |-> MemberTexts(W, n, g)]
  IN g

\* Every text that fits the bound, with its value, and how such texts begin.
Json == UNION {Grammar(Word)[n].values : n \in 1 .. MaxTokens - 1}
Begun == UNION {{SubSeq(j[1], 1, n) : n \in DOMAIN j[1]} \cup {Append(j[1], "end")} : j \in Json}

-----------------------------------------------------------------------------
(* Properties.                                                             *)

\* The text t is JSON for the value v.
Means(t, v) ==
  IF Len(t) \in 1 .. MaxTokens - 1 THEN <<t, v>> \in Json
  ELSE <<t, v>> \in Grammar(Word)[Len(t)].values

\* parse accepts JSON texts only, and builds the value the text denotes; of two
\* members with one key the later counts, also when the earlier is a container.
Sound == pc = "accepted" /\ todo = Free => Means(Front(text), Root)

\* parse gives up only at a token with which no JSON text goes on: it refuses
\* none that it should take.
Complete == pc = "rejected" /\ todo = Free => text \notin Begun

\* dump of what was parsed is JSON for the same value: the payload that from_json
\* stores as text is the payload that came.
DumpedAgain == pc = "accepted" /\ todo = Free => Means(Dump(dom.heap)[1], Root)

\* All together: what parse does with a text, right or wrong, and that dump undoes it.
ParsesJson == Aligned /\ Sound /\ Complete /\ DumpedAgain

=============================================================================
