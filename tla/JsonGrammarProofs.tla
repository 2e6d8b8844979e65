------------------------- MODULE JsonGrammarProofs --------------------------
(***************************************************************************)
(* Theorems about JsonGrammar, for texts of any length: parse accepts the  *)
(* texts of JSON and nothing else, with the value that they denote, gives  *)
(* up at no token that such a text may have there, and dump undoes it.     *)
(***************************************************************************)
EXTENDS JsonGrammar, JsonParserProofs, JsonLexerProofs

\* What is written for g[n], which depends on the shorter texts only.
LEMMA Shorter ==
  ASSUME NEW W, NEW n \in Nat, NEW g, NEW h, \A k \in Nat : k < n => g[k] = h[k]
  PROVE  /\ ValueTexts(W, n, g) = ValueTexts(W, n, h)
         /\ ListTexts(W, n, g) = ListTexts(W, n, h)
         /\ MemberTexts(W, n, g) = MemberTexts(W, n, h)
<1>1. ValueTexts(W, n, g) = ValueTexts(W, n, h)
  <2>1. n > 2 => g[n - 2] = h[n - 2]
    OBVIOUS
  <2> QED
    BY <2>1 DEF ValueTexts
<1>2. ListTexts(W, n, g) = ListTexts(W, n, h)
  <2> DEFINE L(f, i) == {Longer(v, l) : v \in f[i].values, l \in f[n - 1 - i].lists}
  <2>1. ASSUME NEW i \in 1 .. n - 2 PROVE L(g, i) = L(h, i)
    <3>1. g[i] = h[i] /\ g[n - 1 - i] = h[n - 1 - i]
      OBVIOUS
    <3> QED
      BY <3>1
  <2>2. ListTexts(W, n, g) = {Single(v) : v \in ValueTexts(W, n, g)}
                               \cup UNION {L(g, i) : i \in 1 .. n - 2}
    BY DEF ListTexts
  <2>3. ListTexts(W, n, h) = {Single(v) : v \in ValueTexts(W, n, h)}
                               \cup UNION {L(h, i) : i \in 1 .. n - 2}
    BY DEF ListTexts
  <2> HIDE DEF L
  <2>4. {L(g, i) : i \in 1 .. n - 2} = {L(h, i) : i \in 1 .. n - 2}
    BY <2>1
  <2> QED
    BY <1>1, <2>2, <2>3, <2>4
<1>3. MemberTexts(W, n, g) = MemberTexts(W, n, h)
  <2> DEFINE O(f, i) == {OneMember(k, v) : k \in W, v \in f[i].values}
             M(f, i) == {MoreMembers(k, v, m) : k \in W, v \in f[i].values, m \in f[n - 3 - i].members}
             S == {n - 2} \cap Nat
  <2>1. ASSUME NEW i \in 1 .. n - 4 PROVE M(g, i) = M(h, i)
    <3>1. g[i] = h[i] /\ g[n - 3 - i] = h[n - 3 - i]
      OBVIOUS
    <3> QED
      BY <3>1
  <2>2. ASSUME NEW i \in S PROVE O(g, i) = O(h, i)
    <3>1. g[i] = h[i]
      OBVIOUS
    <3> QED
      BY <3>1
  <2>3. MemberTexts(W, n, g) = (UNION {O(g, i) : i \in S}) \cup UNION {M(g, i) : i \in 1 .. n - 4}
    BY DEF MemberTexts
  <2>4. MemberTexts(W, n, h) = (UNION {O(h, i) : i \in S}) \cup UNION {M(h, i) : i \in 1 .. n - 4}
    BY DEF MemberTexts
  <2> HIDE DEF O, M, S
  <2>5. {M(g, i) : i \in 1 .. n - 4} = {M(h, i) : i \in 1 .. n - 4}
    BY <2>1
  <2>6. {O(g, i) : i \in S} = {O(h, i) : i \in S}
    BY <2>2
  <2> QED
    BY <2>3, <2>4, <2>5, <2>6
<1> QED
  BY <1>1, <1>2, <1>3

\* The recursion of Grammar has a solution.
LEMMA GrammarIs ==
  ASSUME NEW W
  PROVE  \A n \in Nat :
           /\ Grammar(W)[n].values = ValueTexts(W, n, Grammar(W))
           /\ Grammar(W)[n].lists = ListTexts(W, n, Grammar(W))
           /\ Grammar(W)[n].members = MemberTexts(W, n, Grammar(W))
<1> DEFINE At(n, g) == [values |-> ValueTexts(W, n, g), lists |-> ListTexts(W, n, g),
                        members |-> MemberTexts(W, n, g)]
           Up(g, n) == \A x \in 0 .. n : g[x] = At(x, g)
           Reached == {n \in Nat : \E g : Up(g, n)}
<1>1. ASSUME NEW n \in Nat, NEW g, NEW h, \A k \in Nat : k < n => g[k] = h[k]
      PROVE  At(n, g) = At(n, h)
  BY <1>1, Shorter
<1> HIDE DEF At
<1>2. 0 \in Reached
  <2> DEFINE g == [x \in Nat |-> At(0, <<>>)]
  <2>1. At(0, g) = At(0, <<>>)
    BY <1>1
  <2>2. Up(g, 0)
    BY <2>1
  <2> HIDE DEF g, Up
  <2> QED
    BY <2>2
<1>3. ASSUME NEW n \in Nat, n \in Reached PROVE n + 1 \in Reached
  <2>1. PICK g : Up(g, n)
    BY <1>3
  <2> DEFINE h == [x \in Nat |-> IF x = n + 1 THEN At(n + 1, g) ELSE g[x]]
  <2>2. ASSUME NEW x \in 0 .. n + 1 PROVE h[x] = At(x, h)
    <3>1. \A k \in Nat : k < x => g[k] = h[k]
      OBVIOUS
    <3>2. x \in Nat /\ (x # n + 1 => x \in 0 .. n)
      OBVIOUS
    <3> HIDE DEF h
    <3>3. At(x, g) = At(x, h)
      BY <1>1, <3>1, <3>2
    <3>4. h[x] = IF x = n + 1 THEN At(n + 1, g) ELSE g[x]
      BY <3>2 DEF h
    <3> QED
      BY <2>1, <3>2, <3>3, <3>4
  <2>3. Up(h, n + 1)
    <3> HIDE DEF h
    <3> QED
      BY <2>2
  <2> HIDE DEF h, Up
  <2> QED
    BY <2>3
<1>4. \A n \in Nat : \E g : Up(g, n)
  <2>1. Nat \subseteq Reached
    <3> HIDE DEF Reached
    <3> QED
      BY <1>2, <1>3, Induction
  <2> HIDE DEF Up
  <2> QED
    BY <2>1
<1>5. ASSUME NEW n \in Nat, NEW m \in Nat, NEW g, NEW h, Up(g, n), Up(h, m)
      PROVE  \A x \in Nat : x <= n /\ x <= m => g[x] = h[x]
  <2> DEFINE Same == {x \in Nat : x <= n /\ x <= m => g[x] = h[x]}
  <2>1. ASSUME NEW x \in Nat, \A k \in Nat : k < x => k \in Same PROVE x \in Same
    <3> SUFFICES ASSUME x <= n, x <= m PROVE g[x] = h[x]
      OBVIOUS
    <3>1. \A k \in Nat : k < x => g[k] = h[k]
      BY <2>1
    <3>2. At(x, g) = At(x, h)
      BY <1>1, <3>1
    <3> QED
      BY <1>5, <3>2
  <2>2. Nat \subseteq Same
    <3> HIDE DEF Same, Up
    <3> QED
      BY <2>1, StrongInduction
  <2> QED
    BY <2>2
<1> DEFINE G(x) == CHOOSE g : Up(g, x)
           f == [x \in Nat |-> G(x)[x]]
<1>6. \A x \in Nat : Up(G(x), x)
  <2> HIDE DEF Up
  <2> QED
    BY <1>4
<1> HIDE DEF G
<1>7. ASSUME NEW x \in Nat PROVE f[x] = At(x, f)
  <2>1. f[x] = At(x, G(x))
    BY <1>6
  <2>2. ASSUME NEW k \in Nat, k < x PROVE G(x)[k] = f[k]
    <3>1. Up(G(x), x) /\ Up(G(k), k)
      BY <1>6
    <3> HIDE DEF Up
    <3>2. G(x)[k] = G(k)[k]
      BY <1>5, <2>2, <3>1
    <3> QED
      BY <3>2
  <2> HIDE DEF f
  <2>3. At(x, G(x)) = At(x, f)
    BY <1>1, <2>2
  <2> QED
    BY <2>1, <2>3
<1>8. f = [n \in Nat |-> At(n, f)]
  <2> DEFINE e == [n \in Nat |-> At(n, f)]
  <2>1. \A n \in Nat : f[n] = e[n]
    BY <1>7
  <2>2. f = [n \in Nat |-> f[n]] /\ e = [n \in Nat |-> e[n]]
    OBVIOUS
  <2> HIDE DEF f, e
  <2>3. f = e
    BY <2>1, <2>2
  <2> QED
    BY <2>3 DEF e
<1> HIDE DEF f
<1> DEFINE g == Grammar(W)
<1>9. g = [n \in Nat |-> At(n, g)]
  <2>1. g = CHOOSE y : y = [n \in Nat |-> At(n, y)]
    BY DEF Grammar, At
  <2> HIDE DEF g
  <2> QED
    BY <1>8, <2>1
<1> HIDE DEF g
<1>10. \A n \in Nat : g[n] = At(n, g)
  BY <1>9
<1> HIDE DEF At
<1>11. ASSUME NEW n \in Nat
       PROVE  /\ g[n].values = ValueTexts(W, n, g)
              /\ g[n].lists = ListTexts(W, n, g)
              /\ g[n].members = MemberTexts(W, n, g)
  <2>1. g[n] = At(n, g)
    BY <1>10
  <2>2. /\ At(n, g).values = ValueTexts(W, n, g)
        /\ At(n, g).lists = ListTexts(W, n, g)
        /\ At(n, g).members = MemberTexts(W, n, g)
    BY DEF At
  <2> QED
    BY <2>1, <2>2
<1> QED
  BY <1>11 DEF g

-----------------------------------------------------------------------------
(* The grammar without lengths, arrays and objects alike.                   *)

\* The tokens, and those of a container of type c.
Tok == Str \cup NonString
OpenOf(c) == IF c = "object" THEN "{" ELSE "["
CloseOf(c) == IF c = "object" THEN "}" ELSE "]"
Comma == ","

\* The text of an element of a container, the key k before it for an object; the
\* content with only that element; one content after the other.
Keys(W, c) == IF c = "object" THEN W ELSE {0}
Led(c, k, t) == IF c = "object" THEN <<k, ":">> \o t ELSE t
Item(c, k, v) == IF c = "object" THEN [j \in {k} |-> v] ELSE <<v>>
Join(c, x, y) ==
  IF c = "object" THEN [j \in DOMAIN x \cup DOMAIN y |-> IF j \in DOMAIN y THEN y[j] ELSE x[j]]
  ELSE x \o y

\* The text t, over the strings W, is JSON for the value v; the text b is the inside
\* of a container of type c, and of one that is not empty, with the content x.
IsValue(W, t, v) == \E n \in Nat : <<t, v>> \in Grammar(W)[n].values
Bodies(W, c, n) == IF c = "object" THEN Grammar(W)[n].members ELSE Grammar(W)[n].lists
IsBody(W, c, b, x) == \E n \in Nat : <<b, x>> \in Bodies(W, c, n)
IsInside(W, c, b, x) == (b = <<>> /\ x = <<>>) \/ IsBody(W, c, b, x)

\* Contents: sequences, or functions.
IsContent(c, x) == IF c = "object" THEN x = [j \in DOMAIN x |-> x[j]] ELSE \E S : x \in Seq(S)

\* Tokens of a container differ from each other, and from strings.
LEMMA Marks ==
  /\ \A c \in Container :
       /\ OpenOf(c) \in NonString /\ CloseOf(c) \in NonString
       /\ OpenOf(c) \notin {"null", "number", "end", ":", Comma}
       /\ CloseOf(c) \notin {"null", "number", "end", ":", Comma}
       /\ \A e \in Container : OpenOf(c) # CloseOf(e) /\ (OpenOf(c) = OpenOf(e) => c = e)
  /\ Comma \in NonString /\ Comma \notin {"null", "number", "end", ":"}
  /\ {"null", "number", "end", ":"} \subseteq NonString
  /\ Str \cap NonString = {} /\ NonString \subseteq Tok /\ Str \subseteq Tok
<1>1. {"{", "}", "[", "]", ",", ":", "end", "null", "number"} \subseteq NonString
  BY Zenon DEF NonString
<1>2. /\ "{" \notin {"null", "number", "end", ":", ",", "}", "[", "]"}
      /\ "}" \notin {"null", "number", "end", ":", ",", "[", "]"}
      /\ "[" \notin {"null", "number", "end", ":", ",", "]"}
      /\ "]" \notin {"null", "number", "end", ":", ","}
      /\ "," \notin {"null", "number", "end", ":"}
  BY Zenon
<1>3. "object" # "array" /\ \A c \in Container : c = "object" \/ c = "array"
  BY DEF Container
<1>4. /\ OpenOf("object") = "{" /\ OpenOf("array") = "["
      /\ CloseOf("object") = "}" /\ CloseOf("array") = "]"
  BY <1>3, Zenon DEF OpenOf, CloseOf
<1>5. Str \cap NonString = {} /\ NonString \subseteq Tok /\ Str \subseteq Tok
  BY DumpAssumption, Zenon DEF Tok
<1> DEFINE a == "{"
           b == "}"
           d == "["
           e == "]"
           f == ","
<1>6. /\ {a, b, d, e, f, ":", "end", "null", "number"} \subseteq NonString
      /\ a \notin {"null", "number", "end", ":", f, b, d, e}
      /\ b \notin {"null", "number", "end", ":", f, d, e}
      /\ d \notin {"null", "number", "end", ":", f, e}
      /\ e \notin {"null", "number", "end", ":", f}
      /\ f \notin {"null", "number", "end", ":"} /\ Comma = f
      /\ OpenOf("object") = a /\ OpenOf("array") = d
      /\ CloseOf("object") = b /\ CloseOf("array") = e
  BY <1>1, <1>2, <1>4, Zenon DEF Comma
<1> HIDE DEF a, b, d, e, f
<1>7. ASSUME NEW c \in Container
      PROVE  /\ OpenOf(c) \in NonString /\ CloseOf(c) \in NonString
             /\ OpenOf(c) \notin {"null", "number", "end", ":", Comma}
             /\ CloseOf(c) \notin {"null", "number", "end", ":", Comma}
  BY <1>3, <1>6
<1>8. ASSUME NEW c \in Container, NEW x \in Container
      PROVE  OpenOf(c) # CloseOf(x) /\ (OpenOf(c) = OpenOf(x) => c = x)
  BY <1>3, <1>6
<1> QED
  BY <1>5, <1>6, <1>7, <1>8

\* The rules, of texts of n tokens with what they mean.
LeafText(W, n, p) == n = 1 /\ \E s \in W \cup {"null", "number"} : p = << <<s>>, Leaf(s)>>
EmptyText(n, p) == n = 2 /\ \E c \in Container : p = << <<OpenOf(c), CloseOf(c)>>, <<c, <<>> >> >>
FullText(W, n, p) ==
  n > 2 /\ \E c \in Container : \E q \in Bodies(W, c, n - 2) :
    p = << <<OpenOf(c)>> \o (q[1] \o <<CloseOf(c)>>), <<c, q[2]>> >>

\* A value is a leaf, an empty container or a full one.
LEMMA ValueForm ==
  ASSUME NEW W, NEW n \in Nat, NEW p
  PROVE  p \in Grammar(W)[n].values <=> LeafText(W, n, p) \/ EmptyText(n, p) \/ FullText(W, n, p)
<1> DEFINE g == Grammar(W)
           a == << <<"[", "]">>, <<"array", <<>> >> >>
           o == << <<"{", "}">>, <<"object", <<>> >> >>
           S == {<< <<t>>, Leaf(t)>> : t \in W \cup {"null", "number"}}
           A == {ArrayOf(l) : l \in g[n - 2].lists}
           O == {ObjectOf(m) : m \in g[n - 2].members}
           E(c) == << <<OpenOf(c), CloseOf(c)>>, <<c, <<>> >> >>
           B(c) == Bodies(W, c, n - 2)
           F(c, q) == << <<OpenOf(c)>> \o (q[1] \o <<CloseOf(c)>>), <<c, q[2]>> >>
           L == \E s \in W \cup {"null", "number"} : p = << <<s>>, Leaf(s)>>
<1>1. g[n].values = ValueTexts(W, n, g)
  BY GrammarIs
<1>2. p \in S <=> L
  OBVIOUS
<1>3. p \in A <=> \E l \in g[n - 2].lists : p = ArrayOf(l)
  OBVIOUS
<1>4. p \in O <=> \E m \in g[n - 2].members : p = ObjectOf(m)
  OBVIOUS
<1>5. ValueTexts(W, n, g) =
        CASE n = 1 -> S [] n = 2 -> {a, o} [] n > 2 -> A \cup O [] OTHER -> {}
  BY DEF ValueTexts
<1>6. "object" # "array" /\ \A c : c \in Container <=> c = "object" \/ c = "array"
  BY DEF Container
<1>7. /\ OpenOf("object") = "{" /\ OpenOf("array") = "["
      /\ CloseOf("object") = "}" /\ CloseOf("array") = "]"
  BY <1>6, Zenon DEF OpenOf, CloseOf
<1>8. a = E("array") /\ o = E("object")
  BY <1>7, Zenon
<1>9. \A q : ArrayOf(q) = F("array", q) /\ ObjectOf(q) = F("object", q)
  BY <1>7, Zenon DEF ArrayOf, ObjectOf
<1>10. B("array") = g[n - 2].lists /\ B("object") = g[n - 2].members
  BY <1>6 DEF Bodies
<1> HIDE DEF g, a, o, S, A, O, E, B, F, L
<1>11. p \in ValueTexts(W, n, g) <=>
        \/ n = 1 /\ p \in S
        \/ n = 2 /\ p \in {a, o}
        \/ n > 2 /\ p \in A \cup O
  <2>1. CASE n = 0
    BY <1>5, <2>1
  <2>2. CASE n = 1
    BY <1>5, <2>2
  <2>3. CASE n = 2
    BY <1>5, <2>3
  <2>4. CASE n > 2
    BY <1>5, <2>4
  <2> QED
    BY <2>1, <2>2, <2>3, <2>4
<1>12. p \in {a, o} <=> \E c \in Container : p = E(c)
  BY <1>6, <1>8
<1>13. p \in A \cup O <=> \E c \in Container : \E q \in B(c) : p = F(c, q)
  <2>1. p \in A <=> \E q \in B("array") : p = F("array", q)
    BY <1>3, <1>9, <1>10
  <2>2. p \in O <=> \E q \in B("object") : p = F("object", q)
    BY <1>4, <1>9, <1>10
  <2> QED
    BY <1>6, <2>1, <2>2
<1>14. p \in g[n].values <=>
         \/ n = 1 /\ L
         \/ n = 2 /\ \E c \in Container : p = E(c)
         \/ n > 2 /\ \E c \in Container : \E q \in B(c) : p = F(c, q)
  BY <1>1, <1>2, <1>11, <1>12, <1>13
<1> QED
  BY <1>14, Zenon DEF g, L, E, B, F, LeafText, EmptyText, FullText

\* A list is one value, or a value, a comma and a shorter list.
LEMMA ListParts ==
  ASSUME NEW W, NEW n \in Nat, NEW p
  PROVE  p \in Grammar(W)[n].lists <=>
           \/ \E v \in Grammar(W)[n].values : p = Single(v)
           \/ \E i \in 1 .. n - 2 : \E v \in Grammar(W)[i].values :
                \E l \in Grammar(W)[n - 1 - i].lists : p = Longer(v, l)
<1> DEFINE g == Grammar(W)
<1>1. /\ g[n].lists = ListTexts(W, n, g)
      /\ g[n].values = ValueTexts(W, n, g)
  BY GrammarIs
<1> HIDE DEF g
<1> DEFINE L(i) == {Longer(v, l) : v \in g[i].values, l \in g[n - 1 - i].lists}
           O == {Single(v) : v \in g[n].values}
<1>2. g[n].lists = O \cup UNION {L(i) : i \in 1 .. n - 2}
  BY <1>1 DEF ListTexts
<1>3. p \in O <=> \E v \in g[n].values : p = Single(v)
  OBVIOUS
<1>4. \A i : p \in L(i) <=>
        \E v \in g[i].values : \E l \in g[n - 1 - i].lists : p = Longer(v, l)
  OBVIOUS
<1> HIDE DEF L, O
<1>5. p \in UNION {L(i) : i \in 1 .. n - 2} <=> \E i \in 1 .. n - 2 : p \in L(i)
  OBVIOUS
<1> QED
  BY <1>2, <1>3, <1>4, <1>5 DEF g

\* Members are one member, or a member, a comma and fewer members.
LEMMA MemberParts ==
  ASSUME NEW W, NEW n \in Nat, NEW p
  PROVE  p \in Grammar(W)[n].members <=>
           \/ n >= 2 /\ \E k \in W : \E v \in Grammar(W)[n - 2].values : p = OneMember(k, v)
           \/ \E i \in 1 .. n - 4 : \E k \in W : \E v \in Grammar(W)[i].values :
                \E m \in Grammar(W)[n - 3 - i].members : p = MoreMembers(k, v, m)
<1> DEFINE g == Grammar(W)
<1>0. g[n].members = MemberTexts(W, n, g)
  BY GrammarIs
<1> HIDE DEF g
<1> DEFINE O(i) == {OneMember(k, v) : k \in W, v \in g[i].values}
           M(i) == {MoreMembers(k, v, m) : k \in W, v \in g[i].values, m \in g[n - 3 - i].members}
           S == {n - 2} \cap Nat
<1>1. g[n].members = (UNION {O(i) : i \in S}) \cup UNION {M(i) : i \in 1 .. n - 4}
  BY <1>0 DEF MemberTexts
<1>2. \A i : p \in O(i) <=> \E k \in W : \E v \in g[i].values : p = OneMember(k, v)
  OBVIOUS
<1>3. \A i : p \in M(i) <=>
        \E k \in W : \E v \in g[i].values : \E m \in g[n - 3 - i].members :
                  p = MoreMembers(k, v, m)
  OBVIOUS
<1>4. \A i : i \in S <=> n >= 2 /\ i = n - 2
  OBVIOUS
<1> HIDE DEF O, M, S
<1> DEFINE A == UNION {O(i) : i \in S}
           B == UNION {M(i) : i \in 1 .. n - 4}
<1>5. p \in A <=> \E i \in S : p \in O(i)
  OBVIOUS
<1>6. p \in B <=> \E i \in 1 .. n - 4 : p \in M(i)
  OBVIOUS
<1>7. g[n].members = A \cup B
  BY <1>1, Zenon
<1> HIDE DEF A, B
<1>8. (\E i \in S : p \in O(i)) <=> n >= 2 /\ p \in O(n - 2)
  BY <1>4
<1>9. p \in g[n].members <=> (n >= 2 /\ p \in O(n - 2)) \/ (\E i \in 1 .. n - 4 : p \in M(i))
  BY <1>5, <1>6, <1>7, <1>8
<1>10. p \in O(n - 2) <=> \E k \in W : \E v \in g[n - 2].values : p = OneMember(k, v)
  BY <1>2
<1>11. (\E i \in 1 .. n - 4 : p \in M(i)) <=>
         \E i \in 1 .. n - 4 : \E k \in W : \E v \in g[i].values :
           \E m \in g[n - 3 - i].members : p = MoreMembers(k, v, m)
  BY <1>3
<1> QED
  BY <1>9, <1>10, <1>11 DEF g

\* Concatenation of texts is associative.
Alike(s, t, u) == (s \o t) \o u = s \o (t \o u)
LEMMA Associates == \A s, t, u \in Seq(Tok) : Alike(s, t, u)
BY ConcatAssociative DEF Alike

\* Sequences of tokens.
LEMMA Concat ==
  ASSUME NEW S, NEW s \in Seq(S), NEW t \in Seq(S)
  PROVE  /\ s \o t \in Seq(S) /\ Len(s \o t) = Len(s) + Len(t)
         /\ Len(s) \in Nat /\ Len(t) \in Nat
OBVIOUS

\* One token is a text of length one.
LEMMA OneToken ==
  ASSUME NEW S, NEW t \in S PROVE <<t>> \in Seq(S) /\ Len(<<t>>) = 1
OBVIOUS

\* A token before a text: which it is, and what comes after it.
LEMMA FirstOf ==
  ASSUME NEW S, NEW a \in S, NEW b \in S, NEW s \in Seq(S), NEW t \in Seq(S)
  PROVE  /\ <<a>> \o s = <<b>> \o t <=> a = b /\ s = t
         /\ <<a>> \o s # <<>>
<1> DEFINE l == <<a>> \o s
           r == <<b>> \o t
<1>1. /\ Len(l) = Len(s) + 1 /\ l[1] = a /\ \A i \in 1 .. Len(s) : l[i + 1] = s[i]
      /\ Len(s) \in Nat
  OBVIOUS
<1>2. /\ Len(r) = Len(t) + 1 /\ r[1] = b /\ \A i \in 1 .. Len(t) : r[i + 1] = t[i]
      /\ Len(t) \in Nat
  OBVIOUS
<1>3. s = [i \in 1 .. Len(s) |-> s[i]] /\ t = [i \in 1 .. Len(t) |-> t[i]]
  OBVIOUS
<1>4. a = b /\ s = t => l = r
  OBVIOUS
<1>5. l # <<>>
  OBVIOUS
<1> HIDE DEF l, r
<1>6. ASSUME l = r PROVE a = b /\ s = t
  <2>1. a = b /\ Len(s) = Len(t)
    BY <1>1, <1>2, <1>6
  <2>2. \A i \in 1 .. Len(s) : s[i] = t[i]
    BY <1>1, <1>2, <1>6, <2>1
  <2>3. s = t
    BY <1>3, <2>1, <2>2
  <2> QED
    BY <2>1, <2>3
<1> QED
  BY <1>4, <1>5, <1>6 DEF l, r

\* Two tokens before a text can be taken one at a time.
LEMMA FirstTwo ==
  ASSUME NEW S, NEW a \in S, NEW b \in S, NEW s \in Seq(S)
  PROVE  <<a, b>> \o s = <<a>> \o (<<b>> \o s) /\ <<a, b>> \in Seq(S) /\ <<b>> \o s \in Seq(S)
<1>1. <<a>> \in Seq(S) /\ <<b>> \in Seq(S)
  BY OneToken
<1>0. <<a, b>> = <<a>> \o <<b>>
  <2> DEFINE l == <<a, b>>
             r == <<a>> \o <<b>>
  <2>1. /\ l \in Seq(S) /\ Len(l) = 2 /\ l[1] = a /\ l[2] = b
        /\ r \in Seq(S) /\ Len(r) = 2 /\ r[1] = a /\ r[2] = b
    OBVIOUS
  <2> HIDE DEF l, r
  <2>2. l = r
    BY <2>1, SeqEqual
  <2> QED
    BY <2>2 DEF l, r
<1>2. <<a, b>> \in Seq(S) /\ <<b>> \o s \in Seq(S)
  BY <1>0, <1>1, Concat
<1> QED
  BY <1>0, <1>1, <1>2, ConcatAssociative

-----------------------------------------------------------------------------
(* Contents.                                                               *)

\* Joining contents is associative, with the empty content as its unit.
LEMMA JoinLaws ==
  ASSUME NEW c \in Container, NEW x, IsContent(c, x), NEW y, IsContent(c, y), NEW z, IsContent(c, z)
  PROVE  /\ IsContent(c, Join(c, x, y))
         /\ Join(c, Join(c, x, y), z) = Join(c, x, Join(c, y, z))
         /\ Join(c, x, <<>>) = x /\ Join(c, <<>>, x) = x
<1>1. CASE c = "object"
  <2>1. /\ x = [j \in DOMAIN x |-> x[j]] /\ y = [j \in DOMAIN y |-> y[j]]
        /\ z = [j \in DOMAIN z |-> z[j]]
    BY <1>1 DEF IsContent
  <2> DEFINE J(u, v) == [j \in DOMAIN u \cup DOMAIN v |-> IF j \in DOMAIN v THEN v[j] ELSE u[j]]
  <2>2. \A u, v : Join(c, u, v) = J(u, v)
    BY <1>1 DEF Join
  <2>3. \A u, v : DOMAIN J(u, v) = DOMAIN u \cup DOMAIN v
    OBVIOUS
  <2>4. ASSUME NEW u, NEW v, NEW j \in DOMAIN u \cup DOMAIN v
        PROVE  J(u, v)[j] = IF j \in DOMAIN v THEN v[j] ELSE u[j]
    OBVIOUS
  <2>5. \A u, v : J(u, v) = [j \in DOMAIN J(u, v) |-> J(u, v)[j]]
    OBVIOUS
  <2>6. DOMAIN <<>> = {}
    OBVIOUS
  <2> HIDE DEF J
  <2>7. J(J(x, y), z) = J(x, J(y, z))
    <3> DEFINE f == J(x, y)
               g == J(y, z)
               l == J(f, z)
               r == J(x, g)
    <3>1. DOMAIN f = DOMAIN x \cup DOMAIN y /\ DOMAIN g = DOMAIN y \cup DOMAIN z
      BY <2>3
    <3>2. DOMAIN l = DOMAIN f \cup DOMAIN z /\ DOMAIN r = DOMAIN x \cup DOMAIN g
      BY <2>3
    <3>3. \A j \in DOMAIN f : f[j] = IF j \in DOMAIN y THEN y[j] ELSE x[j]
      BY <2>4, <3>1
    <3>4. \A j \in DOMAIN g : g[j] = IF j \in DOMAIN z THEN z[j] ELSE y[j]
      BY <2>4, <3>1
    <3>5. \A j \in DOMAIN l : l[j] = IF j \in DOMAIN z THEN z[j] ELSE f[j]
      BY <2>4, <3>2
    <3>6. \A j \in DOMAIN r : r[j] = IF j \in DOMAIN g THEN g[j] ELSE x[j]
      BY <2>4, <3>2
    <3>7. l = [j \in DOMAIN l |-> l[j]] /\ r = [j \in DOMAIN r |-> r[j]]
      BY <2>5
    <3> HIDE DEF l, r, f, g
    <3>8. DOMAIN l = DOMAIN r
      BY <3>1, <3>2
    <3>9. ASSUME NEW j \in DOMAIN l PROVE l[j] = r[j]
      BY <3>1, <3>2, <3>3, <3>4, <3>5, <3>6, <3>8
    <3>10. l = r
      BY <3>7, <3>8, <3>9
    <3> QED
      BY <3>10 DEF l, r, f, g
  <2>8. DOMAIN x \cup {} = DOMAIN x /\ {} \cup DOMAIN x = DOMAIN x
    OBVIOUS
  <2>9. J(x, <<>>) = x
    <3>1. DOMAIN J(x, <<>>) = DOMAIN x
      BY <2>3, <2>6, <2>8
    <3>2. \A j \in DOMAIN x : J(x, <<>>)[j] = x[j]
      BY <2>4, <2>6
    <3>3. J(x, <<>>) = [j \in DOMAIN J(x, <<>>) |-> J(x, <<>>)[j]]
      BY <2>5
    <3> QED
      BY <2>1, <3>1, <3>2, <3>3
  <2>10. J(<<>>, x) = x
    <3>1. DOMAIN J(<<>>, x) = DOMAIN x
      BY <2>3, <2>6, <2>8
    <3>2. \A j \in DOMAIN x : J(<<>>, x)[j] = x[j]
      BY <2>4
    <3>3. J(<<>>, x) = [j \in DOMAIN J(<<>>, x) |-> J(<<>>, x)[j]]
      BY <2>5
    <3> QED
      BY <2>1, <3>1, <3>2, <3>3
  <2>11. IsContent(c, Join(c, x, y))
    BY <1>1, <2>2, <2>5 DEF IsContent
  <2> QED
    BY <2>2, <2>7, <2>9, <2>10, <2>11
<1>2. CASE c # "object"
  <2>1. PICK S, T, U : x \in Seq(S) /\ y \in Seq(T) /\ z \in Seq(U)
    BY <1>2 DEF IsContent
  <2> DEFINE A == S \cup T \cup U
  <2>2. S \subseteq A /\ T \subseteq A /\ U \subseteq A
    OBVIOUS
  <2> HIDE DEF A
  <2>3. x \in Seq(A) /\ y \in Seq(A) /\ z \in Seq(A)
    BY <2>1, <2>2, SeqMonotonic
  <2>4. \A u, v : Join(c, u, v) = u \o v
    BY <1>2 DEF Join
  <2>5. x \o y \in Seq(A) /\ (x \o y) \o z = x \o (y \o z) /\ x \o <<>> = x /\ <<>> \o x = x
    BY <2>3, Concat, ConcatAssociative, ConcatEmptySeq
  <2>6. IsContent(c, Join(c, x, y))
    BY <1>2, <2>4, <2>5 DEF IsContent
  <2>7. Join(c, x, y) = x \o y /\ Join(c, y, z) = y \o z
    BY <2>4
  <2>8. Join(c, Join(c, x, y), z) = (x \o y) \o z /\ Join(c, x, Join(c, y, z)) = x \o (y \o z)
    BY <2>4, <2>7, Zenon
  <2>9. Join(c, x, <<>>) = x /\ Join(c, <<>>, x) = x
    BY <2>4, <2>5, Zenon
  <2> QED
    BY <2>5, <2>6, <2>8, <2>9, Zenon
<1> QED
  BY <1>1, <1>2

\* One item is a content, and so is none.
LEMMA Items ==
  ASSUME NEW c \in Container, NEW k, NEW v
  PROVE  IsContent(c, Item(c, k, v)) /\ IsContent(c, <<>>)
<1>1. CASE c = "object"
  <2>1. Item(c, k, v) = [j \in {k} |-> v]
    BY <1>1 DEF Item
  <2>2. <<>> = [j \in {} |-> 0]
    OBVIOUS
  <2> QED
    BY <1>1, <2>1, <2>2 DEF IsContent
<1>2. CASE c # "object"
  <2>1. Item(c, k, v) = <<v>>
    BY <1>2 DEF Item
  <2>2. <<v>> \in Seq({v}) /\ <<>> \in Seq({v})
    OBVIOUS
  <2> QED
    BY <1>2, <2>1, <2>2 DEF IsContent
<1> QED
  BY <1>1, <1>2

\* The tokens for a key.
Off(c) == IF c = "object" THEN 2 ELSE 0

\* The rules for what is in a container.
OneText(W, c, n, p) ==
  \E k \in Keys(W, c), m \in Nat : m + Off(c) = n /\ \E v \in Grammar(W)[m].values :
    p = <<Led(c, k, v[1]), Item(c, k, v[2])>>
MoreText(W, c, n, p) ==
  \E k \in Keys(W, c), i \in Nat \ {0}, m \in Nat \ {0} : i + m + 1 + Off(c) = n /\
    \E v \in Grammar(W)[i].values, q \in Bodies(W, c, m) :
      p = <<Led(c, k, v[1] \o (<<Comma>> \o q[1])), Join(c, Item(c, k, v[2]), q[2])>>

\* The body of a container is its last item, or an item, a comma and the rest.
LEMMA BodyForm ==
  ASSUME NEW W, NEW c \in Container, NEW n \in Nat, NEW p
  PROVE  p \in Bodies(W, c, n) <=> OneText(W, c, n, p) \/ MoreText(W, c, n, p)
<1> DEFINE g == Grammar(W)
           One(k, v) == <<Led(c, k, v[1]), Item(c, k, v[2])>>
           More(k, v, q) == <<Led(c, k, v[1] \o (<<Comma>> \o q[1])), Join(c, Item(c, k, v[2]), q[2])>>
<1>1. CASE c = "object"
  <2>1. \A k, v : OneMember(k, v) = One(k, v)
    <3> SUFFICES ASSUME NEW k, NEW v PROVE OneMember(k, v) = One(k, v)
      OBVIOUS
    <3>1. Overruled(k, v[2], <<>>) = [j \in {k} |-> v[2]]
      <4>1. DOMAIN <<>> = {} /\ {k} \cup {} = {k}
        OBVIOUS
      <4> QED
        BY <4>1 DEF Overruled
    <3> QED
      BY <1>1, <3>1 DEF OneMember, Led, Item
  <2>2. \A k, v, q : MoreMembers(k, v, q) = More(k, v, q)
    <3> SUFFICES ASSUME NEW k, NEW v, NEW q PROVE MoreMembers(k, v, q) = More(k, v, q)
      OBVIOUS
    <3>1. Overruled(k, v[2], q[2]) = Join(c, [j \in {k} |-> v[2]], q[2])
      <4> DEFINE f == [j \in {k} |-> v[2]]
                 h == q[2]
      <4>1. Join(c, f, h) = [j \in DOMAIN f \cup DOMAIN h |-> IF j \in DOMAIN h THEN h[j] ELSE f[j]]
        BY <1>1 DEF Join
      <4>2. DOMAIN f = {k} /\ \A j \in {k} : f[j] = v[2]
        OBVIOUS
      <4> HIDE DEF f, h
      <4>3. Join(c, f, h) = [j \in {k} \cup DOMAIN h |-> IF j \in DOMAIN h THEN h[j] ELSE v[2]]
        BY <4>1, <4>2
      <4>4. Overruled(k, v[2], h) = [j \in {k} \cup DOMAIN h |-> IF j \in DOMAIN h THEN h[j] ELSE v[2]]
        BY DEF Overruled
      <4>5. Overruled(k, v[2], h) = Join(c, f, h)
        BY <4>3, <4>4
      <4> QED
        BY <4>5 DEF f, h
    <3>2. Item(c, k, v[2]) = [j \in {k} |-> v[2]]
      BY <1>1 DEF Item
    <3>3. \A t : Led(c, k, t) = <<k, ":">> \o t
      BY <1>1 DEF Led
    <3>4. MoreMembers(k, v, q) = << <<k, ":">> \o (v[1] \o (<<Comma>> \o q[1])), Overruled(k, v[2], q[2])>>
      BY Zenon DEF MoreMembers, Comma
    <3> QED
      BY <3>1, <3>2, <3>3, <3>4
  <2>3. /\ Keys(W, c) = W /\ Off(c) = 2 /\ \A m : Bodies(W, c, m) = g[m].members
    BY <1>1 DEF Keys, Off, Bodies
  <2>4. p \in g[n].members <=>
          \/ n >= 2 /\ \E k \in W : \E v \in g[n - 2].values : p = OneMember(k, v)
          \/ \E i \in 1 .. n - 4 : \E k \in W : \E v \in g[i].values :
               \E m \in g[n - 3 - i].members : p = MoreMembers(k, v, m)
    BY MemberParts
  <2> HIDE DEF g, One, More
  <2>5. (n >= 2 /\ \E k \in W : \E v \in g[n - 2].values : p = One(k, v))
          <=> \E k \in W, m \in Nat : m + 2 = n /\ \E v \in g[m].values : p = One(k, v)
    <3>1. ASSUME n >= 2 PROVE n - 2 \in Nat /\ (n - 2) + 2 = n
      BY <3>1
    <3>2. \A m \in Nat : m + 2 = n => m = n - 2 /\ n >= 2
      OBVIOUS
    <3> QED
      BY <3>1, <3>2
  <2>6. (\E i \in 1 .. n - 4 : \E k \in W : \E v \in g[i].values : \E q \in g[n - 3 - i].members :
            p = More(k, v, q))
          <=> \E k \in W, i \in Nat \ {0}, m \in Nat \ {0} : i + m + 1 + 2 = n /\
                \E v \in g[i].values, q \in g[m].members : p = More(k, v, q)
    <3>1. \A i \in 1 .. n - 4 : /\ i \in Nat \ {0} /\ n - 3 - i \in Nat \ {0}
                                /\ i + (n - 3 - i) + 1 + 2 = n
      OBVIOUS
    <3>2. \A i, m \in Nat \ {0} : i + m + 1 + 2 = n => i \in 1 .. n - 4 /\ m = n - 3 - i
      OBVIOUS
    <3> QED
      BY <3>1, <3>2
  <2>7. p \in Bodies(W, c, n) <=>
          \/ \E k \in W, m \in Nat : m + 2 = n /\ \E v \in g[m].values : p = One(k, v)
          \/ \E k \in W, i \in Nat \ {0}, m \in Nat \ {0} : i + m + 1 + 2 = n /\
                \E v \in g[i].values, q \in Bodies(W, c, m) : p = More(k, v, q)
    BY <2>1, <2>2, <2>3, <2>4, <2>5, <2>6
  <2> QED
    BY <2>3, <2>7 DEF g, One, More, OneText, MoreText
<1>2. CASE c = "array"
  <2>0. c # "object"
    BY <1>2
  <2>1. \A k, v : Single(v) = One(k, v)
    BY <2>0 DEF Single, Led, Item
  <2>2. \A k, v, q : Longer(v, q) = More(k, v, q)
    <3> SUFFICES ASSUME NEW k, NEW v, NEW q PROVE Longer(v, q) = More(k, v, q)
      OBVIOUS
    <3>1. Item(c, k, v[2]) = <<v[2]>> /\ (\A x, y : Join(c, x, y) = x \o y) /\ \A t : Led(c, k, t) = t
      BY <2>0 DEF Item, Join, Led
    <3>2. Longer(v, q) = <<v[1] \o (<<Comma>> \o q[1]), <<v[2]>> \o q[2]>>
      BY Zenon DEF Longer, Comma
    <3> QED
      BY <3>1, <3>2, Zenon
  <2>3. /\ Keys(W, c) = {0} /\ Off(c) = 0 /\ \A m : Bodies(W, c, m) = g[m].lists
    BY <2>0 DEF Keys, Off, Bodies
  <2>4. p \in g[n].lists <=>
           \/ \E v \in g[n].values : p = Single(v)
           \/ \E i \in 1 .. n - 2 : \E v \in g[i].values :
                \E l \in g[n - 1 - i].lists : p = Longer(v, l)
    BY ListParts
  <2> HIDE DEF g, One, More
  <2>5. (\E v \in g[n].values : p = One(0, v))
          <=> \E k \in {0}, m \in Nat : m + 0 = n /\ \E v \in g[m].values : p = One(k, v)
    <3>1. \A m \in Nat : m + 0 = n <=> m = n
      OBVIOUS
    <3> QED
      BY <3>1
  <2>6. (\E i \in 1 .. n - 2 : \E v \in g[i].values : \E q \in g[n - 1 - i].lists :
            p = More(0, v, q))
          <=> \E k \in {0}, i \in Nat \ {0}, m \in Nat \ {0} : i + m + 1 + 0 = n /\
                \E v \in g[i].values, q \in g[m].lists : p = More(k, v, q)
    <3>1. \A i \in 1 .. n - 2 : /\ i \in Nat \ {0} /\ n - 1 - i \in Nat \ {0}
                                /\ i + (n - 1 - i) + 1 + 0 = n
      OBVIOUS
    <3>2. \A i, m \in Nat \ {0} : i + m + 1 + 0 = n => i \in 1 .. n - 2 /\ m = n - 1 - i
      OBVIOUS
    <3> QED
      BY <3>1, <3>2
  <2>7. p \in Bodies(W, c, n) <=>
          \/ \E k \in {0}, m \in Nat : m + 0 = n /\ \E v \in g[m].values : p = One(k, v)
          \/ \E k \in {0}, i \in Nat \ {0}, m \in Nat \ {0} : i + m + 1 + 0 = n /\
                \E v \in g[i].values, q \in Bodies(W, c, m) : p = More(k, v, q)
    BY <2>1, <2>2, <2>3, <2>4, <2>5, <2>6
  <2> QED
    BY <2>3, <2>7 DEF g, One, More, OneText, MoreText
<1> QED
  BY <1>1, <1>2 DEF Container

\* A text of n tokens with what it means.
TextOf(p, n) == p = <<p[1], p[2]>> /\ p[1] \in Seq(Tok) /\ Len(p[1]) = n /\ n >= 1

\* A value with its key, in an object, is a text.
LEMMA LedText ==
  ASSUME NEW W \in SUBSET Str, NEW c \in Container, NEW k \in Keys(W, c), NEW t \in Seq(Tok)
  PROVE  Led(c, k, t) \in Seq(Tok) /\ Len(Led(c, k, t)) = Len(t) + Off(c) /\ Len(t) \in Nat
<1>1. CASE c = "object"
  <2>1. k \in Tok /\ ":" \in Tok
    BY <1>1, Marks DEF Keys
  <2>2. Led(c, k, t) = <<k, ":">> \o t /\ Off(c) = 2
    BY <1>1 DEF Led, Off
  <2>3. <<k, ":">> \in Seq(Tok) /\ Len(<<k, ":">>) = 2
    BY <2>1, FirstTwo
  <2> QED
    BY <2>2, <2>3, Concat
<1>2. CASE c # "object"
  BY <1>2, Concat DEF Led, Off
<1> QED
  BY <1>1, <1>2

\* Two texts with a comma between them are a text.
LEMMA CommaText ==
  ASSUME NEW s \in Seq(Tok), NEW t \in Seq(Tok)
  PROVE  s \o (<<Comma>> \o t) \in Seq(Tok) /\ Len(s \o (<<Comma>> \o t)) = Len(s) + Len(t) + 1
<1>1. Comma \in Tok
  BY Marks
<1>2. <<Comma>> \in Seq(Tok) /\ Len(<<Comma>>) = 1
  BY <1>1, OneToken
<1> DEFINE r == <<Comma>> \o t
<1>3. r \in Seq(Tok) /\ Len(r) = 1 + Len(t) /\ Len(t) \in Nat
  BY <1>2, Concat
<1> HIDE DEF r
<1>4. s \o r \in Seq(Tok) /\ Len(s \o r) = Len(s) + Len(r) /\ Len(s) \in Nat
  BY <1>3, Concat
<1>5. s \o r \in Seq(Tok) /\ Len(s \o r) = Len(s) + Len(t) + 1
  BY <1>3, <1>4
<1> QED
  BY <1>5 DEF r

\* A text in brackets is a text two tokens longer.
LEMMA WrappedText ==
  ASSUME NEW a \in Tok, NEW b \in Tok, NEW s \in Seq(Tok)
  PROVE  <<a>> \o (s \o <<b>>) \in Seq(Tok) /\ Len(<<a>> \o (s \o <<b>>)) = Len(s) + 2
<1>1. <<a>> \in Seq(Tok) /\ Len(<<a>>) = 1 /\ <<b>> \in Seq(Tok) /\ Len(<<b>>) = 1
  BY OneToken
<1> DEFINE r == s \o <<b>>
<1>2. r \in Seq(Tok) /\ Len(r) = Len(s) + 1 /\ Len(s) \in Nat
  BY <1>1, Concat
<1> HIDE DEF r
<1>3. <<a>> \o r \in Seq(Tok) /\ Len(<<a>> \o r) = Len(s) + 2
  BY <1>1, <1>2, Concat
<1> QED
  BY <1>3 DEF r

\* Whatever the grammar derives is a text of that length, with a value or a content.
LEMMA Typed ==
  ASSUME NEW W \in SUBSET Str
  PROVE  \A n \in Nat :
           /\ \A p \in Grammar(W)[n].values : TextOf(p, n)
           /\ \A c \in Container : \A p \in Bodies(W, c, n) : TextOf(p, n) /\ IsContent(c, p[2])
<1> DEFINE g == Grammar(W)
           V(n) == \A p \in g[n].values : TextOf(p, n)
           B(n) == \A c \in Container : \A p \in Bodies(W, c, n) : TextOf(p, n) /\ IsContent(c, p[2])
           T == {n \in Nat : V(n) /\ B(n)}
<1>1. ASSUME NEW n \in Nat, \A k \in Nat : k < n => k \in T PROVE n \in T
  <2>0. \A k \in Nat : k < n => V(k) /\ B(k)
    BY <1>1
  <2>1. ASSUME NEW p \in g[n].values PROVE TextOf(p, n)
    <3>1. CASE LeafText(W, n, p)
      <4>1. PICK s \in W \cup {"null", "number"} : p = << <<s>>, Leaf(s)>>
        BY <3>1 DEF LeafText
      <4>0. n = 1
        BY <3>1 DEF LeafText
      <4>2. s \in Tok
        BY Marks
      <4>3. <<s>> \in Seq(Tok) /\ Len(<<s>>) = 1
        BY <4>2, OneToken
      <4> QED
        BY <4>0, <4>1, <4>3 DEF TextOf
    <3>2. CASE EmptyText(n, p)
      <4>1. PICK c \in Container : p = << <<OpenOf(c), CloseOf(c)>>, <<c, <<>> >> >>
        BY <3>2 DEF EmptyText
      <4>0. n = 2
        BY <3>2 DEF EmptyText
      <4>2. OpenOf(c) \in Tok /\ CloseOf(c) \in Tok
        BY Marks
      <4>3. <<OpenOf(c), CloseOf(c)>> \in Seq(Tok)
        BY <4>2, FirstTwo, EmptySeq
      <4> QED
        BY <4>0, <4>1, <4>3 DEF TextOf
    <3>3. CASE FullText(W, n, p)
      <4>1. PICK c \in Container : \E q \in Bodies(W, c, n - 2) :
              p = << <<OpenOf(c)>> \o (q[1] \o <<CloseOf(c)>>), <<c, q[2]>> >>
        BY <3>3 DEF FullText
      <4>2. PICK q \in Bodies(W, c, n - 2) :
              p = << <<OpenOf(c)>> \o (q[1] \o <<CloseOf(c)>>), <<c, q[2]>> >>
        BY <4>1
      <4>3. n > 2 /\ n - 2 \in Nat /\ n - 2 < n
        BY <3>3 DEF FullText
      <4>4. q[1] \in Seq(Tok) /\ Len(q[1]) = n - 2
        BY <2>0, <4>3 DEF TextOf
      <4>5. OpenOf(c) \in Tok /\ CloseOf(c) \in Tok
        BY Marks
      <4> DEFINE t == <<OpenOf(c)>> \o (q[1] \o <<CloseOf(c)>>)
      <4>6. t \in Seq(Tok) /\ Len(t) = Len(q[1]) + 2
        BY <4>4, <4>5, WrappedText
      <4> HIDE DEF t
      <4>7. t \in Seq(Tok) /\ Len(t) = n
        BY <4>3, <4>4, <4>6
      <4>8. p = <<t, <<c, q[2]>> >>
        BY <4>2 DEF t
      <4>9. n >= 1
        BY <4>3
      <4> QED
        BY <4>7, <4>8, <4>9 DEF TextOf
    <3> QED
      BY <3>1, <3>2, <3>3, ValueForm
  <2>2. ASSUME NEW c \in Container, NEW p \in Bodies(W, c, n)
        PROVE  TextOf(p, n) /\ IsContent(c, p[2])
    <3>1. CASE OneText(W, c, n, p)
      <4>1. PICK k \in Keys(W, c), m \in Nat : m + Off(c) = n /\ \E v \in g[m].values :
              p = <<Led(c, k, v[1]), Item(c, k, v[2])>>
        BY <3>1 DEF OneText
      <4>2. PICK v \in g[m].values : p = <<Led(c, k, v[1]), Item(c, k, v[2])>>
        BY <4>1
      <4>3. m < n \/ m = n
        BY <4>1 DEF Off
      <4>4. V(m)
        BY <2>0, <2>1, <4>3
      <4>5. v[1] \in Seq(Tok) /\ Len(v[1]) = m /\ m >= 1
        BY <4>4 DEF TextOf
      <4>6. Led(c, k, v[1]) \in Seq(Tok) /\ Len(Led(c, k, v[1])) = m + Off(c)
        BY <4>5, LedText
      <4>7. Off(c) \in Nat
        BY DEF Off
      <4>8. IsContent(c, Item(c, k, v[2]))
        BY Items
      <4> QED
        BY <4>1, <4>2, <4>5, <4>6, <4>7, <4>8 DEF TextOf
    <3>2. CASE MoreText(W, c, n, p)
      <4>1. PICK k \in Keys(W, c), i \in Nat \ {0}, m \in Nat \ {0} : i + m + 1 + Off(c) = n /\
              \E v \in g[i].values, q \in Bodies(W, c, m) :
                p = <<Led(c, k, v[1] \o (<<Comma>> \o q[1])), Join(c, Item(c, k, v[2]), q[2])>>
        BY <3>2 DEF MoreText
      <4>2. PICK v \in g[i].values, q \in Bodies(W, c, m) :
              p = <<Led(c, k, v[1] \o (<<Comma>> \o q[1])), Join(c, Item(c, k, v[2]), q[2])>>
        BY <4>1
      <4>3. Off(c) \in Nat
        BY DEF Off
      <4>4. i \in Nat /\ m \in Nat /\ i < n /\ m < n
        BY <4>1, <4>3
      <4>5. V(i) /\ B(m)
        BY <2>0, <4>4
      <4>6. v[1] \in Seq(Tok) /\ Len(v[1]) = i
        BY <4>5 DEF TextOf
      <4>7. q[1] \in Seq(Tok) /\ Len(q[1]) = m /\ IsContent(c, q[2])
        BY <4>5 DEF TextOf
      <4> DEFINE t == v[1] \o (<<Comma>> \o q[1])
      <4>8. t \in Seq(Tok) /\ Len(t) = i + m + 1
        BY <4>6, <4>7, CommaText
      <4> HIDE DEF t
      <4>9. Led(c, k, t) \in Seq(Tok) /\ Len(Led(c, k, t)) = Len(t) + Off(c)
        BY <4>8, LedText
      <4>10. Len(Led(c, k, t)) = n /\ n >= 1
        BY <4>1, <4>3, <4>4, <4>8, <4>9
      <4>11. IsContent(c, Join(c, Item(c, k, v[2]), q[2]))
        BY <4>7, Items, JoinLaws
      <4>12. p = <<Led(c, k, t), Join(c, Item(c, k, v[2]), q[2])>>
        BY <4>2 DEF t
      <4> QED
        BY <4>9, <4>10, <4>11, <4>12 DEF TextOf
    <3> QED
      BY <3>1, <3>2, BodyForm
  <2> QED
    BY <2>1, <2>2
<1>2. Nat \subseteq T
  <2> HIDE DEF T
  <2> QED
    BY <1>1, StrongInduction
<1> QED
  BY <1>2

\* The rules, without lengths.
LEMMA ValueTyped ==
  ASSUME NEW W \in SUBSET Str, NEW t, NEW v
  PROVE  /\ IsValue(W, t, v) => t \in Seq(Tok) /\ <<t, v>> \in Grammar(W)[Len(t)].values
         /\ \A c \in Container : IsBody(W, c, t, v) => t \in Seq(Tok) /\ IsContent(c, v)
<1>1. ASSUME NEW n \in Nat, <<t, v>> \in Grammar(W)[n].values
      PROVE  t \in Seq(Tok) /\ <<t, v>> \in Grammar(W)[Len(t)].values
  <2>1. TextOf(<<t, v>>, n)
    BY <1>1, Typed
  <2>2. t \in Seq(Tok) /\ Len(t) = n
    BY <2>1 DEF TextOf
  <2> QED
    BY <1>1, <2>2
<1>2. ASSUME NEW c \in Container, NEW n \in Nat, <<t, v>> \in Bodies(W, c, n)
      PROVE  t \in Seq(Tok) /\ IsContent(c, v)
  <2> DEFINE p == <<t, v>>
  <2>1. TextOf(p, n) /\ IsContent(c, p[2])
    BY <1>2, Typed
  <2> QED
    BY <2>1 DEF TextOf
<1> QED
  BY <1>1, <1>2 DEF IsValue, IsBody

LeafValue(W, t, v) == \E s \in W \cup {"null", "number"} : t = <<s>> /\ v = Leaf(s)
ContainerOf(W, t, v, c, b, x) ==
  IsInside(W, c, b, x) /\ t = <<OpenOf(c)>> \o (b \o <<CloseOf(c)>>) /\ v = <<c, x>>
BodyOf(W, c, b, x, k, t, v) ==
  /\ IsValue(W, t, v)
  /\ \/ b = Led(c, k, t) /\ x = Item(c, k, v)
     \/ \E s, y : /\ IsBody(W, c, s, y)
                  /\ b = Led(c, k, t \o (<<Comma>> \o s)) /\ x = Join(c, Item(c, k, v), y)

\* Without lengths: a value is a leaf, or a container with what is inside it.
LEMMA ValueRule ==
  ASSUME NEW W \in SUBSET Str, NEW t, NEW v
  PROVE  IsValue(W, t, v) <=>
           LeafValue(W, t, v) \/ \E c \in Container : \E b, x : ContainerOf(W, t, v, c, b, x)
<1> DEFINE p == <<t, v>>
           L == \E s \in W \cup {"null", "number"} : t = <<s>> /\ v = Leaf(s)
           R == \E c \in Container : \E b, x :
                /\ IsInside(W, c, b, x)
                /\ t = <<OpenOf(c)>> \o (b \o <<CloseOf(c)>>) /\ v = <<c, x>>
<1>1. L <=> LeafText(W, 1, p)
  BY DEF LeafText
<1>2. ASSUME NEW c \in Container
      PROVE  <<OpenOf(c)>> \o (<<>> \o <<CloseOf(c)>>) = <<OpenOf(c), CloseOf(c)>>
  <2>1. OpenOf(c) \in Tok /\ CloseOf(c) \in Tok
    BY Marks
  <2>2. <<CloseOf(c)>> \in Seq(Tok) /\ <<>> \in Seq(Tok)
    BY <2>1, OneToken, EmptySeq
  <2>3. <<>> \o <<CloseOf(c)>> = <<CloseOf(c)>> /\ <<CloseOf(c)>> \o <<>> = <<CloseOf(c)>>
    BY <2>2, ConcatEmptySeq
  <2>4. /\ <<OpenOf(c), CloseOf(c)>> \o <<>> = <<OpenOf(c)>> \o (<<CloseOf(c)>> \o <<>>)
        /\ <<OpenOf(c), CloseOf(c)>> \in Seq(Tok)
    BY <2>1, <2>2, FirstTwo
  <2>5. <<OpenOf(c), CloseOf(c)>> \o <<>> = <<OpenOf(c), CloseOf(c)>>
    BY <2>4, ConcatEmptySeq
  <2> QED
    BY <2>3, <2>4, <2>5
<1>3. R => \E n \in Nat : p \in Grammar(W)[n].values
  <2> SUFFICES ASSUME NEW c \in Container, NEW b, NEW x, IsInside(W, c, b, x),
                      t = <<OpenOf(c)>> \o (b \o <<CloseOf(c)>>) /\ v = <<c, x>>
               PROVE  \E n \in Nat : p \in Grammar(W)[n].values
    OBVIOUS
  <2>1. CASE b = <<>> /\ x = <<>>
    <3>1. p = << <<OpenOf(c), CloseOf(c)>>, <<c, <<>> >> >>
      BY <1>2, <2>1
    <3>0. EmptyText(2, p)
      BY <3>1 DEF EmptyText
    <3> HIDE DEF p
    <3>2. p \in Grammar(W)[2].values
      BY <3>0, ValueForm
    <3> QED
      BY <3>2
  <2>2. CASE IsBody(W, c, b, x)
    <3>1. PICK m \in Nat : <<b, x>> \in Bodies(W, c, m)
      BY <2>2 DEF IsBody
    <3> DEFINE q == <<b, x>>
    <3>2. TextOf(q, m)
      BY <3>1, Typed
    <3>3. m >= 1
      BY <3>2 DEF TextOf
    <3>4. q[1] = b /\ q[2] = x
      OBVIOUS
    <3>5. p = << <<OpenOf(c)>> \o (q[1] \o <<CloseOf(c)>>), <<c, q[2]>> >>
      BY <3>4
    <3> HIDE DEF q, p
    <3>6. q \in Bodies(W, c, m)
      BY <3>1 DEF q
    <3> DEFINE n == m + 2
    <3>7. n \in Nat /\ n > 2 /\ n - 2 = m
      BY <3>3
    <3> HIDE DEF n
    <3>8. FullText(W, n, p)
      BY <3>5, <3>6, <3>7 DEF FullText
    <3>9. p \in Grammar(W)[n].values
      BY <3>7, <3>8, ValueForm
    <3> QED
      BY <3>7, <3>9
  <2> QED
    BY <2>1, <2>2 DEF IsInside
<1>4. ASSUME NEW n \in Nat, p \in Grammar(W)[n].values PROVE L \/ R
  <2>1. CASE LeafText(W, n, p)
    <3>1. n = 1
      BY <2>1 DEF LeafText
    <3> HIDE DEF L, p
    <3> QED
      BY <1>1, <2>1, <3>1
  <2>2. CASE EmptyText(n, p)
    <3>1. PICK c \in Container : p = << <<OpenOf(c), CloseOf(c)>>, <<c, <<>> >> >>
      BY <2>2 DEF EmptyText
    <3>2. t = <<OpenOf(c)>> \o (<<>> \o <<CloseOf(c)>>) /\ v = <<c, <<>> >>
      BY <1>2, <3>1
    <3>3. IsInside(W, c, <<>>, <<>>)
      BY DEF IsInside
    <3>4. R
      BY <3>2, <3>3
    <3> QED
      BY <3>4
  <2>3. CASE FullText(W, n, p)
    <3>1. PICK c \in Container : \E q \in Bodies(W, c, n - 2) :
            p = << <<OpenOf(c)>> \o (q[1] \o <<CloseOf(c)>>), <<c, q[2]>> >>
      BY <2>3 DEF FullText
    <3>2. PICK q \in Bodies(W, c, n - 2) :
            p = << <<OpenOf(c)>> \o (q[1] \o <<CloseOf(c)>>), <<c, q[2]>> >>
      BY <3>1
    <3>3. n - 2 \in Nat
      BY <2>3 DEF FullText
    <3>4. q = <<q[1], q[2]>>
      <4>1. TextOf(q, n - 2)
        BY <3>3, Typed
      <4> QED
        BY <4>1 DEF TextOf
    <3>5. IsInside(W, c, q[1], q[2])
      BY <3>3, <3>4 DEF IsInside, IsBody
    <3>6. t = <<OpenOf(c)>> \o (q[1] \o <<CloseOf(c)>>) /\ v = <<c, q[2]>>
      BY <3>2
    <3>7. R
      BY <3>5, <3>6
    <3> QED
      BY <3>7
  <2> HIDE DEF p, L, R
  <2> QED
    BY <1>4, <2>1, <2>2, <2>3, ValueForm
<1>5. L => IsValue(W, t, v)
  <2> SUFFICES ASSUME LeafText(W, 1, p) PROVE \E n \in Nat : p \in Grammar(W)[n].values
    BY <1>1 DEF IsValue
  <2> HIDE DEF p
  <2>1. p \in Grammar(W)[1].values
    BY ValueForm
  <2> QED
    BY <2>1
<1>6. R => IsValue(W, t, v)
  BY <1>3 DEF IsValue
<1>7. IsValue(W, t, v) => L \/ R
  BY <1>4 DEF IsValue
<1> QED
  BY <1>5, <1>6, <1>7 DEF LeafValue, ContainerOf

\* Without lengths: a body is an item, followed by nothing or by a comma and a body.
LEMMA BodyRule ==
  ASSUME NEW W \in SUBSET Str, NEW c \in Container, NEW b, NEW x
  PROVE  IsBody(W, c, b, x) <=>
           \E k \in Keys(W, c) : \E t, v : BodyOf(W, c, b, x, k, t, v)
<1> DEFINE p == <<b, x>>
           R == \E k \in Keys(W, c) : \E t, v :
             /\ IsValue(W, t, v)
             /\ \/ b = Led(c, k, t) /\ x = Item(c, k, v)
                \/ \E s, y : /\ IsBody(W, c, s, y)
                             /\ b = Led(c, k, t \o (<<Comma>> \o s))
                             /\ x = Join(c, Item(c, k, v), y)
<1>0. Off(c) \in Nat
  BY DEF Off
<1>1. ASSUME R PROVE IsBody(W, c, b, x)
  <2>1. PICK k \in Keys(W, c) : \E t, v :
             /\ IsValue(W, t, v)
             /\ \/ b = Led(c, k, t) /\ x = Item(c, k, v)
                \/ \E s, y : /\ IsBody(W, c, s, y)
                             /\ b = Led(c, k, t \o (<<Comma>> \o s))
                             /\ x = Join(c, Item(c, k, v), y)
    BY <1>1
  <2>2. PICK t, v :
             /\ IsValue(W, t, v)
             /\ \/ b = Led(c, k, t) /\ x = Item(c, k, v)
                \/ \E s, y : /\ IsBody(W, c, s, y)
                             /\ b = Led(c, k, t \o (<<Comma>> \o s))
                             /\ x = Join(c, Item(c, k, v), y)
    BY <2>1
  <2>3. PICK i \in Nat : <<t, v>> \in Grammar(W)[i].values
    BY <2>2 DEF IsValue
  <2> DEFINE w == <<t, v>>
  <2>4. w \in Grammar(W)[i].values /\ w[1] = t /\ w[2] = v
    BY <2>3
  <2> HIDE DEF w
  <2>5. i \in Nat \ {0}
    BY <2>4, Typed DEF TextOf
  <2>6. CASE b = Led(c, k, t) /\ x = Item(c, k, v)
    <3>1. p = <<Led(c, k, w[1]), Item(c, k, w[2])>>
      BY <2>4, <2>6
    <3> DEFINE n == i + Off(c)
    <3>2. n \in Nat /\ i + Off(c) = n
      BY <1>0
    <3> HIDE DEF p, n
    <3>0. OneText(W, c, n, p)
      BY <2>4, <3>1, <3>2 DEF OneText
    <3>3. p \in Bodies(W, c, n)
      BY <3>0, <3>2, BodyForm
    <3> QED
      BY <3>2, <3>3 DEF IsBody, p
  <2>7. CASE \E s, y : /\ IsBody(W, c, s, y)
                       /\ b = Led(c, k, t \o (<<Comma>> \o s))
                       /\ x = Join(c, Item(c, k, v), y)
    <3>1. PICK s, y : /\ IsBody(W, c, s, y)
                      /\ b = Led(c, k, t \o (<<Comma>> \o s))
                      /\ x = Join(c, Item(c, k, v), y)
      BY <2>7
    <3>2. PICK m \in Nat : <<s, y>> \in Bodies(W, c, m)
      BY <3>1 DEF IsBody
    <3> DEFINE q == <<s, y>>
    <3>3. q \in Bodies(W, c, m) /\ q[1] = s /\ q[2] = y
      BY <3>2
    <3> HIDE DEF q
    <3>4. m \in Nat \ {0}
      <4>1. TextOf(q, m)
        BY <3>3, Typed
      <4> QED
        BY <4>1 DEF TextOf
    <3>5. p = <<Led(c, k, w[1] \o (<<Comma>> \o q[1])), Join(c, Item(c, k, w[2]), q[2])>>
      BY <2>4, <3>1, <3>3
    <3> DEFINE n == i + m + 1 + Off(c)
    <3>6. n \in Nat /\ i + m + 1 + Off(c) = n
      BY <1>0
    <3> HIDE DEF p, n
    <3>0. MoreText(W, c, n, p)
      BY <2>4, <2>5, <3>3, <3>4, <3>5, <3>6 DEF MoreText
    <3>7. p \in Bodies(W, c, n)
      BY <3>0, <3>6, BodyForm
    <3> QED
      BY <3>6, <3>7 DEF IsBody, p
  <2> QED
    BY <2>2, <2>6, <2>7
<1>2. ASSUME NEW n \in Nat, p \in Bodies(W, c, n) PROVE R
  <2>1. CASE OneText(W, c, n, p)
    <3>1. PICK k \in Keys(W, c), m \in Nat : \E v \in Grammar(W)[m].values :
            p = <<Led(c, k, v[1]), Item(c, k, v[2])>>
      BY <2>1 DEF OneText
    <3>2. PICK v \in Grammar(W)[m].values : p = <<Led(c, k, v[1]), Item(c, k, v[2])>>
      BY <3>1
    <3>3. v = <<v[1], v[2]>>
      BY Typed DEF TextOf
    <3>4. IsValue(W, v[1], v[2])
      BY <3>3 DEF IsValue
    <3>5. b = Led(c, k, v[1]) /\ x = Item(c, k, v[2])
      BY <3>2
    <3> QED
      BY <3>4, <3>5
  <2>2. CASE MoreText(W, c, n, p)
    <3>1. PICK k \in Keys(W, c), i \in Nat \ {0}, m \in Nat \ {0} :
            \E v \in Grammar(W)[i].values, q \in Bodies(W, c, m) :
              p = <<Led(c, k, v[1] \o (<<Comma>> \o q[1])), Join(c, Item(c, k, v[2]), q[2])>>
      BY <2>2 DEF MoreText
    <3>2. PICK v \in Grammar(W)[i].values, q \in Bodies(W, c, m) :
            p = <<Led(c, k, v[1] \o (<<Comma>> \o q[1])), Join(c, Item(c, k, v[2]), q[2])>>
      BY <3>1
    <3>3. v = <<v[1], v[2]>> /\ q = <<q[1], q[2]>>
      <4>1. TextOf(v, i) /\ TextOf(q, m)
        BY Typed
      <4> QED
        BY <4>1 DEF TextOf
    <3>4. IsValue(W, v[1], v[2]) /\ IsBody(W, c, q[1], q[2])
      BY <3>3 DEF IsValue, IsBody
    <3>5. b = Led(c, k, v[1] \o (<<Comma>> \o q[1])) /\ x = Join(c, Item(c, k, v[2]), q[2])
      BY <3>2
    <3> QED
      BY <3>4, <3>5
  <2> HIDE DEF p, R
  <2> QED
    BY <1>2, <2>1, <2>2, BodyForm
<1>3. IsBody(W, c, b, x) => R
  BY <1>2 DEF IsBody
<1> QED
  BY <1>1, <1>3 DEF BodyOf

-----------------------------------------------------------------------------
(* What is to come of a value, and of a container.                         *)

\* The text q is JSON for the value v, and s after it.
Reads(W, q, v, s) == \E t : IsValue(W, t, v) /\ q = t \o s

\* The text q, up to the closing token, adds elements to the content x of a container,
\* which becomes y, and s comes after it.  So does r, with a comma, if not at the end.
Continues(W, c, x, q, y, s) ==
  \E b, l : IsBody(W, c, b, l) /\ q = b \o (<<CloseOf(c)>> \o s) /\ y = Join(c, x, l)
Finishes(W, c, x, r, y, s) ==
  \/ r = <<CloseOf(c)>> \o s /\ y = x
  \/ \E q \in Seq(Tok) : r = <<Comma>> \o q /\ Continues(W, c, x, q, y, s)

\* What follows a value with its key follows the value.
LEMMA LedConcat ==
  ASSUME NEW W \in SUBSET Str, NEW c \in Container, NEW k \in Keys(W, c),
         NEW t \in Seq(Tok), NEW r \in Seq(Tok)
  PROVE  Led(c, k, t) \o r = Led(c, k, t \o r)
<1>1. CASE c = "object"
  <2>1. k \in Tok /\ ":" \in Tok
    BY <1>1, Marks DEF Keys
  <2>2. <<k, ":">> \in Seq(Tok)
    BY <2>1, FirstTwo
  <2>3. (<<k, ":">> \o t) \o r = <<k, ":">> \o (t \o r)
    BY <2>2, ConcatAssociative
  <2> QED
    BY <1>1, <2>3 DEF Led
<1>2. CASE c # "object"
  BY <1>2 DEF Led
<1> QED
  BY <1>1, <1>2

\* The brackets and the comma before a text make a text.
LEMMA Tokens ==
  ASSUME NEW c \in Container, NEW s \in Seq(Tok)
  PROVE  /\ <<CloseOf(c)>> \in Seq(Tok) /\ <<CloseOf(c)>> \o s \in Seq(Tok)
         /\ <<OpenOf(c)>> \in Seq(Tok) /\ <<OpenOf(c)>> \o s \in Seq(Tok)
         /\ <<Comma>> \in Seq(Tok) /\ <<Comma>> \o s \in Seq(Tok)
<1>1. CloseOf(c) \in Tok /\ OpenOf(c) \in Tok /\ Comma \in Tok
  BY Marks
<1>2. <<CloseOf(c)>> \in Seq(Tok) /\ <<OpenOf(c)>> \in Seq(Tok) /\ <<Comma>> \in Seq(Tok)
  BY <1>1, OneToken
<1> QED
  BY <1>2, Concat

\* Content goes on with an element.
LEMMA NextElement ==
  ASSUME NEW W \in SUBSET Str, NEW c \in Container, NEW x, IsContent(c, x),
         NEW q \in Seq(Tok), NEW y, NEW s \in Seq(Tok)
  PROVE  Continues(W, c, x, q, y, s) <=>
           \E k \in Keys(W, c), p \in Seq(Tok), r \in Seq(Tok) : \E v :
             /\ q = Led(c, k, p) /\ Reads(W, p, v, r)
             /\ Finishes(W, c, Join(c, x, Item(c, k, v)), r, y, s)
<1> DEFINE close == <<CloseOf(c)>> \o s
<1>0. close \in Seq(Tok)
  BY Tokens
<1>3. \A k \in Keys(W, c), t, r \in Seq(Tok) : Led(c, k, t) \o r = Led(c, k, t \o r)
  BY LedConcat
<1>1. ASSUME Continues(W, c, x, q, y, s)
      PROVE  \E k \in Keys(W, c), p \in Seq(Tok), r \in Seq(Tok) : \E v :
             /\ q = Led(c, k, p) /\ Reads(W, p, v, r)
             /\ Finishes(W, c, Join(c, x, Item(c, k, v)), r, y, s)
  <2>1. PICK b, l : IsBody(W, c, b, l) /\ q = b \o close /\ y = Join(c, x, l)
    BY <1>1 DEF Continues
  <2> HIDE DEF close
  <2>2. PICK k \in Keys(W, c) : \E t, v : BodyOf(W, c, b, l, k, t, v)
    BY <2>1, BodyRule
  <2>0. PICK t, v : BodyOf(W, c, b, l, k, t, v)
    BY <2>2
  <2>3. /\ IsValue(W, t, v)
        /\ \/ b = Led(c, k, t) /\ l = Item(c, k, v)
           \/ \E b2, l2 : /\ IsBody(W, c, b2, l2)
                          /\ b = Led(c, k, t \o (<<Comma>> \o b2))
                          /\ l = Join(c, Item(c, k, v), l2)
    BY <2>0 DEF BodyOf
  <2>4. t \in Seq(Tok)
    BY <2>3, ValueTyped
  <2>5. ASSUME NEW r \in Seq(Tok), b \o close = Led(c, k, t \o r),
               Finishes(W, c, Join(c, x, Item(c, k, v)), r, y, s)
        PROVE  \E kk \in Keys(W, c), p \in Seq(Tok), rr \in Seq(Tok) : \E vv :
                 /\ q = Led(c, kk, p) /\ Reads(W, p, vv, rr)
                 /\ Finishes(W, c, Join(c, x, Item(c, kk, vv)), rr, y, s)
    <3> DEFINE p == t \o r
    <3>1. p \in Seq(Tok)
      BY <2>4, Concat
    <3>2. Reads(W, p, v, r)
      BY <2>3 DEF Reads
    <3>3. q = Led(c, k, p)
      BY <2>1, <2>5
    <3> HIDE DEF p
    <3> QED
      BY <2>5, <3>1, <3>2, <3>3, Zenon
  <2>6. CASE b = Led(c, k, t) /\ l = Item(c, k, v)
    <3>1. b \o close = Led(c, k, t \o close)
      BY <1>0, <2>4, <2>6, <1>3
    <3>2. y = Join(c, x, Item(c, k, v))
      BY <2>1, <2>6
    <3>3. Finishes(W, c, Join(c, x, Item(c, k, v)), close, y, s)
      BY <3>2 DEF Finishes, close
    <3> QED
      BY <1>0, <2>5, <3>1, <3>3
  <2>7. CASE \E b2, l2 : /\ IsBody(W, c, b2, l2)
                         /\ b = Led(c, k, t \o (<<Comma>> \o b2))
                         /\ l = Join(c, Item(c, k, v), l2)
    <3>1. PICK b2, l2 : /\ IsBody(W, c, b2, l2)
                        /\ b = Led(c, k, t \o (<<Comma>> \o b2))
                        /\ l = Join(c, Item(c, k, v), l2)
      BY <2>7
    <3>2. b2 \in Seq(Tok) /\ IsContent(c, l2)
      BY <3>1, ValueTyped
    <3> DEFINE rest == b2 \o close
               r == <<Comma>> \o rest
    <3>3. rest \in Seq(Tok)
      BY <1>0, <3>2, Concat
    <3>4. r \in Seq(Tok) /\ <<Comma>> \in Seq(Tok) /\ <<Comma>> \o b2 \in Seq(Tok)
      BY <3>2, <3>3, Tokens
    <3>5. (<<Comma>> \o b2) \o close = r
      BY <1>0, <3>2, <3>4, ConcatAssociative
    <3>6. (t \o (<<Comma>> \o b2)) \o close = t \o ((<<Comma>> \o b2) \o close)
      BY <1>0, <2>4, <3>4, ConcatAssociative
    <3>7. t \o (<<Comma>> \o b2) \in Seq(Tok)
      BY <2>4, <3>4, Concat
    <3>8. b \o close = Led(c, k, (t \o (<<Comma>> \o b2)) \o close)
      BY <1>0, <3>1, <3>7, <1>3
    <3>9. b \o close = Led(c, k, t \o r)
      BY <3>5, <3>6, <3>8, Zenon
    <3>10. y = Join(c, Join(c, x, Item(c, k, v)), l2)
      BY <2>1, <3>1, <3>2, Items, JoinLaws
    <3> DEFINE z == Join(c, x, Item(c, k, v))
    <3> HIDE DEF z
    <3>11. Continues(W, c, z, rest, y, s)
      BY <3>1, <3>10 DEF Continues, close, z
    <3> HIDE DEF rest
    <3>12. Finishes(W, c, z, r, y, s)
      BY <3>3, <3>11 DEF Finishes
    <3> QED
      BY <2>5, <3>4, <3>9, <3>12 DEF z
  <2> QED
    BY <2>3, <2>6, <2>7
<1>2. ASSUME NEW k \in Keys(W, c), NEW v, NEW p \in Seq(Tok), NEW r \in Seq(Tok),
             q = Led(c, k, p), Reads(W, p, v, r),
             Finishes(W, c, Join(c, x, Item(c, k, v)), r, y, s)
      PROVE  Continues(W, c, x, q, y, s)
  <2>1. PICK t : IsValue(W, t, v) /\ p = t \o r
    BY <1>2 DEF Reads
  <2>2. t \in Seq(Tok)
    BY <2>1, ValueTyped
  <2>3. CASE r = close /\ y = Join(c, x, Item(c, k, v))
    <3> DEFINE b == Led(c, k, t)
    <3>0. BodyOf(W, c, b, Item(c, k, v), k, t, v)
      BY <2>1 DEF BodyOf
    <3>1. IsBody(W, c, b, Item(c, k, v))
      BY <3>0, BodyRule
    <3> HIDE DEF close
    <3>2. q = b \o close
      <4>1. q = Led(c, k, t \o close)
        BY <1>2, <2>1, <2>3
      <4>2. Led(c, k, t) \o close = Led(c, k, t \o close)
        BY <1>0, <2>2, <1>3
      <4> QED
        BY <4>1, <4>2
    <3> HIDE DEF b
    <3> QED
      BY <2>3, <3>1, <3>2 DEF Continues, close
  <2>4. CASE \E a \in Seq(Tok) : r = <<Comma>> \o a
                 /\ Continues(W, c, Join(c, x, Item(c, k, v)), a, y, s)
    <3>1. PICK a \in Seq(Tok) : r = <<Comma>> \o a
                 /\ Continues(W, c, Join(c, x, Item(c, k, v)), a, y, s)
      BY <2>4
    <3>2. PICK b2, l2 : /\ IsBody(W, c, b2, l2) /\ a = b2 \o close
                        /\ y = Join(c, Join(c, x, Item(c, k, v)), l2)
      BY <3>1 DEF Continues
    <3>3. b2 \in Seq(Tok) /\ IsContent(c, l2)
      BY <3>2, ValueTyped
    <3> DEFINE b == Led(c, k, t \o (<<Comma>> \o b2))
               l == Join(c, Item(c, k, v), l2)
    <3>0. BodyOf(W, c, b, l, k, t, v)
      BY <2>1, <3>2 DEF BodyOf
    <3>4. IsBody(W, c, b, l)
      BY <3>0, BodyRule
    <3> HIDE DEF close
    <3>5. <<Comma>> \in Seq(Tok) /\ <<Comma>> \o b2 \in Seq(Tok)
      BY <3>3, Tokens
    <3>6. t \o (<<Comma>> \o b2) \in Seq(Tok)
      BY <2>2, <3>5, Concat
    <3> DEFINE u == t \o (<<Comma>> \o b2)
    <3> HIDE DEF u
    <3>13. u \in Seq(Tok)
      BY <3>6 DEF u
    <3>14. Led(c, k, u) \o close = Led(c, k, u \o close)
      BY <1>0, <3>13, <1>3
    <3>7. b \o close = Led(c, k, (t \o (<<Comma>> \o b2)) \o close)
      BY <3>14 DEF u
    <3>8. (t \o (<<Comma>> \o b2)) \o close = t \o ((<<Comma>> \o b2) \o close)
      <4> DEFINE a2 == <<Comma>> \o b2
      <4> HIDE DEF a2
      <4>1. t \in Seq(Tok) /\ a2 \in Seq(Tok) /\ close \in Seq(Tok)
        BY <1>0, <2>2, <3>5 DEF a2
      <4>2. Alike(t, a2, close)
        BY <4>1, Associates
      <4> QED
        BY <4>2 DEF a2, Alike
    <3>9. (<<Comma>> \o b2) \o close = <<Comma>> \o (b2 \o close)
      <4> DEFINE a2 == <<Comma>>
      <4> HIDE DEF a2
      <4>1. a2 \in Seq(Tok) /\ b2 \in Seq(Tok) /\ close \in Seq(Tok)
        BY <1>0, <3>3, <3>5 DEF a2
      <4>2. Alike(a2, b2, close)
        BY <4>1, Associates
      <4> QED
        BY <4>2 DEF a2, Alike
    <3>10. q = Led(c, k, t \o (<<Comma>> \o (b2 \o close)))
      BY <1>2, <2>1, <3>1, <3>2
    <3>11. q = b \o close
      BY <3>7, <3>8, <3>9, <3>10, Zenon
    <3>12. y = Join(c, x, l)
      BY <3>2, <3>3, Items, JoinLaws
    <3> HIDE DEF b, l
    <3> QED
      BY <3>4, <3>11, <3>12 DEF Continues, close
  <2> QED
    BY <1>2, <2>3, <2>4 DEF Finishes
<1> QED
  BY <1>1, <1>2

\* How a value starts.
LEMMA LeafRead ==
  ASSUME NEW W \in SUBSET Str, NEW t \in W \cup {"null", "number"},
         NEW r \in Seq(Tok), NEW v, NEW s \in Seq(Tok)
  PROVE  Reads(W, <<t>> \o r, v, s) <=> v = Leaf(t) /\ s = r
<1>0. t \in Tok /\ \A c \in Container : t # OpenOf(c) /\ OpenOf(c) \in Tok
  BY Marks
<1>1. ASSUME Reads(W, <<t>> \o r, v, s) PROVE v = Leaf(t) /\ s = r
  <2>1. PICK j : IsValue(W, j, v) /\ <<t>> \o r = j \o s
    BY <1>1 DEF Reads
  <2>2. CASE LeafValue(W, j, v)
    <3>1. PICK u \in W \cup {"null", "number"} : j = <<u>> /\ v = Leaf(u)
      BY <2>2 DEF LeafValue
    <3>2. u \in Tok
      BY Marks
    <3>3. <<t>> \o r = <<u>> \o s
      BY <2>1, <3>1
    <3>4. t = u /\ r = s
      BY <1>0, <3>2, <3>3, FirstOf
    <3> QED
      BY <3>1, <3>4
  <2>3. CASE \E c \in Container : \E b, x : ContainerOf(W, j, v, c, b, x)
    <3>0. PICK c \in Container : \E b, x : ContainerOf(W, j, v, c, b, x)
      BY <2>3
    <3>1. PICK b, x : ContainerOf(W, j, v, c, b, x)
      BY <3>0
    <3>2. /\ IsInside(W, c, b, x)
          /\ j = <<OpenOf(c)>> \o (b \o <<CloseOf(c)>>) /\ v = <<c, x>>
      BY <3>1 DEF ContainerOf
    <3>3. b \in Seq(Tok)
      BY <3>2, ValueTyped, EmptySeq DEF IsInside
    <3> DEFINE f == b \o <<CloseOf(c)>>
    <3>4. f \in Seq(Tok) /\ <<OpenOf(c)>> \in Seq(Tok)
      BY <3>3, Tokens, Concat
    <3> HIDE DEF f
    <3>5. j \o s = <<OpenOf(c)>> \o (f \o s) /\ f \o s \in Seq(Tok)
      BY <3>2, <3>4, ConcatAssociative, Concat DEF f
    <3>6. <<t>> \o r = <<OpenOf(c)>> \o (f \o s)
      BY <2>1, <3>5
    <3>7. t = OpenOf(c)
      BY <1>0, <3>5, <3>6, FirstOf
    <3> QED
      BY <1>0, <3>7
  <2> QED
    BY <2>1, <2>2, <2>3, ValueRule
<1>2. ASSUME v = Leaf(t), s = r PROVE Reads(W, <<t>> \o r, v, s)
  <2>0. LeafValue(W, <<t>>, v)
    BY <1>2 DEF LeafValue
  <2>1. IsValue(W, <<t>>, v)
    BY <2>0, ValueRule
  <2> QED
    BY <1>2, <2>1 DEF Reads
<1> QED
  BY <1>1, <1>2

\* The text r is the inside of a container with the content y, and s after it.
Opens(W, c, r, y, s) == (r = <<CloseOf(c)>> \o s /\ y = <<>>) \/ Continues(W, c, <<>>, r, y, s)

\* A value that starts with an opening bracket is what that container goes on with.
LEMMA StartRead ==
  ASSUME NEW W \in SUBSET Str, NEW c \in Container,
         NEW r \in Seq(Tok), NEW v, NEW s \in Seq(Tok)
  PROVE  Reads(W, <<OpenOf(c)>> \o r, v, s) <=> \E y : v = <<c, y>> /\ Opens(W, c, r, y, s)
<1>0. /\ OpenOf(c) \in Tok /\ \A e \in Container : OpenOf(c) = OpenOf(e) => c = e
      /\ <<OpenOf(c)>> \in Seq(Tok)
  BY Marks, OneToken
<1> DEFINE close == <<CloseOf(c)>> \o s
<1>1. close \in Seq(Tok) /\ <<CloseOf(c)>> \in Seq(Tok)
  BY Tokens
<1>2. ASSUME NEW y PROVE Opens(W, c, r, y, s) <=> \E b : IsInside(W, c, b, y) /\ r = b \o close
  <2>1. <<>> \o close = close
    BY <1>1, ConcatEmptySeq
  <2>2. Continues(W, c, <<>>, r, y, s) <=> \E b : IsBody(W, c, b, y) /\ r = b \o close
    <3>1. \A b, l : IsBody(W, c, b, l) => Join(c, <<>>, l) = l
      <4>1. \A b, l : IsBody(W, c, b, l) => IsContent(c, l)
        BY ValueTyped
      <4> QED
        BY <4>1, JoinLaws
    <3> QED
      BY <3>1 DEF Continues
  <2> HIDE DEF close
  <2> QED
    BY <2>1, <2>2 DEF Opens, IsInside, close
<1>3. ASSUME NEW b \in Seq(Tok)
      PROVE  (<<OpenOf(c)>> \o (b \o <<CloseOf(c)>>)) \o s = <<OpenOf(c)>> \o (b \o close)
  <2> DEFINE f == b \o <<CloseOf(c)>>
  <2>1. f \in Seq(Tok)
    BY <1>1, Concat
  <2>2. f \o s = b \o close
    BY <1>1, ConcatAssociative
  <2> HIDE DEF f, close
  <2>3. (<<OpenOf(c)>> \o f) \o s = <<OpenOf(c)>> \o (f \o s)
    BY <1>0, <2>1, ConcatAssociative
  <2> QED
    BY <2>2, <2>3 DEF f
<1> HIDE DEF close
<1>4. ASSUME Reads(W, <<OpenOf(c)>> \o r, v, s)
      PROVE  \E y : v = <<c, y>> /\ \E b : IsInside(W, c, b, y) /\ r = b \o close
  <2>1. PICK j : IsValue(W, j, v) /\ <<OpenOf(c)>> \o r = j \o s
    BY <1>4 DEF Reads
  <2>2. CASE LeafValue(W, j, v)
    <3>1. PICK u \in W \cup {"null", "number"} : j = <<u>> /\ v = Leaf(u)
      BY <2>2 DEF LeafValue
    <3>2. u \in Tok /\ u # OpenOf(c)
      BY Marks
    <3>3. <<OpenOf(c)>> \o r = <<u>> \o s
      BY <2>1, <3>1
    <3> QED
      BY <1>0, <3>2, <3>3, FirstOf
  <2>3. CASE \E e \in Container : \E b, x : ContainerOf(W, j, v, e, b, x)
    <3>0. PICK e \in Container : \E b, x : ContainerOf(W, j, v, e, b, x)
      BY <2>3
    <3>1. PICK b, x : ContainerOf(W, j, v, e, b, x)
      BY <3>0
    <3>2. /\ IsInside(W, e, b, x)
          /\ j = <<OpenOf(e)>> \o (b \o <<CloseOf(e)>>) /\ v = <<e, x>>
      BY <3>1 DEF ContainerOf
    <3>3. b \in Seq(Tok)
      BY <3>2, ValueTyped, EmptySeq DEF IsInside
    <3> DEFINE f == b \o <<CloseOf(e)>>
    <3>4. f \in Seq(Tok) /\ <<OpenOf(e)>> \in Seq(Tok) /\ OpenOf(e) \in Tok
      BY <3>3, Tokens, Concat, Marks
    <3> HIDE DEF f
    <3>5. j \o s = <<OpenOf(e)>> \o (f \o s) /\ f \o s \in Seq(Tok)
      BY <3>2, <3>4, ConcatAssociative, Concat DEF f
    <3>6. <<OpenOf(c)>> \o r = <<OpenOf(e)>> \o (f \o s)
      BY <2>1, <3>5
    <3>7. OpenOf(c) = OpenOf(e)
      BY <1>0, <3>4, <3>5, <3>6, FirstOf
    <3>8. c = e
      BY <1>0, <3>7
    <3>9. <<OpenOf(c)>> \o r = <<OpenOf(c)>> \o (b \o close)
      BY <1>3, <2>1, <3>2, <3>3, <3>8
    <3> DEFINE rest == b \o close
    <3>10. rest \in Seq(Tok)
      BY <1>1, <3>3, Concat
    <3> HIDE DEF rest
    <3>12. <<OpenOf(c)>> \o r = <<OpenOf(c)>> \o rest
      BY <3>9 DEF rest
    <3>13. r = rest
      BY <1>0, <3>10, <3>12, FirstOf
    <3>11. r = b \o close
      BY <3>13 DEF rest
    <3> QED
      BY <3>2, <3>8, <3>11
  <2> QED
    BY <2>1, <2>2, <2>3, ValueRule
<1>5. ASSUME NEW y, v = <<c, y>>, NEW b, IsInside(W, c, b, y), r = b \o close
      PROVE  Reads(W, <<OpenOf(c)>> \o r, v, s)
  <2>1. b \in Seq(Tok)
    BY <1>5, ValueTyped, EmptySeq DEF IsInside
  <2> DEFINE j == <<OpenOf(c)>> \o (b \o <<CloseOf(c)>>)
  <2>4. ContainerOf(W, j, v, c, b, y)
    BY <1>5 DEF ContainerOf
  <2>2. IsValue(W, j, v)
    BY <2>4, ValueRule
  <2>3. <<OpenOf(c)>> \o r = j \o s
    BY <1>3, <1>5, <2>1
  <2> HIDE DEF j
  <2> QED
    BY <2>2, <2>3 DEF Reads
<1> QED
  BY <1>2, <1>4, <1>5

\* No value starts with any other token.
LEMMA OtherRead ==
  ASSUME NEW W \in SUBSET Str, NEW t \in Tok, t \notin W \cup {"null", "number"},
         \A c \in Container : t # OpenOf(c),
         NEW r \in Seq(Tok), NEW v, NEW s \in Seq(Tok)
  PROVE  ~Reads(W, <<t>> \o r, v, s)
<1> SUFFICES ASSUME Reads(W, <<t>> \o r, v, s) PROVE FALSE
  OBVIOUS
<1>1. PICK j : IsValue(W, j, v) /\ <<t>> \o r = j \o s
  BY DEF Reads
<1>2. CASE LeafValue(W, j, v)
  <2>1. PICK u \in W \cup {"null", "number"} : j = <<u>> /\ v = Leaf(u)
    BY <1>2 DEF LeafValue
  <2>2. u \in Tok
    BY Marks
  <2>3. <<t>> \o r = <<u>> \o s
    BY <1>1, <2>1
  <2> QED
    BY <2>2, <2>3, FirstOf
<1>3. CASE \E e \in Container : \E b, x : ContainerOf(W, j, v, e, b, x)
  <2>0. PICK e \in Container : \E b, x : ContainerOf(W, j, v, e, b, x)
    BY <1>3
  <2>1. PICK b, x : ContainerOf(W, j, v, e, b, x)
    BY <2>0
  <2>2. /\ IsInside(W, e, b, x)
        /\ j = <<OpenOf(e)>> \o (b \o <<CloseOf(e)>>) /\ v = <<e, x>>
    BY <2>1 DEF ContainerOf
  <2>3. b \in Seq(Tok)
    BY <2>2, ValueTyped, EmptySeq DEF IsInside
  <2> DEFINE f == b \o <<CloseOf(e)>>
  <2>4. f \in Seq(Tok) /\ <<OpenOf(e)>> \in Seq(Tok) /\ OpenOf(e) \in Tok
    BY <2>3, Tokens, Concat, Marks
  <2> HIDE DEF f
  <2>5. j \o s = <<OpenOf(e)>> \o (f \o s) /\ f \o s \in Seq(Tok)
    BY <2>2, <2>4, ConcatAssociative, Concat DEF f
  <2>6. <<t>> \o r = <<OpenOf(e)>> \o (f \o s)
    BY <1>1, <2>5
  <2> QED
    BY <2>4, <2>5, <2>6, FirstOf
<1> QED
  BY <1>1, <1>2, <1>3, ValueRule

-----------------------------------------------------------------------------
(* The value of a heap.                                                    *)

\* What holds for a number if it holds for all greater ones.
LEMMA Downward ==
  ASSUME NEW N \in Nat, NEW T,
         \A n \in 1 .. N : (\A m \in n + 1 .. N : m \in T) => n \in T
  PROVE  1 .. N \subseteq T
<1> DEFINE Done == {k \in Nat : \A n \in 1 .. N : n > N - k => n \in T}
<1>1. 0 \in Done
  OBVIOUS
<1>2. ASSUME NEW k \in Nat, k \in Done PROVE k + 1 \in Done
  <2> SUFFICES ASSUME NEW n \in 1 .. N, n > N - (k + 1) PROVE n \in T
    OBVIOUS
  <2>1. \A m \in n + 1 .. N : m \in T
    BY <1>2
  <2> QED
    BY <2>1
<1>3. Nat \subseteq Done
  <2> HIDE DEF Done
  <2> QED
    BY <1>1, <1>2, Induction
<1>4. N \in Done
  BY <1>3
<1> QED
  BY <1>4

\* Parts come after what they are a part of.
Descends(heap, N) ==
  /\ N \in Nat /\ DOMAIN heap = 1 .. N
  /\ \A n \in 1 .. N : heap[n][1] \in Container =>
       \A k \in DOMAIN heap[n][2] : heap[n][2][k] \in n + 1 .. N

\* The recursion that ValueAt states has its solution: children come after their parents.
LEMMA ValueRecursion ==
  ASSUME NEW heap, NEW N, Descends(heap, N), NEW n \in 1 .. N
  PROVE  ValueAt(heap)[n] =
           IF heap[n][1] \in Container
           THEN <<heap[n][1], [k \in DOMAIN heap[n][2] |-> ValueAt(heap)[heap[n][2][k]]]>>
           ELSE heap[n]
<1> DEFINE At(m, g) == IF heap[m][1] \in Container
                       THEN <<heap[m][1], [k \in DOMAIN heap[m][2] |-> g[heap[m][2][k]]]>>
                       ELSE heap[m]
           From(g, k) == \A m \in 1 .. N : m > N - k => g[m] = At(m, g)
           Reached == {k \in Nat : \E g : From(g, k)}
<1>0. N \in Nat /\ DOMAIN heap = 1 .. N
  BY DEF Descends
<1>1. ASSUME NEW m \in 1 .. N, NEW g, NEW h, \A x \in m + 1 .. N : g[x] = h[x]
      PROVE  At(m, g) = At(m, h)
  <2>1. CASE heap[m][1] \in Container
    <3>1. \A k \in DOMAIN heap[m][2] : g[heap[m][2][k]] = h[heap[m][2][k]]
      BY <1>1, <2>1 DEF Descends
    <3> QED
      BY <2>1, <3>1
  <2>2. CASE heap[m][1] \notin Container
    BY <2>2
  <2> QED
    BY <2>1, <2>2
<1> HIDE DEF At
<1>2. 0 \in Reached
  <2>1. From(<<>>, 0)
    BY <1>0
  <2> HIDE DEF From
  <2> QED
    BY <2>1
<1>3. ASSUME NEW k \in Nat, k \in Reached PROVE k + 1 \in Reached
  <2>1. PICK g : From(g, k)
    BY <1>3
  <2> DEFINE y == N - k
             h == [x \in 1 .. N |-> IF x = y THEN At(y, g) ELSE g[x]]
  <2>2. ASSUME NEW m \in 1 .. N, m > N - (k + 1) PROVE h[m] = At(m, h)
    <3>1. m >= y /\ \A x \in m + 1 .. N : g[x] = h[x]
      BY <1>0, <2>2
    <3>2. h[m] = IF m = y THEN At(y, g) ELSE g[m]
      OBVIOUS
    <3> HIDE DEF h
    <3>3. At(m, g) = At(m, h)
      BY <1>1, <3>1
    <3>4. m # y => g[m] = At(m, g)
      BY <1>0, <2>1, <3>1
    <3> QED
      BY <3>2, <3>3, <3>4
  <2> HIDE DEF h
  <2>3. From(h, k + 1)
    BY <2>2
  <2> HIDE DEF From
  <2> QED
    BY <2>3
<1>4. PICK g : From(g, N)
  <2>1. Nat \subseteq Reached
    <3> HIDE DEF Reached
    <3> QED
      BY <1>2, <1>3, Induction
  <2>2. N \in Reached
    BY <1>0, <2>1
  <2> HIDE DEF From
  <2> QED
    BY <2>2
<1> DEFINE f == [m \in 1 .. N |-> g[m]]
<1>5. ASSUME NEW m \in 1 .. N PROVE f[m] = At(m, f)
  <2>1. f[m] = At(m, g)
    BY <1>0, <1>4
  <2>2. \A x \in m + 1 .. N : g[x] = f[x]
    BY <1>0
  <2> HIDE DEF f
  <2> QED
    BY <1>1, <2>1, <2>2
<1>6. f = [m \in 1 .. N |-> At(m, f)]
  <2> DEFINE e == [m \in 1 .. N |-> At(m, f)]
  <2>1. \A m \in 1 .. N : f[m] = e[m]
    BY <1>5
  <2>2. f = [m \in 1 .. N |-> f[m]] /\ e = [m \in 1 .. N |-> e[m]]
    OBVIOUS
  <2> HIDE DEF f, e
  <2>3. f = e
    BY <2>1, <2>2
  <2> QED
    BY <2>3 DEF e
<1> HIDE DEF f
<1> DEFINE v == ValueAt(heap)
<1>7. v = CHOOSE u : u = [m \in 1 .. N |-> At(m, u)]
  BY <1>0 DEF ValueAt, At, Container
<1> HIDE DEF v
<1>8. v = [m \in 1 .. N |-> At(m, v)]
  BY <1>6, <1>7
<1>9. v[n] = At(n, v)
  BY <1>8
<1> QED
  BY <1>9 DEF At, v

\* A heap in which every value is in one place.
LEMMA ForestDescends ==
  ASSUME NEW heap \in Seq(Node), IsForest(heap)
  PROVE  Descends(heap, Len(heap)) /\ \A n \in 1 .. Len(heap) : heap[n][1] \in Container =>
           Content(heap, n) = heap[n][2]
<1>1. Len(heap) \in Nat /\ DOMAIN heap = 1 .. Len(heap)
  OBVIOUS
<1>2. ASSUME NEW n \in 1 .. Len(heap), heap[n][1] \in Container
      PROVE  /\ Content(heap, n) = heap[n][2]
             /\ \A k \in DOMAIN heap[n][2] : heap[n][2][k] \in n + 1 .. Len(heap)
  <2>1. Content(heap, n) = heap[n][2]
    BY <1>2 DEF Content, Container
  <2> QED
    BY <1>1, <2>1 DEF IsForest
<1> QED
  BY <1>1, <1>2 DEF Descends

\* The value of a node, from those of its children.
LEMMA ValueIs ==
  ASSUME NEW heap \in Seq(Node), IsForest(heap), NEW n \in 1 .. Len(heap)
  PROVE  /\ heap[n][1] \notin Container => ValueAt(heap)[n] = heap[n]
         /\ heap[n][1] \in Container =>
              ValueAt(heap)[n] =
                <<heap[n][1], [k \in DOMAIN heap[n][2] |-> ValueAt(heap)[heap[n][2][k]]]>>
<1>1. Descends(heap, Len(heap))
  BY ForestDescends
<1> QED
  BY <1>1, ValueRecursion

\* Values keep their place in memory, and what is in them too.
LEMMA ValueSame ==
  ASSUME NEW heap \in Seq(Node), IsForest(heap), NEW new \in Seq(Node), IsForest(new),
         Len(new) >= Len(heap), NEW S,
         \A n \in 1 .. Len(heap) : n \in S =>
           /\ new[n] = heap[n]
           /\ heap[n][1] \in Container => \A k \in DOMAIN heap[n][2] : heap[n][2][k] \in S
  PROVE  \A n \in 1 .. Len(heap) : n \in S => ValueAt(new)[n] = ValueAt(heap)[n]
<1> DEFINE N == Len(heap)
           T == {n \in 1 .. N : n \in S => ValueAt(new)[n] = ValueAt(heap)[n]}
<1>0. N \in Nat /\ Len(new) \in Nat
  OBVIOUS
<1>1. ASSUME NEW n \in 1 .. N, \A m \in n + 1 .. N : m \in T PROVE n \in T
  <2> SUFFICES ASSUME n \in S PROVE ValueAt(new)[n] = ValueAt(heap)[n]
    OBVIOUS
  <2>1. n \in 1 .. Len(new) /\ new[n] = heap[n]
    BY <1>0
  <2>2. CASE heap[n][1] \notin Container
    <3>1. ValueAt(heap)[n] = heap[n]
      BY <2>2, ValueIs
    <3>2. ValueAt(new)[n] = new[n]
      BY <2>1, <2>2, ValueIs
    <3> QED
      BY <2>1, <3>1, <3>2
  <2>3. CASE heap[n][1] \in Container
    <3> DEFINE kids == heap[n][2]
               F(h) == [k \in DOMAIN kids |-> ValueAt(h)[kids[k]]]
    <3>1. ValueAt(heap)[n] = <<heap[n][1], F(heap)>>
      BY <2>3, ValueIs
    <3>2. ValueAt(new)[n] = <<new[n][1], [k \in DOMAIN new[n][2] |-> ValueAt(new)[new[n][2][k]]]>>
      BY <2>1, <2>3, ValueIs
    <3>3. \A k \in DOMAIN kids : kids[k] \in n + 1 .. N
      BY <2>3, ForestDescends DEF Descends
    <3>4. \A k \in DOMAIN kids : ValueAt(new)[kids[k]] = ValueAt(heap)[kids[k]]
      BY <1>1, <2>3, <3>3
    <3>5. F(new) = F(heap)
      BY <3>4
    <3> QED
      BY <2>1, <3>1, <3>2, <3>5
  <2> QED
    BY <2>2, <2>3
<1>2. 1 .. N \subseteq T
  <2> HIDE DEF T, N
  <2> QED
    BY <1>0, <1>1, Downward
<1> QED
  BY <1>2

\* What is in the container at n if the value at e were w.
Filled(heap, n, e, w) ==
  [j \in DOMAIN heap[n][2] |-> IF heap[n][2][j] = e THEN w ELSE ValueAt(heap)[heap[n][2][j]]]

\* What is in the last container, and with one more value w in its place.
Inside(d) == ValueAt(d.heap)[Last(d.refs)][2]
Placed(d, w) ==
  IF IsArray(d) THEN Append(Inside(d), w) ELSE Filled(d.heap, Last(d.refs), d.element, w)

\* A container filled with the value that its child has is its own value.
LEMMA FilledItself ==
  ASSUME NEW heap \in Seq(Node), IsForest(heap), NEW n \in 1 .. Len(heap),
         heap[n][1] \in Container, NEW e
  PROVE  /\ Filled(heap, n, e, ValueAt(heap)[e]) = ValueAt(heap)[n][2]
         /\ ValueAt(heap)[n] = <<heap[n][1], ValueAt(heap)[n][2]>>
         /\ ValueAt(heap)[n][2] = [j \in DOMAIN heap[n][2] |-> ValueAt(heap)[heap[n][2][j]]]
<1>1. ValueAt(heap)[n] =
        <<heap[n][1], [k \in DOMAIN heap[n][2] |-> ValueAt(heap)[heap[n][2][k]]]>>
  BY ValueIs
<1>2. Filled(heap, n, e, ValueAt(heap)[e]) = [k \in DOMAIN heap[n][2] |-> ValueAt(heap)[heap[n][2][k]]]
  BY DEF Filled
<1> QED
  BY <1>1, <1>2

\* A value is in one place only.
LEMMA OnePlace ==
  ASSUME NEW heap \in Seq(Node), IsForest(heap),
         NEW n \in 1 .. Len(heap), heap[n][1] \in Container, NEW k \in DOMAIN heap[n][2],
         NEW m \in 1 .. Len(heap), heap[m][1] \in Container, NEW l \in DOMAIN heap[m][2],
         heap[n][2][k] = heap[m][2][l]
  PROVE  n = m /\ k = l
<1>1. Content(heap, n) = heap[n][2] /\ Content(heap, m) = heap[m][2] /\ DOMAIN heap = 1 .. Len(heap)
  BY ForestDescends
<1> QED
  BY <1>1 DEF IsForest

\* Each container on the way is inside the one before, and no other value is.
LEMMA OnTheWay ==
  ASSUME NEW d, DomInv(d), NEW i \in DOMAIN d.refs
  PROVE  /\ d.refs[i] \in 1 .. Len(d.heap) /\ d.heap[d.refs[i]][1] \in Container
         /\ d.heap[d.refs[i]] \in Node
         /\ i # 1 => /\ i - 1 \in DOMAIN d.refs
                     /\ \E k \in DOMAIN d.heap[d.refs[i - 1]][2] :
                          d.heap[d.refs[i - 1]][2][k] = d.refs[i]
         /\ i = 1 => d.refs[i] = 1
         /\ \A n \in 1 .. Len(d.heap) : d.heap[n][1] \in Container =>
              \A k \in DOMAIN d.heap[n][2] : d.heap[n][2][k] = d.refs[i] =>
                i # 1 /\ n = d.refs[i - 1]
<1> DEFINE heap == d.heap
           refs == d.refs
<1>1. /\ heap \in Seq(Node) /\ refs \in Seq(Nat) /\ IsForest(heap) /\ IsPath(d) /\ Grows(refs)
  BY DEF DomInv
<1>2. DOMAIN heap = 1 .. Len(heap) /\ DOMAIN refs = 1 .. Len(refs) /\ Len(refs) \in Nat
  BY <1>1
<1>3. \A j \in DOMAIN refs : refs[j] \in 1 .. Len(heap) /\ heap[refs[j]][1] \in Container
  BY <1>1, <1>2, PathAt DEF Container
<1>4. \A j \in DOMAIN refs : heap[refs[j]] \in Node
  BY <1>1, <1>3
<1>5. i # 1 => i - 1 \in DOMAIN refs
  BY <1>2
<1>6. i # 1 => \E k \in DOMAIN heap[refs[i - 1]][2] : heap[refs[i - 1]][2][k] = refs[i]
  <2>1. i # 1 => Content(heap, refs[i - 1]) = heap[refs[i - 1]][2]
    BY <1>1, <1>3, <1>5, ForestDescends
  <2> QED
    BY <1>1, <2>1, PathAt
<1>7. i = 1 => refs[i] = 1
  BY <1>1, PathAt
<1>8. ASSUME NEW n \in 1 .. Len(heap), heap[n][1] \in Container,
             NEW k \in DOMAIN heap[n][2], heap[n][2][k] = refs[i]
      PROVE  i # 1 /\ n = refs[i - 1]
  <2>1. heap[n][2][k] \in n + 1 .. Len(heap)
    BY <1>1, <1>8, ForestDescends DEF Descends
  <2>2. i # 1
    BY <1>7, <1>8, <2>1
  <2> DEFINE q == refs[i - 1]
  <2>3. PICK l \in DOMAIN heap[q][2] : heap[q][2][l] = refs[i]
    BY <1>6, <2>2
  <2>4. q \in 1 .. Len(heap) /\ heap[q][1] \in Container
    BY <1>3, <1>5, <2>2
  <2> HIDE DEF q
  <2>5. heap[n][2][k] = heap[q][2][l]
    BY <1>8, <2>3
  <2> HIDE DEF heap
  <2>6. n = q
    BY <1>1, <1>8, <2>3, <2>4, <2>5, OnePlace
  <2> QED
    BY <2>2, <2>6 DEF q
<1> QED
  BY <1>3, <1>4, <1>5, <1>6, <1>7, <1>8

\* A step that changes the last container only, and the value at p in it or a new one.
Untouched(d, p) == {n \in 1 .. Len(d.heap) : n # p /\ \A i \in DOMAIN d.refs : n # d.refs[i]}
Local(d, new, p) ==
  /\ new \in Seq(Node) /\ IsForest(new) /\ Len(new) >= Len(d.heap)
  /\ \A n \in Untouched(d, p) : new[n] = d.heap[n]
  /\ \A i \in DOMAIN d.refs : i # Len(d.refs) => new[d.refs[i]] = d.heap[d.refs[i]]
  /\ p > Len(d.heap) \/ \E k \in DOMAIN d.heap[Last(d.refs)][2] : d.heap[Last(d.refs)][2][k] = p

\* Each open container but the last is what it was, around the next one; so is every
\* value in the last one but that at p.
OuterSame(d, new) ==
  \A i \in DOMAIN d.refs : i # Len(d.refs) =>
    \A w : Filled(new, d.refs[i], d.refs[i + 1], w) = Filled(d.heap, d.refs[i], d.refs[i + 1], w)
PartsSame(d, new, p) ==
  \A k \in DOMAIN d.heap[Last(d.refs)][2] : d.heap[Last(d.refs)][2][k] # p =>
    ValueAt(new)[d.heap[Last(d.refs)][2][k]] = ValueAt(d.heap)[d.heap[Last(d.refs)][2][k]]

\* A step that changes one node leaves every other open container as it was.
LEMMA LocalStep ==
  ASSUME NEW d, DomInv(d), d.refs # <<>>, NEW new, NEW p \in Nat, Local(d, new, p)
  PROVE  OuterSame(d, new) /\ PartsSame(d, new, p)
<1> DEFINE heap == d.heap
           refs == d.refs
           N == Len(refs)
           b == Last(refs)
           S == Untouched(d, p)
<1>1. /\ heap \in Seq(Node) /\ refs \in Seq(Nat) /\ IsForest(heap) /\ Grows(refs)
      /\ N \in DOMAIN refs /\ b = refs[N] /\ N \in Nat /\ DOMAIN refs = 1 .. N /\ Len(heap) \in Nat
  BY LastRef DEF DomInv
<1>2. /\ new \in Seq(Node) /\ IsForest(new) /\ Len(new) >= Len(heap)
      /\ \A n \in S : new[n] = heap[n]
      /\ \A i \in DOMAIN refs : i # N => new[refs[i]] = heap[refs[i]]
  BY DEF Local
<1>3. \A i \in DOMAIN refs : refs[i] \in 1 .. Len(heap) /\ heap[refs[i]][1] \in Container
  BY OnTheWay
\* What a container holds is not the value at p, unless it is the last one.
<1>4. ASSUME NEW n \in 1 .. Len(heap), heap[n][1] \in Container, NEW k \in DOMAIN heap[n][2],
             heap[n][2][k] = p
      PROVE  n = b
  <2>1. heap[n][2][k] \in n + 1 .. Len(heap)
    BY <1>1, <1>4, ForestDescends DEF Descends
  <2>2. PICK l \in DOMAIN heap[b][2] : heap[b][2][l] = p
    BY <1>1, <1>4, <2>1 DEF Local
  <2>3. b \in 1 .. Len(heap) /\ heap[b][1] \in Container /\ heap[n][2][k] = heap[b][2][l]
    BY <1>1, <1>3, <1>4, <2>2
  <2> HIDE DEF heap, b
  <2> QED
    BY <1>1, <1>4, <2>2, <2>3, OnePlace
<1>5. ASSUME NEW n \in 1 .. Len(heap), heap[n][1] \in Container, NEW k \in DOMAIN heap[n][2],
             heap[n][2][k] # p, \A i \in DOMAIN refs : heap[n][2][k] # refs[i]
      PROVE  heap[n][2][k] \in S
  <2>1. heap[n][2][k] \in n + 1 .. Len(heap)
    BY <1>1, <1>5, ForestDescends DEF Descends
  <2>2. heap[n][2][k] \in 1 .. Len(heap)
    BY <1>1, <2>1
  <2> QED
    BY <1>5, <2>2 DEF Untouched
<1>6. ASSUME NEW n \in S, heap[n][1] \in Container, NEW k \in DOMAIN heap[n][2]
      PROVE  heap[n][2][k] \in S
  <2>1. n \in 1 .. Len(heap) /\ n # b /\ \A i \in DOMAIN refs : n # refs[i]
    BY <1>1 DEF Untouched
  <2>2. heap[n][2][k] # p
    BY <1>4, <1>6, <2>1
  <2>3. \A i \in DOMAIN refs : heap[n][2][k] # refs[i]
    BY <1>6, <2>1, OnTheWay
  <2> QED
    BY <1>5, <1>6, <2>1, <2>2, <2>3
<1>7. \A n \in 1 .. Len(heap) : n \in S => ValueAt(new)[n] = ValueAt(heap)[n]
  <2>1. \A n \in 1 .. Len(heap) : n \in S =>
          /\ new[n] = heap[n]
          /\ heap[n][1] \in Container => \A k \in DOMAIN heap[n][2] : heap[n][2][k] \in S
    BY <1>2, <1>6
  <2> HIDE DEF S, heap
  <2> QED
    BY <1>1, <1>2, <2>1, ValueSame
<1>8. \A n \in S : ValueAt(new)[n] = ValueAt(heap)[n]
  BY <1>7 DEF Untouched
<1>9. ASSUME NEW i \in DOMAIN refs, i # N, NEW w
      PROVE  Filled(new, refs[i], refs[i + 1], w) = Filled(heap, refs[i], refs[i + 1], w)
  <2>1. i + 1 \in DOMAIN refs /\ refs[i] < b
    <3>1. i + 1 \in DOMAIN refs /\ i < N
      BY <1>1, <1>9
    <3> QED
      BY <1>1, <3>1 DEF Grows
  <2>2. new[refs[i]] = heap[refs[i]] /\ refs[i] # b
    <3>1. refs[i] \in Nat /\ b \in Nat
      BY <1>1
    <3> QED
      BY <1>2, <1>9, <2>1, <3>1
  <2> DEFINE kids == heap[refs[i]][2]
  <2>3. ASSUME NEW j \in DOMAIN kids, kids[j] # refs[i + 1]
        PROVE  ValueAt(new)[kids[j]] = ValueAt(heap)[kids[j]]
    <3>1. kids[j] # p
      BY <1>3, <1>4, <2>2
    <3>2. ASSUME NEW m \in DOMAIN refs, kids[j] = refs[m] PROVE FALSE
      <4>1. m # 1 /\ refs[i] = refs[m - 1] /\ m - 1 \in DOMAIN refs
        BY <1>3, <3>2, OnTheWay
      <4>2. m - 1 \in DOMAIN refs /\ m \in Nat /\ i \in Nat
        BY <1>1, <4>1
      <4>3. ~(i < m - 1) /\ ~(m - 1 < i)
        <5>1. \A x, y \in DOMAIN refs : x < y => refs[x] < refs[y]
          BY <1>1 DEF Grows
        <5>2. refs[i] \in Nat /\ refs[m - 1] \in Nat
          BY <1>3, <4>2
        <5> QED
          BY <4>1, <4>2, <5>1, <5>2
      <4>4. m = i + 1
        BY <1>1, <4>2, <4>3
      <4> QED
        BY <2>3, <3>2, <4>4
    <3>3. kids[j] \in S
      BY <1>3, <1>5, <3>1, <3>2
    <3> QED
      BY <1>8, <3>3
  <2> QED
    BY <2>2, <2>3 DEF Filled
<1>10. ASSUME NEW k \in DOMAIN heap[b][2], heap[b][2][k] # p
       PROVE  ValueAt(new)[heap[b][2][k]] = ValueAt(heap)[heap[b][2][k]]
  <2>1. ASSUME NEW m \in DOMAIN refs, heap[b][2][k] = refs[m] PROVE FALSE
    <3>1. m # 1 /\ refs[N] = refs[m - 1]
      <4>1. b \in 1 .. Len(heap) /\ heap[b][1] \in Container
        BY <1>1, <1>3
      <4>2. m # 1 /\ b = refs[m - 1]
        BY <2>1, <4>1, OnTheWay
      <4> QED
        BY <1>1, <4>2
    <3>2. m - 1 \in DOMAIN refs /\ m - 1 < N
      BY <1>1, <3>1
    <3>3. refs[m - 1] < refs[N]
      BY <1>1, <3>2 DEF Grows
    <3> QED
      BY <1>1, <3>1, <3>2, <3>3
  <2>2. heap[b][2][k] \in S
    BY <1>1, <1>3, <1>5, <1>10, <2>1
  <2> QED
    BY <1>8, <2>2
<1> QED
  BY <1>9, <1>10 DEF OuterSame, PartsSame

\* A leaf and an empty container are their own values.
LEMMA BareValue ==
  ASSUME NEW heap \in Seq(Node), IsForest(heap), NEW p \in 1 .. Len(heap), Bare(heap[p])
  PROVE  ValueAt(heap)[p] = heap[p]
<1>1. CASE heap[p][1] \notin Container
  BY <1>1, ValueIs
<1>2. CASE heap[p][1] \in Container
  <2>1. heap[p] = <<heap[p][1], heap[p][2]>> /\ heap[p][2] = <<>>
    BY <1>2, Nodes DEF Bare
  <2>2. [k \in DOMAIN <<>> |-> ValueAt(heap)[<<>>[k]]] = <<>>
    OBVIOUS
  <2>3. ValueAt(heap)[p] = <<heap[p][1], [k \in DOMAIN heap[p][2] |-> ValueAt(heap)[heap[p][2][k]]]>>
    BY <1>2, ValueIs
  <2>4. ValueAt(heap)[p] = <<heap[p][1], <<>> >>
    BY <2>1, <2>2, <2>3
  <2> QED
    BY <2>1, <2>4
<1> QED
  BY <1>1, <1>2

\* Append, as a function.
LEMMA AppendIs ==
  ASSUME NEW m \in Nat, NEW f, f = [j \in 1 .. m |-> f[j]], NEW w
  PROVE  Append(f, w) = [j \in 1 .. m + 1 |-> IF j = m + 1 THEN w ELSE f[j]]
<1> DEFINE S == {f[j] : j \in 1 .. m} \cup {w}
           g == [j \in 1 .. m + 1 |-> IF j = m + 1 THEN w ELSE f[j]]
           h == Append(f, w)
<1>1. f \in [1 .. m -> S]
  OBVIOUS
<1>2. f \in Seq(S) /\ Len(f) = m /\ w \in S
  BY <1>1
<1> HIDE DEF S
<1>3. h \in Seq(S) /\ Len(h) = m + 1 /\ h[m + 1] = w /\ \A j \in 1 .. m : h[j] = f[j]
  BY <1>2, AppendProperties
<1> DEFINE n == m + 1
<1>4. g \in [1 .. n -> S] /\ n \in Nat
  BY <1>1, <1>2
<1>5. g \in Seq(S) /\ Len(g) = m + 1
  <2> HIDE DEF g, n
  <2>1. g \in Seq(S) /\ Len(g) = n
    BY <1>4
  <2> QED
    BY <2>1 DEF n
<1>6. \A j \in 1 .. m + 1 : g[j] = h[j]
  BY <1>3
<1> HIDE DEF g, h
<1>7. g = h
  BY <1>3, <1>5, <1>6, SeqEqual
<1> QED
  BY <1>7 DEF g, h

\* An element more in the last container.
LEMMA GainsLocal ==
  ASSUME NEW d, DomInv(d), d.refs # <<>>, NEW new, IsForest(new), NEW k,
         Gains(d.heap, new, Last(d.refs), k)
  PROVE  Local(d, new, Len(d.heap) + 1) /\ Len(d.heap) + 1 \in Nat
<1>1. /\ d.heap \in Seq(Node) /\ Len(d.heap) \in Nat
      /\ \A i \in DOMAIN d.refs : d.refs[i] \in 1 .. Len(d.heap)
           /\ (i # Len(d.refs) => d.refs[i] # Last(d.refs))
      /\ Last(d.refs) = d.refs[Len(d.refs)] /\ Len(d.refs) \in DOMAIN d.refs
  <2>1. d.heap \in Seq(Node) /\ Len(d.heap) \in Nat
    BY DEF DomInv
  <2>2. \A i \in DOMAIN d.refs : d.refs[i] \in 1 .. Len(d.heap)
          /\ (i # Len(d.refs) => d.refs[i] < Last(d.refs))
    BY LastRef
  <2>3. Last(d.refs) \in 1 .. Len(d.heap)
    BY LastRef
  <2>4. \A i \in DOMAIN d.refs : i # Len(d.refs) => d.refs[i] # Last(d.refs)
    BY <2>2, <2>3
  <2> QED
    BY <2>1, <2>2, <2>4, LastRef
<1>2. /\ new \in Seq(Node) /\ Len(new) = Len(d.heap) + 1
      /\ \A i \in 1 .. Len(d.heap) : i # Last(d.refs) => new[i] = d.heap[i]
  BY DEF Gains
<1> QED
  BY <1>1, <1>2 DEF Local, Untouched

\* A step that keeps the open containers, and what is in them up to the last one.
SameWay(d, e) ==
  /\ e.refs = d.refs
  /\ \A i \in DOMAIN d.refs : e.heap[d.refs[i]][1] = d.heap[d.refs[i]][1]
  /\ OuterSame(d, e.heap)

\* handle_value: what is in the container that gets the value.
LEMMA ValuePlaced ==
  ASSUME NEW d, DomInv(d), NEW node, Bare(node),
         d.refs # <<>> /\ ~IsArray(d) => ElementIsIn(d),
         NEW e, e = HandleValue(d, node), NEW p, p = Place(d)
  PROVE  /\ DomInv(e) /\ SameWay(d, e)
         /\ p \in 1 .. Len(e.heap) /\ e.heap[p] = node /\ ValueAt(e.heap)[p] = node
         /\ d.refs = <<>> => p = 1
         /\ d.refs # <<>> => Inside(e) = Placed(d, node)
         /\ \A w : d.refs # <<>> => Filled(e.heap, Last(d.refs), p, w) = Placed(d, w)
<1> DEFINE b == Last(d.refs)
<1>1. /\ DomInv(e) /\ e.refs = d.refs
      /\ p \in 1 .. Len(e.heap) /\ e.heap[p] = node
      /\ \A i \in DOMAIN d.refs : e.heap[d.refs[i]][1] = d.heap[d.refs[i]][1]
      /\ d.refs = <<>> => p = 1
      /\ d.refs # <<>> => Last(d.refs) < p /\ Gets(d, e.heap, p, node)
  BY HandleValueKeeps
<1>2. /\ d.heap \in Seq(Node) /\ IsForest(d.heap) /\ e.heap \in Seq(Node) /\ IsForest(e.heap)
      /\ Len(d.heap) \in Nat /\ Len(e.heap) \in Nat /\ p \in Nat
  BY <1>1 DEF DomInv
<1>3. ValueAt(e.heap)[p] = node
  BY <1>1, <1>2, BareValue
<1>4. ASSUME d.refs # <<>>, NEW q \in Nat, Local(d, e.heap, q),
             \A w : Filled(e.heap, b, p, w) = Placed(d, w)
      PROVE  SameWay(d, e) /\ Inside(e) = Placed(d, node)
  <2>1. b \in 1 .. Len(e.heap) /\ e.heap[b][1] \in Container /\ Last(e.refs) = b
    BY <1>1, <1>4, LastRef
  <2>2. Filled(e.heap, b, p, ValueAt(e.heap)[p]) = ValueAt(e.heap)[b][2]
    <3> DEFINE h == e.heap
    <3>1. h \in Seq(Node) /\ IsForest(h) /\ b \in 1 .. Len(h) /\ h[b][1] \in Container
      BY <1>2, <2>1
    <3> HIDE DEF b, h
    <3>2. Filled(h, b, p, ValueAt(h)[p]) = ValueAt(h)[b][2]
      BY <3>1, FilledItself
    <3> QED
      BY <3>2 DEF h
  <2>3. Inside(e) = Placed(d, node)
    BY <1>3, <1>4, <2>1, <2>2 DEF Inside
  <2>4. OuterSame(d, e.heap)
    BY <1>4, LocalStep
  <2> QED
    BY <1>1, <2>3, <2>4 DEF SameWay
<1>5. CASE d.refs # <<>> /\ IsArray(d)
  <2> DEFINE kids == d.heap[b][2]
             m == Len(kids)
             more == e.heap[b][2]
  <2>1. Gains(d.heap, e.heap, b, m + 1)
    BY <1>1, <1>5 DEF Gets
  <2>2. Local(d, e.heap, Len(d.heap) + 1) /\ Len(d.heap) + 1 \in Nat
    BY <1>2, <1>5, <2>1, GainsLocal
  <2>3. p = Len(d.heap) + 1
    BY <1>5 DEF Place
  <2>4. /\ b \in 1 .. Len(d.heap) /\ d.heap[b][1] \in Container
        /\ kids \in Seq(Nat) /\ m \in Nat /\ DOMAIN kids = 1 .. m
    BY <1>2, <1>5, LastRef, Nodes DEF IsArray
  <2>5. /\ DOMAIN more = 1 .. m + 1 /\ more[m + 1] = p
        /\ \A j \in 1 .. m : more[j] = kids[j]
    <3>1. /\ DOMAIN more = DOMAIN kids \cup {m + 1} /\ more[m + 1] = Len(d.heap) + 1
          /\ \A j \in DOMAIN kids : more[j] = kids[j]
      <4> HIDE DEF m
      <4> QED
        BY <2>1 DEF Gains
    <3>2. (1 .. m) \cup {m + 1} = 1 .. m + 1
      BY <2>4
    <3> QED
      BY <2>3, <2>4, <3>1, <3>2
  <2>6. \A j \in 1 .. m : kids[j] # p /\ ValueAt(e.heap)[kids[j]] = ValueAt(d.heap)[kids[j]]
    <3>1. \A j \in 1 .. m : kids[j] \in b + 1 .. Len(d.heap)
      BY <1>2, <2>4, ForestDescends DEF Descends
    <3>2. \A j \in 1 .. m : kids[j] # p
      BY <1>2, <2>3, <2>4, <3>1
    <3>3. \A k \in DOMAIN d.heap[b][2] : d.heap[b][2][k] # Len(d.heap) + 1 =>
            ValueAt(e.heap)[d.heap[b][2][k]] = ValueAt(d.heap)[d.heap[b][2][k]]
      <4>1. PartsSame(d, e.heap, Len(d.heap) + 1)
        BY <1>5, <2>2, LocalStep
      <4> QED
        BY <4>1 DEF PartsSame
    <3> QED
      BY <2>3, <2>4, <3>2, <3>3
  <2>7. Inside(d) = [j \in 1 .. m |-> ValueAt(d.heap)[kids[j]]]
    <3>1. Inside(d) = ValueAt(d.heap)[b][2]
      BY DEF Inside
    <3>2. b \in 1 .. Len(d.heap) /\ d.heap[b][1] \in Container /\ DOMAIN d.heap[b][2] = 1 .. m
      BY <2>4
    <3> HIDE DEF b, m
    <3>3. ValueAt(d.heap)[b][2] = [j \in DOMAIN d.heap[b][2] |-> ValueAt(d.heap)[d.heap[b][2][j]]]
      BY <1>2, <3>2, FilledItself
    <3> QED
      BY <3>1, <3>2, <3>3
  <2>8. ASSUME NEW w PROVE Filled(e.heap, b, p, w) = Placed(d, w)
    <3> DEFINE f == Inside(d)
    <3>1. f = [j \in 1 .. m |-> f[j]] /\ \A j \in 1 .. m : f[j] = ValueAt(d.heap)[kids[j]]
      BY <2>7
    <3>2. Placed(d, w) = Append(f, w)
      BY <1>5 DEF Placed
    <3>3. Filled(e.heap, b, p, w) =
            [j \in DOMAIN more |-> IF more[j] = p THEN w ELSE ValueAt(e.heap)[more[j]]]
      BY DEF Filled
    <3> HIDE DEF f, kids, m, more
    <3>4. Append(f, w) = [j \in 1 .. m + 1 |-> IF j = m + 1 THEN w ELSE f[j]]
      BY <2>4, <3>1, AppendIs
    <3>5. \A j \in 1 .. m + 1 : j \in 1 .. m \/ j = m + 1
      BY <2>4
    <3>6. \A j \in 1 .. m + 1 : (IF more[j] = p THEN w ELSE ValueAt(e.heap)[more[j]]) =
                                (IF j = m + 1 THEN w ELSE f[j])
      <4> SUFFICES ASSUME NEW j \in 1 .. m + 1
                   PROVE  (IF more[j] = p THEN w ELSE ValueAt(e.heap)[more[j]]) =
                          (IF j = m + 1 THEN w ELSE f[j])
        OBVIOUS
      <4>1. CASE j = m + 1
        BY <2>5, <4>1
      <4>2. CASE j \in 1 .. m
        <5>1. j # m + 1
          BY <2>4, <4>2
        <5> QED
          BY <2>5, <2>6, <3>1, <4>2, <5>1
      <4> QED
        BY <3>5, <4>1, <4>2
    <3> QED
      BY <2>5, <3>2, <3>3, <3>4, <3>6
  <2> HIDE DEF b
  <2>9. \A w : Filled(e.heap, b, p, w) = Placed(d, w)
    BY <2>8
  <2> QED
    BY <1>1, <1>3, <1>4, <1>5, <2>2, <2>9 DEF b
<1>6. CASE d.refs # <<>> /\ ~IsArray(d)
  <2> DEFINE kids == d.heap[b][2]
  <2>1. e.heap = [d.heap EXCEPT ![p] = node] /\ p = d.element
    BY <1>1, <1>6 DEF Gets, Place
  <2>2. b \in 1 .. Len(d.heap) /\ d.heap[b][1] \in Container /\ b # p
    BY <1>1, <1>2, <1>6, LastRef
  <2>3. \E k \in DOMAIN kids : kids[k] = p
    BY <1>2, <1>6, <2>1, <2>2, ForestDescends DEF ElementIsIn
  <2>4. Len(e.heap) = Len(d.heap) /\ \A n \in 1 .. Len(d.heap) : n # p => e.heap[n] = d.heap[n]
    BY <1>2, <2>1, ExceptSeq DEF Bare
  <2>5. Local(d, e.heap, p)
    <3>1. \A i \in DOMAIN d.refs : i # Len(d.refs) => d.refs[i] # p /\ d.refs[i] \in 1 .. Len(d.heap)
      <4>1. b < p /\ b \in Nat
        BY <1>1, <1>6, <2>2
      <4>2. \A i \in DOMAIN d.refs : d.refs[i] \in 1 .. Len(d.heap) /\ d.refs[i] <= b
        BY <1>6, LastRef
      <4> QED
        BY <1>2, <4>1, <4>2
    <3> QED
      BY <1>2, <2>3, <2>4, <3>1 DEF Local, Untouched
  <2>6. \A k \in DOMAIN kids : kids[k] # p => ValueAt(e.heap)[kids[k]] = ValueAt(d.heap)[kids[k]]
    <3>1. PartsSame(d, e.heap, p)
      BY <1>2, <1>6, <2>5, LocalStep
    <3> QED
      BY <3>1 DEF PartsSame
  <2>7. ASSUME NEW w PROVE Filled(e.heap, b, p, w) = Placed(d, w)
    <3>1. e.heap[b] = d.heap[b]
      BY <2>2, <2>4
    <3>2. Placed(d, w) = [j \in DOMAIN kids |-> IF kids[j] = p THEN w ELSE ValueAt(d.heap)[kids[j]]]
      BY <1>6, <2>1 DEF Placed, Filled
    <3>3. Filled(e.heap, b, p, w) = [j \in DOMAIN kids |-> IF kids[j] = p THEN w ELSE ValueAt(e.heap)[kids[j]]]
      BY <3>1 DEF Filled
    <3> HIDE DEF kids
    <3>4. \A j \in DOMAIN kids : (IF kids[j] = p THEN w ELSE ValueAt(d.heap)[kids[j]]) =
                                 (IF kids[j] = p THEN w ELSE ValueAt(e.heap)[kids[j]])
      BY <2>6
    <3> QED
      BY <3>2, <3>3, <3>4
  <2> HIDE DEF b
  <2>8. \A w : Filled(e.heap, b, p, w) = Placed(d, w)
    BY <2>7
  <2> QED
    BY <1>1, <1>2, <1>3, <1>4, <1>6, <2>5, <2>8 DEF b
<1>7. CASE d.refs = <<>>
  <2>1. DOMAIN d.refs = {}
    BY <1>7
  <2>2. SameWay(d, e)
    BY <1>1, <2>1 DEF OuterSame, SameWay
  <2> QED
    BY <1>1, <1>3, <1>7, <2>2
<1> QED
  BY <1>5, <1>6, <1>7

\* key: what is in the object when the element has got its value.
LEMMA KeyPlaced ==
  ASSUME NEW d, DomInv(d), d.refs # <<>>, ~IsArray(d), NEW k \in Str, NEW e, e = Key(d, k)
  PROVE  /\ DomInv(e) /\ SameWay(d, e) /\ ~IsArray(e)
         /\ \A w : Placed(e, w) = Join("object", Inside(d), Item("object", k, w))
<1> DEFINE b == Last(d.refs)
           kids == d.heap[b][2]
           more == e.heap[b][2]
           x == Inside(d)
<1>1. /\ DomInv(e) /\ e.refs = d.refs
      /\ \A i \in DOMAIN d.refs : e.heap[d.refs[i]][1] = d.heap[d.refs[i]][1]
      /\ k \notin DOMAIN kids => e.element = Len(d.heap) + 1 /\ Gains(d.heap, e.heap, b, k)
  BY KeyKeeps
<1>2. /\ d.heap \in Seq(Node) /\ IsForest(d.heap) /\ e.heap \in Seq(Node) /\ IsForest(e.heap)
      /\ Len(d.heap) \in Nat /\ d \in [heap : Seq(Node), refs : Seq(Nat), element : Nat]
  BY <1>1 DEF DomInv
<1>3. b \in 1 .. Len(d.heap) /\ d.heap[b][1] \in Container
  BY LastRef
<1>4. ~IsArray(e)
  <2>1. e.heap[b][1] = d.heap[b][1]
    BY <1>1, LastRef
  <2> QED
    BY <1>1, <2>1 DEF IsArray
<1>5. x = [j \in DOMAIN kids |-> ValueAt(d.heap)[kids[j]]]
  BY <1>2, <1>3, FilledItself DEF Inside
<1>6. ASSUME NEW w
      PROVE  Join("object", x, Item("object", k, w)) =
               [j \in DOMAIN kids \cup {k} |-> IF j = k THEN w ELSE ValueAt(d.heap)[kids[j]]]
  <2> DEFINE y == [j \in {k} |-> w]
  <2>1. Join("object", x, y) = [j \in DOMAIN x \cup DOMAIN y |-> IF j \in DOMAIN y THEN y[j] ELSE x[j]]
    BY DEF Join
  <2>2. DOMAIN y = {k} /\ y[k] = w /\ DOMAIN x = DOMAIN kids
    BY <1>5
  <2>3. \A j \in DOMAIN kids : x[j] = ValueAt(d.heap)[kids[j]]
    BY <1>5
  <2>4. Item("object", k, w) = y
    BY DEF Item
  <2> HIDE DEF x, y, kids
  <2>5. \A j \in DOMAIN kids \cup {k} : (IF j \in DOMAIN y THEN y[j] ELSE x[j]) =
                                       (IF j = k THEN w ELSE ValueAt(d.heap)[kids[j]])
    BY <2>2, <2>3
  <2> QED
    BY <2>1, <2>2, <2>4, <2>5
<1>7. ASSUME NEW w
      PROVE  Placed(e, w) = [j \in DOMAIN more |-> IF more[j] = e.element THEN w ELSE ValueAt(e.heap)[more[j]]]
  BY <1>1, <1>4 DEF Placed, Filled
<1>8. CASE k \in DOMAIN kids
  <2>1. e = [d EXCEPT !.element = kids[k]]
    BY <1>8 DEF Key
  <2>2. e.heap = d.heap /\ e.element = kids[k]
    BY <1>2, <2>1
  <2>3. ASSUME NEW j \in DOMAIN kids PROVE kids[j] = kids[k] <=> j = k
    BY <1>2, <1>3, <1>8, <2>3, OnePlace
  <2>4. ASSUME NEW w PROVE Placed(e, w) = Join("object", x, Item("object", k, w))
    <3>1. DOMAIN kids \cup {k} = DOMAIN kids
      BY <1>8
    <3>2. more = kids
      BY <2>2
    <3> HIDE DEF kids, x, more
    <3> QED
      BY <1>6, <1>7, <2>2, <2>3, <3>1, <3>2
  <2>5. \A w : Placed(e, w) = Join("object", Inside(d), Item("object", k, w))
    BY <2>4
  <2> QED
    BY <1>1, <1>4, <2>2, <2>5 DEF OuterSame, SameWay
<1>9. CASE k \notin DOMAIN kids
  <2> DEFINE p == Len(d.heap) + 1
  <2>1. e.element = p /\ Gains(d.heap, e.heap, b, k)
    BY <1>1, <1>9
  <2>2. Local(d, e.heap, p) /\ p \in Nat
    BY <1>2, <2>1, GainsLocal
  <2>3. /\ DOMAIN more = DOMAIN kids \cup {k} /\ more[k] = p
        /\ \A j \in DOMAIN kids : more[j] = kids[j]
    BY <2>1 DEF Gains
  <2>4. \A j \in DOMAIN kids : kids[j] # p
    <3>1. \A j \in DOMAIN kids : kids[j] \in b + 1 .. Len(d.heap)
      BY <1>2, <1>3, ForestDescends DEF Descends
    <3> QED
      BY <1>2, <1>3, <3>1
  <2> HIDE DEF p
  <2>5. \A j \in DOMAIN kids : ValueAt(e.heap)[kids[j]] = ValueAt(d.heap)[kids[j]]
    <3>1. PartsSame(d, e.heap, p)
      BY <2>2, LocalStep
    <3> QED
      BY <2>4, <3>1 DEF PartsSame
  <2>6. OuterSame(d, e.heap)
    BY <2>2, LocalStep
  <2>7. ASSUME NEW w PROVE Placed(e, w) = Join("object", x, Item("object", k, w))
    <3> HIDE DEF kids, x, more
    <3>1. \A j \in DOMAIN kids \cup {k} :
            (IF more[j] = p THEN w ELSE ValueAt(e.heap)[more[j]]) =
            (IF j = k THEN w ELSE ValueAt(d.heap)[kids[j]])
      BY <1>9, <2>3, <2>4, <2>5
    <3> QED
      BY <1>6, <1>7, <2>1, <2>3, <3>1
  <2>8. \A w : Placed(e, w) = Join("object", Inside(d), Item("object", k, w))
    BY <2>7
  <2> QED
    BY <1>1, <1>4, <2>6, <2>8 DEF SameWay
<1> QED
  BY <1>8, <1>9

-----------------------------------------------------------------------------
(* What is to come, at each place in sax_parse_internal.                   *)

\* The i-th of the open containers: its type, and its content if the next one had the
\* value w.
TypeAt(d, i) == d.heap[d.refs[i]][1]
Around(d, i, w) == Filled(d.heap, d.refs[i], d.refs[i + 1], w)

\* With the text s a container with the content x gets the value v, and t comes after it.
Closes(W, c, x, s, v, t) == t \in Seq(Tok) /\ \E y : v = <<c, y>> /\ Finishes(W, c, x, s, y, t)
Link(W, d, i, w, s, v, t) == Closes(W, TypeAt(d, i), Around(d, i, w), s, v, t)

\* If the n-th container has the value w and s comes after it, the root gets the value V.
IsChain(W, d, n, u, a) == \A i \in 1 .. n - 1 : Link(W, d, i, u[i + 1], a[i + 1], u[i], a[i])
Chain(W, d, n, w, s, V) ==
  \E u, a : /\ u[n] = w /\ a[n] = s /\ u[1] = V /\ a[1] = <<"end">>
            /\ IsChain(W, d, n, u, a)

\* With one container left open, only the end of the input may follow it.
LEMMA ChainOne ==
  ASSUME NEW W, NEW d, NEW w, NEW s, NEW V
  PROVE  Chain(W, d, 1, w, s, V) <=> w = V /\ s = <<"end">>
<1>1. ASSUME w = V, s = <<"end">> PROVE Chain(W, d, 1, w, s, V)
  <2> DEFINE u == [i \in {1} |-> w]
             a == [i \in {1} |-> s]
  <2>1. u[1] = w /\ a[1] = s
    OBVIOUS
  <2> HIDE DEF u, a
  <2>2. IsChain(W, d, 1, u, a)
    BY DEF IsChain
  <2> QED
    BY <1>1, <2>1, <2>2 DEF Chain
<1> QED
  BY <1>1 DEF Chain

\* With more left open, the innermost is closed first and the rest go on.
LEMMA ChainMore ==
  ASSUME NEW W, NEW d, NEW n \in Nat \ {0}, NEW w, NEW s, NEW V
  PROVE  Chain(W, d, n + 1, w, s, V) <=> \E v, t : Link(W, d, n, w, s, v, t) /\ Chain(W, d, n, v, t, V)
<1>1. ASSUME Chain(W, d, n + 1, w, s, V)
      PROVE  \E v, t : Link(W, d, n, w, s, v, t) /\ Chain(W, d, n, v, t, V)
  <2>1. PICK u, a : /\ u[n + 1] = w /\ a[n + 1] = s /\ u[1] = V /\ a[1] = <<"end">>
                    /\ IsChain(W, d, n + 1, u, a)
    BY <1>1 DEF Chain
  <2>2. Link(W, d, n, w, s, u[n], a[n])
    BY <2>1 DEF IsChain
  <2>3. IsChain(W, d, n, u, a)
    BY <2>1 DEF IsChain
  <2>4. Chain(W, d, n, u[n], a[n], V)
    BY <2>1, <2>3 DEF Chain
  <2> QED
    BY <2>2, <2>4
<1>2. ASSUME NEW v, NEW t, Link(W, d, n, w, s, v, t), Chain(W, d, n, v, t, V)
      PROVE  Chain(W, d, n + 1, w, s, V)
  <2>1. PICK u, a : /\ u[n] = v /\ a[n] = t /\ u[1] = V /\ a[1] = <<"end">>
                    /\ IsChain(W, d, n, u, a)
    BY <1>2 DEF Chain
  <2> DEFINE m == n + 1
             f == [i \in 1 .. m |-> IF i = m THEN w ELSE u[i]]
             g == [i \in 1 .. m |-> IF i = m THEN s ELSE a[i]]
  <2>2. /\ f[m] = w /\ g[m] = s /\ \A i \in 1 .. n : f[i] = u[i] /\ g[i] = a[i]
    OBVIOUS
  <2>3. m = n + 1
    OBVIOUS
  <2> HIDE DEF f, g, m
  <2>4. IsChain(W, d, m, f, g)
    <3> SUFFICES ASSUME NEW i \in 1 .. n PROVE Link(W, d, i, f[i + 1], g[i + 1], f[i], g[i])
      BY <2>3 DEF IsChain
    <3>1. CASE i = n
      <4>1. f[i + 1] = w /\ g[i + 1] = s /\ f[i] = v /\ g[i] = t
        BY <2>1, <2>2, <2>3, <3>1
      <4> QED
        BY <1>2, <3>1, <4>1
    <3>2. CASE i # n
      <4>1. i \in 1 .. n - 1 /\ i + 1 \in 1 .. n
        BY <3>2
      <4>2. Link(W, d, i, u[i + 1], a[i + 1], u[i], a[i])
        BY <2>1, <4>1 DEF IsChain
      <4> QED
        BY <2>2, <4>1, <4>2
    <3> QED
      BY <3>1, <3>2
  <2>5. f[1] = V /\ g[1] = <<"end">>
    BY <2>1, <2>2
  <2> QED
    BY <2>2, <2>3, <2>4, <2>5 DEF Chain
<1> QED
  BY <1>1, <1>2

\* The chain depends on the open containers only, not on the rest of the heap.
LEMMA ChainSame ==
  ASSUME NEW W, NEW d, NEW e, NEW n,
         \A i \in 1 .. n - 1 : TypeAt(e, i) = TypeAt(d, i) /\ \A w : Around(e, i, w) = Around(d, i, w),
         NEW w, NEW s, NEW V
  PROVE  Chain(W, e, n, w, s, V) <=> Chain(W, d, n, w, s, V)
<1>1. ASSUME NEW i \in 1 .. n - 1
      PROVE  \A x, r, v, t : Link(W, e, i, x, r, v, t) <=> Link(W, d, i, x, r, v, t)
  BY DEF Link
<1>2. \A u, a : IsChain(W, e, n, u, a) <=> IsChain(W, d, n, u, a)
  BY <1>1 DEF IsChain
<1> QED
  BY <1>2 DEF Chain

\* The last container has the content x and r comes next; or a value and r after it;
\* or r starts with a further element.
Open(d) == TypeAt(d, Len(d.refs))
After(W, d, x, r, V) ==
  \E v, t : Closes(W, Open(d), x, r, v, t) /\ Chain(W, d, Len(d.refs), v, t, V)
Ended(W, d, x, r, V) == r \in Seq(Tok) /\ Chain(W, d, Len(d.refs), <<Open(d), x>>, r, V)
More(W, d, x, r, V) ==
  \E y, s : s \in Seq(Tok) /\ Continues(W, Open(d), x, r, y, s) /\ Ended(W, d, y, s, V)

\* After an item: the closing bracket of the container, or a comma and one more item.
LEMMA AfterForm ==
  ASSUME NEW W, NEW d, NEW x, NEW r, NEW V
  PROVE  /\ After(W, d, x, r, V) <=>
              \/ \E s \in Seq(Tok) : r = <<CloseOf(Open(d))>> \o s /\ Ended(W, d, x, s, V)
              \/ \E q \in Seq(Tok) : r = <<Comma>> \o q /\ More(W, d, x, q, V)
         /\ After(W, d, x, r, V) <=>
              \E y, s : Finishes(W, Open(d), x, r, y, s) /\ Ended(W, d, y, s, V)
<1>1. After(W, d, x, r, V) <=> \E y, s : Finishes(W, Open(d), x, r, y, s) /\ Ended(W, d, y, s, V)
  BY DEF After, Closes, Ended
<1>2. ASSUME NEW y, NEW s, Finishes(W, Open(d), x, r, y, s), Ended(W, d, y, s, V)
      PROVE  \/ \E z \in Seq(Tok) : r = <<CloseOf(Open(d))>> \o z /\ Ended(W, d, x, z, V)
             \/ \E q \in Seq(Tok) : r = <<Comma>> \o q /\ More(W, d, x, q, V)
  <2>1. s \in Seq(Tok)
    BY <1>2 DEF Ended
  <2>2. CASE r = <<CloseOf(Open(d))>> \o s /\ y = x
    BY <1>2, <2>1, <2>2
  <2>3. CASE \E q \in Seq(Tok) : r = <<Comma>> \o q /\ Continues(W, Open(d), x, q, y, s)
    BY <1>2, <2>1, <2>3 DEF More
  <2> QED
    BY <1>2, <2>2, <2>3 DEF Finishes
<1>3. ASSUME NEW s \in Seq(Tok), r = <<CloseOf(Open(d))>> \o s, Ended(W, d, x, s, V)
      PROVE  \E y, z : Finishes(W, Open(d), x, r, y, z) /\ Ended(W, d, y, z, V)
  BY <1>3 DEF Finishes
<1>4. ASSUME NEW q \in Seq(Tok), r = <<Comma>> \o q, More(W, d, x, q, V)
      PROVE  \E y, z : Finishes(W, Open(d), x, r, y, z) /\ Ended(W, d, y, z, V)
  <2>1. PICK y, s : s \in Seq(Tok) /\ Continues(W, Open(d), x, q, y, s) /\ Ended(W, d, y, s, V)
    BY <1>4 DEF More
  <2>2. Finishes(W, Open(d), x, r, y, s)
    BY <1>4, <2>1 DEF Finishes
  <2> QED
    BY <2>1, <2>2
<1> QED
  BY <1>1, <1>2, <1>3, <1>4

\* A further element, and what comes after it.
LEMMA MoreForm ==
  ASSUME NEW W \in SUBSET Str, NEW d, Open(d) \in Container, NEW x, IsContent(Open(d), x),
         NEW q \in Seq(Tok), NEW V
  PROVE  More(W, d, x, q, V) <=>
           \E k \in Keys(W, Open(d)), p \in Seq(Tok), r \in Seq(Tok) : \E v :
             /\ q = Led(Open(d), k, p) /\ Reads(W, p, v, r)
             /\ After(W, d, Join(Open(d), x, Item(Open(d), k, v)), r, V)
<1> DEFINE c == Open(d)
           N(k, p, r, v, y, s) == /\ q = Led(c, k, p) /\ Reads(W, p, v, r)
                                  /\ Finishes(W, c, Join(c, x, Item(c, k, v)), r, y, s)
<1>1. \A y, s : s \in Seq(Tok) =>
        (Continues(W, c, x, q, y, s) <=>
           \E k \in Keys(W, c), p \in Seq(Tok), r \in Seq(Tok) : \E v : N(k, p, r, v, y, s))
  <2> SUFFICES ASSUME NEW y, NEW s \in Seq(Tok)
               PROVE Continues(W, c, x, q, y, s) <=>
                 \E k \in Keys(W, c), p \in Seq(Tok), r \in Seq(Tok) : \E v : N(k, p, r, v, y, s)
    OBVIOUS
  <2>0. c \in Container /\ IsContent(c, x)
    OBVIOUS
  <2> HIDE DEF c
  <2> QED
    BY <2>0, NextElement
<1>2. \A z, r : After(W, d, z, r, V) <=> \E y, s : Finishes(W, c, z, r, y, s) /\ Ended(W, d, y, s, V)
  BY AfterForm
<1>3. \A y, s : Ended(W, d, y, s, V) => s \in Seq(Tok)
  BY DEF Ended
<1> HIDE DEF c
<1>4. ASSUME More(W, d, x, q, V)
      PROVE  \E k \in Keys(W, c), p \in Seq(Tok), r \in Seq(Tok) : \E v :
             /\ q = Led(c, k, p) /\ Reads(W, p, v, r)
             /\ After(W, d, Join(c, x, Item(c, k, v)), r, V)
  <2>1. PICK y, s : s \in Seq(Tok) /\ Continues(W, c, x, q, y, s) /\ Ended(W, d, y, s, V)
    BY <1>4 DEF More, c
  <2>2. PICK k \in Keys(W, c), p \in Seq(Tok), r \in Seq(Tok) : \E v : N(k, p, r, v, y, s)
    BY <1>1, <2>1
  <2>3. PICK v : N(k, p, r, v, y, s)
    BY <2>2
  <2>4. After(W, d, Join(c, x, Item(c, k, v)), r, V)
    BY <1>2, <2>1, <2>3
  <2> QED
    BY <2>3, <2>4
<1>5. ASSUME NEW k \in Keys(W, c), NEW p \in Seq(Tok), NEW r \in Seq(Tok), NEW v,
             q = Led(c, k, p), Reads(W, p, v, r),
             After(W, d, Join(c, x, Item(c, k, v)), r, V)
      PROVE  More(W, d, x, q, V)
  <2>1. PICK y, s : Finishes(W, c, Join(c, x, Item(c, k, v)), r, y, s) /\ Ended(W, d, y, s, V)
    BY <1>2, <1>5
  <2>2. N(k, p, r, v, y, s)
    BY <1>5, <2>1
  <2> HIDE DEF N
  <2>3. s \in Seq(Tok) /\ Continues(W, c, x, q, y, s)
    BY <1>1, <1>3, <2>1, <2>2
  <2> QED
    BY <2>1, <2>3 DEF More, c
<1>6. More(W, d, x, q, V) <=>
        \E k \in Keys(W, c), p \in Seq(Tok), r \in Seq(Tok) : \E v :
             /\ q = Led(c, k, p) /\ Reads(W, p, v, r)
             /\ After(W, d, Join(c, x, Item(c, k, v)), r, V)
  BY <1>4, <1>5
<1> QED
  BY <1>6 DEF c

\* A value w goes to its place and s comes after it; a value comes next; the last
\* container has begun; a value has got its place.
Into(W, d, w, s, V) ==
  IF d.refs = <<>> THEN w = V /\ s = <<"end">> ELSE After(W, d, Placed(d, w), s, V)
Wants(W, d, r, V) == \E w, s : s \in Seq(Tok) /\ Reads(W, r, w, s) /\ Into(W, d, w, s, V)
Begins(W, d, r, V) ==
  \/ \E s \in Seq(Tok) : r = <<CloseOf(Open(d))>> \o s /\ Ended(W, d, Inside(d), s, V)
  \/ More(W, d, Inside(d), r, V)
Goes(W, d, r, V) ==
  IF d.refs = <<>> THEN V = ValueAt(d.heap)[1] /\ r = <<"end">>
  ELSE After(W, d, Inside(d), r, V)

\* The innermost open container: its type, its content and its value.
LEMMA LastOpen ==
  ASSUME NEW d, DomInv(d), d.refs # <<>>
  PROVE  /\ Open(d) \in Container /\ (IsArray(d) <=> Open(d) = "array")
         /\ (~IsArray(d) <=> Open(d) = "object")
         /\ IsContent(Open(d), Inside(d))
         /\ ValueAt(d.heap)[Last(d.refs)] = <<Open(d), Inside(d)>>
         /\ Last(d.refs) = d.refs[Len(d.refs)] /\ Len(d.refs) \in DOMAIN d.refs
         /\ Last(d.refs) \in 1 .. Len(d.heap)
<1> DEFINE heap == d.heap
           b == Last(d.refs)
           kids == heap[b][2]
           x == Inside(d)
<1>1. heap \in Seq(Node) /\ IsForest(heap)
  BY DEF DomInv
<1>2. /\ b \in 1 .. Len(heap) /\ heap[b][1] \in Container /\ b = d.refs[Len(d.refs)]
      /\ Len(d.refs) \in DOMAIN d.refs
  BY LastRef
<1>3. Open(d) = heap[b][1]
  BY <1>2 DEF Open, TypeAt
<1>4. Open(d) \in Container /\ (IsArray(d) <=> Open(d) = "array") /\ (~IsArray(d) <=> Open(d) = "object")
  BY <1>2, <1>3 DEF IsArray, Container
<1>5. /\ x = [j \in DOMAIN kids |-> ValueAt(heap)[kids[j]]]
      /\ ValueAt(heap)[b] = <<heap[b][1], x>>
  BY <1>1, <1>2, FilledItself DEF Inside
<1>6. IsContent(Open(d), x)
  <2>1. CASE Open(d) = "object"
    BY <1>5, <2>1 DEF IsContent
  <2>2. CASE Open(d) # "object"
    <3>1. kids \in Seq(Nat)
      BY <1>1, <1>2, <1>3, <1>4, <2>2, Nodes
    <3> DEFINE S == {ValueAt(heap)[kids[j]] : j \in DOMAIN kids}
               m == Len(kids)
    <3>2. m \in Nat /\ DOMAIN kids = 1 .. m
      BY <3>1
    <3>3. x \in [DOMAIN kids -> S]
      BY <1>5
    <3> HIDE DEF m, S, x, kids
    <3>4. x \in [1 .. m -> S]
      BY <3>2, <3>3
    <3>5. x \in Seq(S)
      BY <3>2, <3>4
    <3> QED
      BY <2>2, <3>5 DEF IsContent
  <2> QED
    BY <2>1, <2>2
<1> QED
  BY <1>2, <1>3, <1>4, <1>5, <1>6

\* What is to come is then the same too.
LEMMA AfterSame ==
  ASSUME NEW W, NEW d, DomInv(d), d.refs # <<>>, NEW e, SameWay(d, e)
  PROVE  /\ Open(e) = Open(d) /\ Last(e.refs) = Last(d.refs)
         /\ \A w, s, V : Chain(W, e, Len(d.refs), w, s, V) <=> Chain(W, d, Len(d.refs), w, s, V)
         /\ \A x, r, V : After(W, e, x, r, V) <=> After(W, d, x, r, V)
<1> DEFINE N == Len(d.refs)
<1>1. /\ d.refs \in Seq(Nat) /\ N \in Nat /\ DOMAIN d.refs = 1 .. N /\ N \in DOMAIN d.refs
      /\ e.refs = d.refs /\ \A i \in DOMAIN d.refs : e.heap[d.refs[i]][1] = d.heap[d.refs[i]][1]
  BY LastOpen DEF DomInv, OuterSame, SameWay
<1>2. Open(e) = Open(d) /\ Last(e.refs) = Last(d.refs)
  BY <1>1 DEF Open, TypeAt
<1>3. ASSUME NEW i \in 1 .. N - 1
      PROVE  TypeAt(e, i) = TypeAt(d, i) /\ \A w : Around(e, i, w) = Around(d, i, w)
  <2>1. i \in DOMAIN d.refs /\ i # N
    BY <1>1
  <2> QED
    BY <1>1, <2>1 DEF TypeAt, Around, OuterSame, SameWay
<1>4. \A w, s, V : Chain(W, e, N, w, s, V) <=> Chain(W, d, N, w, s, V)
  <2> HIDE DEF N
  <2> QED
    BY <1>3, ChainSame
<1>5. \A x, r, V : After(W, e, x, r, V) <=> After(W, d, x, r, V)
  <2>1. Len(e.refs) = N
    BY <1>1
  <2>2. \A x, r, V : After(W, e, x, r, V) <=>
          \E v, t : Closes(W, Open(d), x, r, v, t) /\ Chain(W, e, N, v, t, V)
    BY <1>2, <2>1 DEF After
  <2> HIDE DEF N
  <2>3. \A x, r, V : After(W, e, x, r, V) <=>
          \E v, t : Closes(W, Open(d), x, r, v, t) /\ Chain(W, d, N, v, t, V)
    BY <1>4, <2>2
  <2> QED
    BY <2>3 DEF After, N
<1> QED
  BY <1>2, <1>4, <1>5

\* handle_value of a leaf: what goes on with the text goes on after the leaf.
LEMMA LeafStep ==
  ASSUME NEW W \in SUBSET Str, NEW d, DomInv(d), d.refs # <<>> /\ ~IsArray(d) => ElementIsIn(d),
         NEW t \in W \cup {"null", "number"}, NEW r \in Seq(Tok), NEW V
  PROVE  Wants(W, d, <<t>> \o r, V) <=> Goes(W, HandleValue(d, Leaf(t)), r, V)
<1> DEFINE e == HandleValue(d, Leaf(t))
           p == Place(d)
           w == Leaf(t)
<1>1. Wants(W, d, <<t>> \o r, V) <=> Into(W, d, w, r, V)
  <2>1. \A v, s : s \in Seq(Tok) => (Reads(W, <<t>> \o r, v, s) <=> v = w /\ s = r)
    BY LeafRead
  <2> HIDE DEF w
  <2> QED
    BY <2>1 DEF Wants
<1>2. Bare(w)
  BY BareNodes DEF Scalar
<1>3. /\ SameWay(d, e) /\ ValueAt(e.heap)[p] = w /\ (d.refs = <<>> => p = 1)
      /\ d.refs # <<>> => Inside(e) = Placed(d, w)
  <2>1. e = HandleValue(d, w) /\ p = Place(d)
    OBVIOUS
  <2> HIDE DEF e, p, w
  <2> QED
    BY <1>2, <2>1, ValuePlaced
<1> HIDE DEF e, p, w
<1>4. Into(W, d, w, r, V) <=> Goes(W, e, r, V)
  <2>1. CASE d.refs = <<>>
    BY <1>3, <2>1 DEF Into, Goes, OuterSame, SameWay
  <2>2. CASE d.refs # <<>>
    <3>1. \A x : After(W, e, x, r, V) <=> After(W, d, x, r, V)
      BY <1>3, <2>2, AfterSame
    <3> QED
      BY <1>3, <2>2, <3>1 DEF Into, Goes, OuterSame, SameWay
  <2> QED
    BY <2>1, <2>2
<1> QED
  BY <1>1, <1>4 DEF e, w

\* start_object and start_array: what goes on is what the new container starts with.
LEMMA OpenStep ==
  ASSUME NEW W \in SUBSET Str, NEW d, DomInv(d), d.refs # <<>> /\ ~IsArray(d) => ElementIsIn(d),
         NEW c \in Container, NEW r \in Seq(Tok), NEW V
  PROVE  Wants(W, d, <<OpenOf(c)>> \o r, V) <=> Begins(W, StartContainer(d, c), r, V)
<1> DEFINE e == StartContainer(d, c)
           h == HandleValue(d, <<c, <<>> >>)
           p == Place(d)
           N == Len(d.refs)
           M == N + 1
           node == <<c, <<>> >>
<1>1. Bare(node) /\ node[1] = c /\ node[2] = <<>>
  BY BareNodes
<1>2. /\ DomInv(h) /\ SameWay(d, h) /\ h.refs = d.refs
      /\ p \in 1 .. Len(h.heap) /\ h.heap[p] = node /\ ValueAt(h.heap)[p] = node
      /\ \A w : d.refs # <<>> => Filled(h.heap, Last(d.refs), p, w) = Placed(d, w)
  <2>1. h = HandleValue(d, node) /\ p = Place(d)
    OBVIOUS
  <2> HIDE DEF h, p, node
  <2>2. /\ DomInv(h) /\ SameWay(d, h) /\ p \in 1 .. Len(h.heap) /\ h.heap[p] = node
        /\ ValueAt(h.heap)[p] = node
        /\ \A w : d.refs # <<>> => Filled(h.heap, Last(d.refs), p, w) = Placed(d, w)
    BY <1>1, <2>1, ValuePlaced
  <2> QED
    BY <2>2 DEF SameWay
<1>3. e = [h EXCEPT !.refs = Append(h.refs, p)]
  BY DEF StartContainer
<1> HIDE DEF h, p, node, e
<1>4. /\ h \in [heap : Seq(Node), refs : Seq(Nat), element : Nat] /\ d.refs \in Seq(Nat)
      /\ Len(h.heap) \in Nat /\ p \in Nat
  BY <1>2 DEF DomInv
<1>5. /\ e.heap = h.heap /\ e.refs = Append(d.refs, p) /\ Len(e.refs) = M /\ N \in Nat
      /\ e.refs[M] = p /\ \A i \in 1 .. N : e.refs[i] = d.refs[i]
      /\ e.refs # <<>>
  <2>1. e.heap = h.heap /\ e.refs = Append(d.refs, p)
    BY <1>2, <1>3, <1>4
  <2>2. /\ Append(d.refs, p) \in Seq(Nat) /\ Len(Append(d.refs, p)) = M /\ N \in Nat
        /\ Append(d.refs, p)[M] = p /\ \A i \in 1 .. N : Append(d.refs, p)[i] = d.refs[i]
    BY <1>4, AppendProperties
  <2>3. M # 0
    BY <1>4
  <2> DEFINE l == Append(d.refs, p)
  <2> HIDE DEF M, N, l
  <2>4. e.refs = l /\ l # <<>>
    BY <2>1, <2>2, <2>3 DEF l
  <2> QED
    BY <2>1, <2>2, <2>4 DEF l
<1>6. Last(e.refs) = p /\ Open(e) = c /\ Inside(e) = <<>>
  <2>1. Last(e.refs) = p
    BY <1>5 DEF Last
  <2> HIDE DEF M
  <2> QED
    BY <1>1, <1>2, <1>5, <2>1 DEF Open, TypeAt, Inside
<1>7. ASSUME NEW w, NEW s \in Seq(Tok)
      PROVE  Chain(W, e, M, w, s, V) <=> Into(W, d, w, s, V)
  <2>1. CASE d.refs = <<>>
    <3>1. M = 1
      BY <2>1
    <3> HIDE DEF M
    <3>2. Chain(W, e, 1, w, s, V) <=> w = V /\ s = <<"end">>
      BY ChainOne
    <3> QED
      BY <2>1, <3>1, <3>2 DEF Into
  <2>2. CASE d.refs # <<>>
    <3>1. N \in Nat \ {0}
      BY <1>4, <2>2
    <3>2. Chain(W, e, M, w, s, V) <=> \E v, t : Link(W, e, N, w, s, v, t) /\ Chain(W, e, N, v, t, V)
      BY <3>1, ChainMore
    <3>3. e.refs[N] = d.refs[N] /\ e.refs[N + 1] = p /\ Last(d.refs) = d.refs[N] /\ N \in DOMAIN d.refs
      BY <1>5, <2>2, <3>1, LastOpen
    <3>4. Around(e, N, w) = Placed(d, w) /\ TypeAt(e, N) = Open(d)
      BY <1>2, <1>5, <2>2, <3>3 DEF Around, TypeAt, Open, OuterSame, SameWay
    <3>5. \A v, t : Chain(W, e, N, v, t, V) <=> Chain(W, d, N, v, t, V)
      <4>1. ASSUME NEW i \in 1 .. N - 1
            PROVE  TypeAt(e, i) = TypeAt(d, i) /\ \A v : Around(e, i, v) = Around(d, i, v)
        <5>0. d.refs \in Seq(Nat) /\ DOMAIN d.refs = 1 .. N /\ N \in Nat
          BY <1>4
        <5> HIDE DEF N
        <5>1. i \in 1 .. N /\ i + 1 \in 1 .. N /\ i # N /\ i \in DOMAIN d.refs
          BY <5>0
        <5>2. e.refs[i] = d.refs[i] /\ e.refs[i + 1] = d.refs[i + 1]
          BY <1>5, <5>1
        <5>3. TypeAt(e, i) = TypeAt(d, i)
          BY <1>2, <1>5, <5>1, <5>2 DEF TypeAt, OuterSame, SameWay
        <5>4. \A v : Around(e, i, v) = Around(d, i, v)
          <6>1. i \in DOMAIN d.refs /\ i # Len(d.refs) /\ e.heap = h.heap
            BY <1>5, <5>1 DEF N
          <6>2. \A v : Filled(h.heap, d.refs[i], d.refs[i + 1], v) = Filled(d.heap, d.refs[i], d.refs[i + 1], v)
            BY <1>2, <2>2, <6>1 DEF OuterSame, SameWay
          <6> QED
            BY <5>2, <6>1, <6>2 DEF Around
        <5> QED
          BY <5>3, <5>4
      <4> HIDE DEF N
      <4> QED
        BY <4>1, ChainSame
    <3>6. \A v, t : Link(W, e, N, w, s, v, t) <=> Closes(W, Open(d), Placed(d, w), s, v, t)
      BY <3>4 DEF Link
    <3>7. Chain(W, e, M, w, s, V) <=> After(W, d, Placed(d, w), s, V)
      BY <3>2, <3>5, <3>6 DEF After
    <3> QED
      BY <2>2, <3>7 DEF Into
  <2> QED
    BY <2>1, <2>2
<1>8. \A v, s : s \in Seq(Tok) =>
        (Reads(W, <<OpenOf(c)>> \o r, v, s) <=> \E y : v = <<c, y>> /\ Opens(W, c, r, y, s))
  BY StartRead
<1>9. \A y, s : Ended(W, e, y, s, V) <=> s \in Seq(Tok) /\ Into(W, d, <<c, y>>, s, V)
  BY <1>5, <1>6, <1>7 DEF Ended
<1>10. Wants(W, d, <<OpenOf(c)>> \o r, V) <=>
         \E y, s : Opens(W, c, r, y, s) /\ Ended(W, e, y, s, V)
  <2>1. ASSUME NEW w, NEW s, s \in Seq(Tok), Reads(W, <<OpenOf(c)>> \o r, w, s), Into(W, d, w, s, V)
        PROVE  \E y : Opens(W, c, r, y, s) /\ Ended(W, e, y, s, V)
    BY <1>8, <1>9, <2>1
  <2>2. ASSUME NEW y, NEW s, Opens(W, c, r, y, s), Ended(W, e, y, s, V)
        PROVE  \E w : s \in Seq(Tok) /\ Reads(W, <<OpenOf(c)>> \o r, w, s) /\ Into(W, d, w, s, V)
    BY <1>8, <1>9, <2>2
  <2> QED
    BY <2>1, <2>2 DEF Wants
<1>11. Begins(W, e, r, V) <=> \E y, s : Opens(W, c, r, y, s) /\ Ended(W, e, y, s, V)
  <2>1. \A y, s : Ended(W, e, y, s, V) => s \in Seq(Tok)
    BY <1>9
  <2> QED
    BY <1>6, <2>1 DEF Begins, Opens, More
<1> QED
  BY <1>10, <1>11 DEF e

\* No other token can start the value that is due.
LEMMA OtherStep ==
  ASSUME NEW W \in SUBSET Str, NEW d, NEW t \in Tok, t \notin W \cup {"null", "number"},
         \A c \in Container : t # OpenOf(c), NEW r \in Seq(Tok), NEW V
  PROVE  ~Wants(W, d, <<t>> \o r, V)
BY OtherRead DEF Wants

\* A token, or two, and a text after it.
Lead(t, r) == <<t>> \o r

\* Two texts are equal when their first tokens and the rest are.
LEMMA Splits == \A a, b \in Tok, s, u \in Seq(Tok) : Lead(a, s) = Lead(b, u) <=> a = b /\ s = u
<1>1. ASSUME NEW a \in Tok, NEW b \in Tok, NEW s \in Seq(Tok), NEW u \in Seq(Tok)
      PROVE  <<a>> \o s = <<b>> \o u <=> a = b /\ s = u
  BY FirstOf
<1> QED
  BY <1>1 DEF Lead

\* The first two tokens of a text, one at a time.
LEMMA SplitsTwo ==
  \A a, b \in Tok, s \in Seq(Tok) :
    <<a, b>> \o s = <<a>> \o (<<b>> \o s) /\ <<b>> \o s \in Seq(Tok)
<1>1. ASSUME NEW a \in Tok, NEW b \in Tok, NEW s \in Seq(Tok)
      PROVE  <<a, b>> \o s = <<a>> \o (<<b>> \o s) /\ <<b>> \o s \in Seq(Tok)
  BY FirstTwo
<1> QED
  BY <1>1

\* The last container ends.
LEMMA EndStep ==
  ASSUME NEW W \in SUBSET Str, NEW d, DomInv(d), d.refs # <<>>, NEW r \in Seq(Tok), NEW V
  PROVE  Ended(W, d, Inside(d), r, V) <=> Goes(W, End(d), r, V)
<1> DEFINE e == End(d)
           N == Len(d.refs)
           M == N - 1
           v == ValueAt(d.heap)[Last(d.refs)]
<1>1. /\ v = <<Open(d), Inside(d)>> /\ Last(d.refs) = d.refs[N] /\ N \in DOMAIN d.refs
      /\ d.refs \in Seq(Nat) /\ N \in Nat /\ N >= 1
  <2>1. d.refs \in Seq(Nat)
    BY DEF DomInv
  <2>2. /\ v = <<Open(d), Inside(d)>> /\ Last(d.refs) = d.refs[N] /\ N \in DOMAIN d.refs
    BY LastOpen
  <2> HIDE DEF v
  <2>3. N \in Nat /\ N >= 1
    BY <2>1, <2>2
  <2> QED
    BY <2>1, <2>2, <2>3
<1>2. Ended(W, d, Inside(d), r, V) <=> Chain(W, d, N, v, r, V)
  BY <1>1 DEF Ended
<1>3. /\ DomInv(e) /\ e.heap = d.heap /\ e.refs \in Seq(Nat) /\ Len(e.refs) = M
      /\ \A i \in DOMAIN e.refs : i \in DOMAIN d.refs /\ e.refs[i] = d.refs[i]
  BY EndKeeps
<1> HIDE DEF e, v
<1>4. CASE N = 1
  <2>1. e.refs = <<>> /\ Last(d.refs) = 1
    <3>1. Last(d.refs) = 1
      BY <1>1, <1>4, OnTheWay
    <3> QED
      BY <1>3, <1>4, <3>1
  <2>2. Chain(W, d, 1, v, r, V) <=> v = V /\ r = <<"end">>
    BY ChainOne
  <2>3. Goes(W, e, r, V) <=> V = v /\ r = <<"end">>
    BY <1>3, <2>1 DEF Goes, v
  <2> HIDE DEF N
  <2> QED
    BY <1>2, <1>4, <2>2, <2>3 DEF e
<1>5. CASE N # 1
  <2>0. M \in Nat \ {0} /\ M + 1 = N
    BY <1>1, <1>5
  <2>1. e.refs # <<>> /\ DOMAIN e.refs = 1 .. M
    <3>1. DOMAIN e.refs = 1 .. M
      <4> HIDE DEF M
      <4> QED
        BY <1>3
    <3> HIDE DEF M
    <3>2. M \in 1 .. M
      BY <2>0
    <3> QED
      BY <3>1, <3>2
  <2>2. Open(e) = TypeAt(d, M) /\ Last(e.refs) = d.refs[M] /\ M \in DOMAIN d.refs
    <3>1. M \in DOMAIN e.refs
      BY <2>0, <2>1
    <3>2. Last(e.refs) = e.refs[M]
      BY <1>3 DEF Last
    <3> HIDE DEF M
    <3> QED
      BY <1>3, <3>1, <3>2 DEF Open, TypeAt
  <2>3. Around(d, M, v) = Inside(e)
    <3> DEFINE q == d.refs[M]
    <3>1. q \in 1 .. Len(d.heap) /\ d.heap[q][1] \in Container
      BY <2>2, OnTheWay
    <3>2. d.heap \in Seq(Node) /\ IsForest(d.heap)
      BY DEF DomInv
    <3>3. Filled(d.heap, q, Last(d.refs), ValueAt(d.heap)[Last(d.refs)]) = ValueAt(d.heap)[q][2]
      <4> HIDE DEF q
      <4> QED
        BY <3>1, <3>2, FilledItself
    <3>4. Inside(e) = ValueAt(d.heap)[q][2]
      BY <1>3, <2>2 DEF Inside
    <3>5. d.refs[M + 1] = Last(d.refs)
      BY <1>1, <2>0
    <3> HIDE DEF M
    <3> QED
      BY <3>3, <3>4, <3>5 DEF Around, v
  <2> HIDE DEF M
  <2>4. Chain(W, d, M + 1, v, r, V) <=> \E w, t : Link(W, d, M, v, r, w, t) /\ Chain(W, d, M, w, t, V)
    BY <2>0, ChainMore
  <2>5. \A w, t : Chain(W, e, M, w, t, V) <=> Chain(W, d, M, w, t, V)
    <3>1. ASSUME NEW i \in 1 .. M - 1
          PROVE  TypeAt(e, i) = TypeAt(d, i) /\ \A w : Around(e, i, w) = Around(d, i, w)
      <4>1. i \in 1 .. M /\ i + 1 \in 1 .. M
        BY <2>0
      <4>2. e.refs[i] = d.refs[i] /\ e.refs[i + 1] = d.refs[i + 1]
        BY <1>3, <2>1, <4>1
      <4> QED
        BY <1>3, <4>2 DEF TypeAt, Around
    <3> QED
      BY <3>1, ChainSame
  <2>6. Goes(W, e, r, V) <=> \E w, t : Closes(W, TypeAt(d, M), Around(d, M, v), r, w, t) /\ Chain(W, e, M, w, t, V)
    BY <1>3, <2>1, <2>2, <2>3 DEF Goes, After
  <2>7. Goes(W, e, r, V) <=> \E w, t : Link(W, d, M, v, r, w, t) /\ Chain(W, d, M, w, t, V)
    BY <2>5, <2>6 DEF Link
  <2> HIDE DEF N
  <2> QED
    BY <1>2, <2>0, <2>4, <2>7 DEF e
<1> QED
  BY <1>4, <1>5

\* An element starts with a key, or as a value does.
LEMMA NoElement ==
  ASSUME NEW W \in SUBSET Str, NEW d, DomInv(d), d.refs # <<>>,
         NEW t \in Tok, t \notin W, NEW r \in Seq(Tok), NEW V,
         Open(d) = "array" =>
           t \notin {"null", "number"} /\ \A c \in Container : t # OpenOf(c)
  PROVE  ~More(W, d, Inside(d), <<t>> \o r, V)
<1> DEFINE c == Open(d)
           q == <<t>> \o r
<1>1. c \in Container /\ IsContent(c, Inside(d))
  BY LastOpen
<1>2. q \in Seq(Tok)
  BY OneToken, Concat
<1> SUFFICES ASSUME More(W, d, Inside(d), q, V) PROVE FALSE
  OBVIOUS
<1> HIDE DEF q
<1>3. PICK k \in Keys(W, c), p \in Seq(Tok), s \in Seq(Tok) : \E v :
             /\ q = Led(c, k, p) /\ Reads(W, p, v, s)
             /\ After(W, d, Join(c, Inside(d), Item(c, k, v)), s, V)
  BY <1>1, <1>2, MoreForm
<1>4. PICK v : q = Led(c, k, p) /\ Reads(W, p, v, s)
  BY <1>3
<1>5. CASE c = "object"
  <2>1. k \in W /\ k \in Tok /\ ":" \in Tok
    BY <1>5, Marks DEF Keys
  <2>2. q = <<k>> \o (<<":">> \o p) /\ <<":">> \o p \in Seq(Tok)
    <3>1. q = <<k, ":">> \o p
      BY <1>4, <1>5 DEF Led
    <3> QED
      BY <2>1, <3>1, SplitsTwo
  <2>3. t = k
    <3> DEFINE z == <<":">> \o p
    <3>1. z \in Seq(Tok) /\ Lead(t, r) = Lead(k, z)
      BY <2>2 DEF q, Lead
    <3> HIDE DEF z
    <3> QED
      BY <2>1, <3>1, Splits
  <2> QED
    BY <2>1, <2>3
<1>6. CASE c # "object"
  <2>1. q = p /\ c = "array"
    BY <1>1, <1>4, <1>6 DEF Led, Container
  <2>2. ~Reads(W, <<t>> \o r, v, s)
    BY <2>1, OtherRead
  <2> QED
    BY <1>4, <2>1, <2>2 DEF q
<1> QED
  BY <1>5, <1>6

\* The closing token; the comma; and any other after a value.
LEMMA CloseStep ==
  ASSUME NEW W \in SUBSET Str, NEW d, DomInv(d), d.refs # <<>>, NEW r \in Seq(Tok), NEW V
  PROVE  /\ Begins(W, d, <<CloseOf(Open(d))>> \o r, V) <=> Goes(W, End(d), r, V)
         /\ Goes(W, d, <<CloseOf(Open(d))>> \o r, V) <=> Goes(W, End(d), r, V)
<1> DEFINE x == Inside(d)
           t == CloseOf(Open(d))
           q == <<t>> \o r
<1>1. /\ Open(d) \in Container /\ t \in Tok /\ t # Comma /\ Comma \in Tok
      /\ t \notin W /\ t \notin {"null", "number"} /\ \A c \in Container : t # OpenOf(c)
  BY LastOpen, Marks
<1> HIDE DEF t
<1>2. ~More(W, d, x, q, V)
  BY <1>1, NoElement
<1>3. Ended(W, d, x, r, V) <=> Goes(W, End(d), r, V)
  BY EndStep
<1>4. \A s \in Seq(Tok) : q = <<t>> \o s <=> s = r
  <2>1. \A s \in Seq(Tok) : Lead(t, r) = Lead(t, s) <=> s = r
    BY <1>1, Splits
  <2> QED
    BY <2>1 DEF Lead
<1>5. \A s \in Seq(Tok) : q # <<Comma>> \o s
  <2>1. \A s \in Seq(Tok) : Lead(t, r) # Lead(Comma, s)
    BY <1>1, Splits
  <2> QED
    BY <2>1 DEF Lead
<1> HIDE DEF q
<1>6. Begins(W, d, q, V) <=> Goes(W, End(d), r, V)
  BY <1>2, <1>3, <1>4 DEF Begins, t
<1>7. After(W, d, x, q, V) <=>
              \/ \E s \in Seq(Tok) : q = <<t>> \o s /\ Ended(W, d, x, s, V)
              \/ \E s \in Seq(Tok) : q = <<Comma>> \o s /\ More(W, d, x, s, V)
  BY AfterForm DEF t
<1>8. Goes(W, d, q, V) <=> Goes(W, End(d), r, V)
  BY <1>3, <1>4, <1>5, <1>7 DEF Goes
<1> QED
  BY <1>6, <1>8 DEF q, t

\* After a value, a comma asks for an item, and no token but it and the bracket goes on.
LEMMA CommaStep ==
  ASSUME NEW W \in SUBSET Str, NEW d, DomInv(d), d.refs # <<>>, NEW r \in Seq(Tok), NEW V
  PROVE  /\ Goes(W, d, <<Comma>> \o r, V) <=> More(W, d, Inside(d), r, V)
         /\ \A t \in Tok : t \notin {Comma, CloseOf(Open(d))} => ~Goes(W, d, <<t>> \o r, V)
<1> DEFINE x == Inside(d)
           c == Open(d)
<1>1. c \in Container /\ Comma \in Tok /\ CloseOf(c) \in Tok /\ CloseOf(c) # Comma
  BY LastOpen, Marks
<1>2. \A q : Goes(W, d, q, V) <=>
              \/ \E s \in Seq(Tok) : q = <<CloseOf(c)>> \o s /\ Ended(W, d, x, s, V)
              \/ \E s \in Seq(Tok) : q = <<Comma>> \o s /\ More(W, d, x, s, V)
  BY AfterForm DEF Goes
<1> HIDE DEF x, c
<1>3. \A t \in Tok, s \in Seq(Tok) :
        /\ <<t>> \o r = <<CloseOf(c)>> \o s <=> t = CloseOf(c) /\ r = s
        /\ <<t>> \o r = <<Comma>> \o s <=> t = Comma /\ r = s
  <2>1. \A t \in Tok, s \in Seq(Tok) :
          /\ Lead(t, r) = Lead(CloseOf(c), s) <=> t = CloseOf(c) /\ r = s
          /\ Lead(t, r) = Lead(Comma, s) <=> t = Comma /\ r = s
    BY <1>1, Splits
  <2> QED
    BY <2>1 DEF Lead
<1>4. Goes(W, d, <<Comma>> \o r, V) <=> More(W, d, x, r, V)
  BY <1>1, <1>2, <1>3
<1>5. \A t \in Tok : t \notin {Comma, CloseOf(c)} => ~Goes(W, d, <<t>> \o r, V)
  BY <1>1, <1>2, <1>3
<1> QED
  BY <1>4, <1>5 DEF x, c

\* A further element of an array is a value.
LEMMA ArrayStep ==
  ASSUME NEW W \in SUBSET Str, NEW d, DomInv(d), d.refs # <<>>, IsArray(d), NEW r \in Seq(Tok), NEW V
  PROVE  More(W, d, Inside(d), r, V) <=> Wants(W, d, r, V)
<1> DEFINE x == Inside(d)
<1>1. Open(d) = "array" /\ IsContent(Open(d), x) /\ Open(d) \in Container /\ "array" # "object"
  BY LastOpen
<1>2. \A v : Join("array", x, Item("array", 0, v)) = Placed(d, v)
  <2> SUFFICES ASSUME NEW v PROVE Join("array", x, Item("array", 0, v)) = Placed(d, v)
    OBVIOUS
  <2>1. PICK S : x \in Seq(S)
    BY <1>1 DEF IsContent
  <2> DEFINE T == S \cup {v}
  <2>2. S \subseteq T /\ v \in T
    OBVIOUS
  <2> HIDE DEF T, x
  <2>3. x \in Seq(T)
    BY <2>1, <2>2, SeqMonotonic
  <2>4. x \o <<v>> = Append(x, v)
    BY <2>2, <2>3
  <2>5. Placed(d, v) = Append(x, v)
    BY DEF Placed, x
  <2>6. Join("array", x, Item("array", 0, v)) = x \o <<v>>
    BY DEF Join, Item
  <2> QED
    BY <2>4, <2>5, <2>6
<1>3. \A p : Led("array", 0, p) = p
  BY DEF Led
<1>4. Keys(W, "array") = {0}
  BY DEF Keys
<1>5. More(W, d, x, r, V) <=>
           \E k \in Keys(W, Open(d)), p \in Seq(Tok), s \in Seq(Tok) : \E v :
             /\ r = Led(Open(d), k, p) /\ Reads(W, p, v, s)
             /\ After(W, d, Join(Open(d), x, Item(Open(d), k, v)), s, V)
  BY <1>1, MoreForm
<1> HIDE DEF x
<1>6. More(W, d, x, r, V) <=>
           \E k \in {0}, p \in Seq(Tok), s \in Seq(Tok) : \E v :
             /\ r = Led("array", k, p) /\ Reads(W, p, v, s)
             /\ After(W, d, Join("array", x, Item("array", k, v)), s, V)
  BY <1>1, <1>4, <1>5
<1>7. More(W, d, x, r, V) <=> \E s \in Seq(Tok) : \E v : Reads(W, r, v, s) /\ After(W, d, Placed(d, v), s, V)
  BY <1>2, <1>3, <1>6
<1>8. Wants(W, d, r, V) <=> \E s \in Seq(Tok) : \E v : Reads(W, r, v, s) /\ After(W, d, Placed(d, v), s, V)
  BY DEF Wants, Into
<1> QED
  BY <1>7, <1>8 DEF x

\* A further element of an object starts with a key.
LEMMA KeyStep ==
  ASSUME NEW W \in SUBSET Str, NEW d, DomInv(d), d.refs # <<>>, ~IsArray(d),
         NEW k \in W, NEW r \in Seq(Tok), NEW V
  PROVE  More(W, d, Inside(d), <<k>> \o r, V) <=>
           \E q \in Seq(Tok) : r = <<":">> \o q /\ Wants(W, Key(d, k), q, V)
<1> DEFINE x == Inside(d)
           t == <<k>> \o r
           e == Key(d, k)
<1>1. Open(d) = "object" /\ IsContent(Open(d), x) /\ Open(d) \in Container
  BY LastOpen
<1>2. k \in Str /\ k \in Tok /\ ":" \in Tok /\ Keys(W, "object") = W
  BY Marks DEF Keys
<1>3. t \in Seq(Tok)
  BY <1>2, OneToken, Concat
<1>4. \A j \in W, p \in Seq(Tok) : t = Led("object", j, p) <=> j = k /\ r = <<":">> \o p
  <2> SUFFICES ASSUME NEW j \in W, NEW p \in Seq(Tok)
               PROVE  t = Led("object", j, p) <=> j = k /\ r = <<":">> \o p
    OBVIOUS
  <2>1. j \in Tok
    BY Marks
  <2> DEFINE z == <<":">> \o p
  <2>2. Led("object", j, p) = <<j>> \o z /\ z \in Seq(Tok)
    BY <1>2, <2>1, FirstTwo DEF Led
  <2> HIDE DEF z
  <2>3. Lead(k, r) = Lead(j, z) <=> k = j /\ r = z
    BY <1>2, <2>1, <2>2, Splits
  <2> QED
    BY <2>2, <2>3 DEF z, t, Lead
<1> HIDE DEF t
<1>5. More(W, d, x, t, V) <=>
           \E j \in Keys(W, Open(d)), p \in Seq(Tok), s \in Seq(Tok) : \E v :
             /\ t = Led(Open(d), j, p) /\ Reads(W, p, v, s)
             /\ After(W, d, Join(Open(d), x, Item(Open(d), j, v)), s, V)
  BY <1>1, <1>3, MoreForm
<1> HIDE DEF x
<1>6. More(W, d, x, t, V) <=>
           \E j \in W, p \in Seq(Tok), s \in Seq(Tok) : \E v :
             /\ t = Led("object", j, p) /\ Reads(W, p, v, s)
             /\ After(W, d, Join("object", x, Item("object", j, v)), s, V)
  BY <1>1, <1>2, <1>5
<1>7. More(W, d, x, t, V) <=>
           \E p \in Seq(Tok), s \in Seq(Tok) : \E v :
             /\ r = <<":">> \o p /\ Reads(W, p, v, s)
             /\ After(W, d, Join("object", x, Item("object", k, v)), s, V)
  BY <1>4, <1>6
<1>8. /\ SameWay(d, e) /\ \A v : Placed(e, v) = Join("object", x, Item("object", k, v))
  BY <1>2, KeyPlaced DEF x
<1>9. e.refs # <<>> /\ \A y, s : After(W, e, y, s, V) <=> After(W, d, y, s, V)
  BY <1>8, AfterSame DEF OuterSame, SameWay
<1> HIDE DEF e
<1>10. \A q : Wants(W, e, q, V) <=>
         \E s \in Seq(Tok) : \E v :
           Reads(W, q, v, s) /\ After(W, d, Join("object", x, Item("object", k, v)), s, V)
  BY <1>8, <1>9 DEF Wants, Into
<1>11. More(W, d, x, t, V) <=> \E q \in Seq(Tok) : r = <<":">> \o q /\ Wants(W, e, q, V)
  BY <1>7, <1>10
<1> QED
  BY <1>11 DEF x, t, e

\* The text r goes on with what was taken so far, to the value V and the end.
Agrees(W, p, d, r, V) ==
  \/ p = "value" /\ Wants(W, d, r, V)
  \/ p \in {"colon1", "colon"} /\ \E q \in Seq(Tok) : r = <<":">> \o q /\ Wants(W, d, q, V)
  \/ p \in {"first", "element"} /\ Begins(W, d, r, V)
  \/ p = "key" /\ More(W, d, Inside(d), r, V)
  \/ p = "next" /\ Goes(W, d, r, V)
  \/ p = "accepted" /\ r = <<>> /\ V = ValueAt(d.heap)[1]

\* What may follow, at each place of sax_parse_internal.
LEMMA AgreesAt ==
  ASSUME NEW W, NEW d, NEW r, NEW V
  PROVE  /\ Agrees(W, "value", d, r, V) <=> Wants(W, d, r, V)
         /\ \A p \in {"colon1", "colon"} :
              Agrees(W, p, d, r, V) <=> \E q \in Seq(Tok) : r = <<":">> \o q /\ Wants(W, d, q, V)
         /\ \A p \in {"first", "element"} : Agrees(W, p, d, r, V) <=> Begins(W, d, r, V)
         /\ Agrees(W, "key", d, r, V) <=> More(W, d, Inside(d), r, V)
         /\ Agrees(W, "next", d, r, V) <=> Goes(W, d, r, V)
         /\ Agrees(W, "accepted", d, r, V) <=> r = <<>> /\ V = ValueAt(d.heap)[1]
         /\ ~Agrees(W, "rejected", d, r, V)
<1> DEFINE colon == \E q \in Seq(Tok) : r = <<":">> \o q /\ Wants(W, d, q, V)
<1>1. \A p : Agrees(W, p, d, r, V) <=>
        \/ p = "value" /\ Wants(W, d, r, V)
        \/ p \in {"colon1", "colon"} /\ colon
        \/ p \in {"first", "element"} /\ Begins(W, d, r, V)
        \/ p = "key" /\ More(W, d, Inside(d), r, V)
        \/ p = "next" /\ Goes(W, d, r, V)
        \/ p = "accepted" /\ r = <<>> /\ V = ValueAt(d.heap)[1]
  BY DEF Agrees
<1> HIDE DEF colon
<1>2. /\ Agrees(W, "value", d, r, V) <=> Wants(W, d, r, V)
      /\ \A p \in {"colon1", "colon"} : Agrees(W, p, d, r, V) <=> colon
      /\ \A p \in {"first", "element"} : Agrees(W, p, d, r, V) <=> Begins(W, d, r, V)
      /\ Agrees(W, "key", d, r, V) <=> More(W, d, Inside(d), r, V)
      /\ Agrees(W, "next", d, r, V) <=> Goes(W, d, r, V)
      /\ Agrees(W, "accepted", d, r, V) <=> r = <<>> /\ V = ValueAt(d.heap)[1]
      /\ ~Agrees(W, "rejected", d, r, V)
  BY <1>1
<1> QED
  BY <1>2 DEF colon

\* What sax_parse_internal does with a token, by the type of the container.
ContainerStarts(t, st) ==
  \E c \in Container : t = OpenOf(c) /\ Goto(IF c = "object" THEN "first" ELSE "element", st, StartContainer(dom, c))
\* The three ways a token is taken where a value is due.
LEMMA ValueSteps ==
  ASSUME NEW t, NEW st, Value(t, st)
  PROVE  \/ ContainerStarts(t, st)
         \/ t \in Scalar /\ Goto("next", st, HandleValue(dom, Leaf(t)))
         \/ t \notin Scalar /\ (\A c \in Container : t # OpenOf(c)) /\ Fail
<1>1. "object" # "array" /\ \A c : c \in Container <=> c = "object" \/ c = "array"
  BY DEF Container
<1>2. OpenOf("object") = "{" /\ OpenOf("array") = "["
  BY <1>1, Zenon DEF OpenOf
<1>3. CASE t = "{" /\ Goto("first", st, StartContainer(dom, "object"))
  <2>1. t = OpenOf("object")
    BY <1>2, <1>3, Zenon
  <2>2. Goto(IF "object" = "object" THEN "first" ELSE "element", st, StartContainer(dom, "object"))
    BY <1>3, Zenon
  <2> QED
    BY <1>1, <2>1, <2>2, Zenon DEF ContainerStarts
<1>4. CASE t = "[" /\ Goto("element", st, StartContainer(dom, "array"))
  <2>1. t = OpenOf("array")
    BY <1>2, <1>4, Zenon
  <2>2. Goto(IF "array" = "object" THEN "first" ELSE "element", st, StartContainer(dom, "array"))
    BY <1>1, <1>4, Zenon
  <2> QED
    BY <1>1, <2>1, <2>2, Zenon DEF ContainerStarts
<1>5. CASE t \notin Scalar \cup {"{", "["} /\ Fail
  BY <1>1, <1>2, <1>5, Zenon
<1> QED
  BY <1>3, <1>4, <1>5, Zenon DEF Value

\* A value that starts: the text goes on as it did.
LEMMA ValueAgrees ==
  ASSUME NEW st, Good("value", st, dom), NEW W \in SUBSET Str, NEW t \in W \cup NonString,
         NEW r \in Seq(Tok), NEW V, Value(t, st)
  PROVE  Wants(W, dom, <<t>> \o r, V) <=> Agrees(W, pc', dom', r, V)
<1>1. DomInv(dom) /\ (dom.refs # <<>> /\ ~IsArray(dom) => ElementIsIn(dom))
  BY Tops DEF Good, InPlaceAt
<1>2. t \in Tok /\ Str \cap NonString = {}
  BY Marks
<1>3. CASE ContainerStarts(t, st)
  <2>1. PICK c \in Container :
          t = OpenOf(c) /\ Goto(IF c = "object" THEN "first" ELSE "element", st, StartContainer(dom, c))
    BY <1>3 DEF ContainerStarts
  <2> DEFINE p == IF c = "object" THEN "first" ELSE "element"
             e == StartContainer(dom, c)
  <2>2. Wants(W, dom, <<OpenOf(c)>> \o r, V) <=> Begins(W, e, r, V)
    BY <1>1, OpenStep
  <2>3. p \in {"first", "element"}
    OBVIOUS
  <2> HIDE DEF p, e
  <2>4. Agrees(W, p, e, r, V) <=> Begins(W, e, r, V)
    BY <2>3, AgreesAt
  <2>5. pc' = p /\ dom' = e
    BY <2>1 DEF Goto, p, e
  <2> QED
    BY <2>1, <2>2, <2>4, <2>5
<1>4. CASE t \in Scalar /\ Goto("next", st, HandleValue(dom, Leaf(t)))
  <2>1. t \in W \cup {"null", "number"}
    BY <1>2, <1>4 DEF Scalar
  <2>2. Wants(W, dom, <<t>> \o r, V) <=> Goes(W, HandleValue(dom, Leaf(t)), r, V)
    BY <1>1, <2>1, LeafStep
  <2>3. pc' = "next" /\ dom' = HandleValue(dom, Leaf(t))
    BY <1>4 DEF Goto
  <2> QED
    BY <2>2, <2>3, AgreesAt
<1>5. CASE t \notin Scalar /\ (\A c \in Container : t # OpenOf(c)) /\ Fail
  <2>1. t \notin W \cup {"null", "number"}
    BY <1>5 DEF Scalar
  <2>2. ~Wants(W, dom, <<t>> \o r, V)
    BY <1>2, <1>5, <2>1, OtherStep
  <2>3. pc' = "rejected"
    BY <1>5 DEF Fail, Goto
  <2> QED
    BY <2>2, <2>3, AgreesAt
<1> QED
  BY <1>3, <1>4, <1>5, ValueSteps

\* After an error nothing goes on.
LEMMA FailAgrees ==
  ASSUME Fail, NEW W, NEW r, NEW V PROVE ~Agrees(W, pc', dom', r, V)
<1>1. pc' = "rejected"
  BY DEF Fail, Goto
<1> QED
  BY <1>1, AgreesAt

\* The steps by place, without the tokens of containers.
Ended1(c, t) == t = CloseOf(c) /\ Goto("next", states, End(dom))
\* The ways a token is taken after an opening bracket.
LEMMA FirstSteps ==
  ASSUME NEW t
  PROVE  /\ First(t) => \/ Ended1("object", t)
                        \/ t \in Str /\ Goto("colon1", states, Key(dom, t))
                        \/ t \notin Str /\ t # CloseOf("object") /\ Fail
         /\ Element(t) => \/ Ended1("array", t)
                          \/ t # CloseOf("array") /\ Value(t, Append(states, TRUE))
<1>1. CloseOf("object") = "}" /\ CloseOf("array") = "]"
  <2>1. "object" # "array"
    OBVIOUS
  <2> QED
    BY <2>1, Zenon DEF CloseOf
<1>2. First(t) => \/ Ended1("object", t)
                  \/ t \in Str /\ Goto("colon1", states, Key(dom, t))
                  \/ t \notin Str /\ t # CloseOf("object") /\ Fail
  BY <1>1, Zenon DEF First, Ended1
<1>3. Element(t) => \/ Ended1("array", t)
                    \/ t # CloseOf("array") /\ Value(t, Append(states, TRUE))
  BY <1>1, Zenon DEF Element, Ended1
<1> QED
  BY <1>2, <1>3

Inner(c, t) ==
  \/ t = Comma /\ Goto(IF c = "object" THEN "key" ELSE "value", states, dom)
  \/ t = CloseOf(c) /\ Goto("next", Front(states), End(dom))
  \/ t \notin {Comma, CloseOf(c)} /\ Fail
\* The ways a token is taken after an element or a member.
LEMMA NextSteps ==
  ASSUME NEW t PROVE  (InArray(t) => Inner("array", t)) /\ (InObject(t) => Inner("object", t))
<1>0. "object" # "array"
  OBVIOUS
<1>1. CloseOf("object") = "}" /\ CloseOf("array") = "]" /\ Comma = ","
  BY <1>0, Zenon DEF CloseOf, Comma
<1>2. \A st, d : /\ Goto("key", st, d) => Goto(IF "object" = "object" THEN "key" ELSE "value", st, d)
                 /\ Goto("value", st, d) => Goto(IF "array" = "object" THEN "key" ELSE "value", st, d)
  BY <1>0
<1>3. InArray(t) => Inner("array", t)
  BY <1>1, <1>2, Zenon DEF InArray, Inner, Close
<1>4. InObject(t) => Inner("object", t)
  BY <1>1, <1>2, Zenon DEF InObject, Inner, Close
<1> QED
  BY <1>3, <1>4

\* A step of the parser: the text goes on with the token before it as without it after it.
AgreesStep(W, t) ==
  \A r \in Seq(Tok) : \A V : Agrees(W, pc, dom, Lead(t, r), V) <=> Agrees(W, pc', dom', r, V)

\* After an opening bracket, all but the closing one is an item.
LEMMA ElementsStart ==
  ASSUME NEW W, NEW d, NEW t \in Tok, t # CloseOf(Open(d)), CloseOf(Open(d)) \in Tok,
         NEW r \in Seq(Tok), NEW V
  PROVE  Begins(W, d, Lead(t, r), V) <=> More(W, d, Inside(d), Lead(t, r), V)
<1> DEFINE c == CloseOf(Open(d))
<1>1. \A s \in Seq(Tok) : Lead(t, r) # Lead(c, s)
  BY Splits
<1> HIDE DEF c
<1>2. \A s \in Seq(Tok) : Lead(t, r) # <<c>> \o s
  BY <1>1 DEF Lead
<1> QED
  BY <1>2 DEF Begins, c

\* A colon that is due: the text goes on as it did.
LEMMA ColonAgrees ==
  ASSUME NEW W, NEW t \in Tok, pc \in {"colon1", "colon"},
         \/ t = ":" /\ \E st : Goto("value", st, dom)
         \/ t # ":" /\ Fail
  PROVE  AgreesStep(W, t)
<1> SUFFICES ASSUME NEW r \in Seq(Tok), NEW V
             PROVE  Agrees(W, pc, dom, Lead(t, r), V) <=> Agrees(W, pc', dom', r, V)
  BY DEF AgreesStep
<1> DEFINE l == Lead(t, r)
<1> HIDE DEF l
<1>1. Agrees(W, pc, dom, l, V) <=> \E q \in Seq(Tok) : l = <<":">> \o q /\ Wants(W, dom, q, V)
  <2> DEFINE colon == \E q \in Seq(Tok) : l = <<":">> \o q /\ Wants(W, dom, q, V)
  <2>1. \A p \in {"colon1", "colon"} : Agrees(W, p, dom, l, V) <=> colon
    BY AgreesAt
  <2> HIDE DEF colon
  <2>2. Agrees(W, pc, dom, l, V) <=> colon
    BY <2>1
  <2> QED
    BY <2>2 DEF colon
<1> DEFINE colon == ":"
<1>2. colon \in Tok
  BY Marks
<1> HIDE DEF colon
<1>3. \A q \in Seq(Tok) : Lead(t, r) = Lead(colon, q) <=> t = colon /\ r = q
  BY <1>2, Splits
<1>4. \A q \in Seq(Tok) : Lead(t, r) = <<colon>> \o q <=> t = colon /\ r = q
  BY <1>3 DEF Lead
<1>5. Agrees(W, pc, dom, Lead(t, r), V) <=> t = colon /\ Wants(W, dom, r, V)
  BY <1>1, <1>4 DEF colon, l
<1>6. CASE t = ":" /\ \E st : Goto("value", st, dom)
  <2>1. pc' = "value" /\ dom' = dom
    BY <1>6 DEF Goto
  <2> QED
    BY <1>5, <1>6, <2>1, AgreesAt DEF colon
<1>7. CASE t # ":" /\ Fail
  BY <1>5, <1>7, FailAgrees DEF colon
<1> QED
  BY <1>6, <1>7

\* After { or [, and after a comma in an object.
LEMMA KeyAgrees ==
  ASSUME NEW W \in SUBSET Str, DomInv(dom), dom.refs # <<>>, ~IsArray(dom), NEW t \in W \cup NonString,
         NEW p \in {"colon1", "colon"},
         \/ t \in Str /\ Goto(p, states, Key(dom, t))
         \/ t \notin Str /\ Fail,
         NEW r \in Seq(Tok), NEW V
  PROVE  More(W, dom, Inside(dom), Lead(t, r), V) <=> Agrees(W, pc', dom', r, V)
<1>1. t \in Tok /\ (t \in Str <=> t \in W) /\ W \subseteq Str
  BY Marks
<1>2. CASE t \in Str /\ Goto(p, states, Key(dom, t))
  <2>1. More(W, dom, Inside(dom), <<t>> \o r, V) <=>
           \E q \in Seq(Tok) : r = <<":">> \o q /\ Wants(W, Key(dom, t), q, V)
    BY <1>1, <1>2, KeyStep
  <2> DEFINE e == Key(dom, t)
  <2>2. pc' = p /\ dom' = e
    BY <1>2 DEF Goto
  <2>3. More(W, dom, Inside(dom), Lead(t, r), V) <=> \E q \in Seq(Tok) : r = <<":">> \o q /\ Wants(W, e, q, V)
    BY <2>1 DEF Lead
  <2> HIDE DEF e
  <2>4. Agrees(W, p, e, r, V) <=> \E q \in Seq(Tok) : r = <<":">> \o q /\ Wants(W, e, q, V)
    BY AgreesAt
  <2> QED
    BY <2>2, <2>3, <2>4
<1>3. CASE t \notin Str /\ Fail
  <2>1. Open(dom) # "array"
    BY LastOpen
  <2>2. ~More(W, dom, Inside(dom), <<t>> \o r, V)
    BY <1>1, <1>3, <2>1, NoElement
  <2> QED
    BY <1>3, <2>2, FailAgrees DEF Lead
<1> QED
  BY <1>2, <1>3

\* After {: the text goes on as it did.
LEMMA FirstAgrees ==
  ASSUME Good(pc, states, dom), pc = "first", NEW W \in SUBSET Str, NEW t \in W \cup NonString, First(t)
  PROVE  AgreesStep(W, t)
<1>1. DomInv(dom) /\ dom.refs # <<>> /\ ~IsArray(dom)
  <2>1. /\ DomInv(dom) /\ states \in Seq(BOOLEAN) /\ ~IsArray(dom)
        /\ Len(dom.refs) = Len(states) + 1
    BY DEF Good, Matches, InPlaceAt, OpenedAt
  <2> QED
    BY <2>1
<1>2. Open(dom) = "object" /\ Open(dom) \in Container
  BY <1>1, LastOpen
<1> SUFFICES ASSUME NEW r \in Seq(Tok), NEW V
             PROVE  Agrees(W, pc, dom, Lead(t, r), V) <=> Agrees(W, pc', dom', r, V)
  BY DEF AgreesStep
<1>3. Agrees(W, pc, dom, Lead(t, r), V) <=> Begins(W, dom, Lead(t, r), V)
  BY AgreesAt
<1>4. t \in Tok /\ CloseOf(Open(dom)) \in Tok /\ CloseOf(Open(dom)) \notin Str
  BY <1>2, Marks
<1>5. CASE Ended1("object", t)
  <2>1. Begins(W, dom, <<CloseOf(Open(dom))>> \o r, V) <=> Goes(W, End(dom), r, V)
    BY <1>1, CloseStep
  <2>2. t = CloseOf(Open(dom)) /\ pc' = "next" /\ dom' = End(dom)
    BY <1>2, <1>5 DEF Ended1, Goto
  <2>3. Agrees(W, "next", End(dom), r, V) <=> Goes(W, End(dom), r, V)
    BY AgreesAt
  <2> QED
    BY <1>3, <2>1, <2>2, <2>3 DEF Lead
<1>6. CASE t \in Str /\ Goto("colon1", states, Key(dom, t))
  <2>1. Begins(W, dom, Lead(t, r), V) <=> More(W, dom, Inside(dom), Lead(t, r), V)
    BY <1>4, <1>6, ElementsStart
  <2>2. More(W, dom, Inside(dom), Lead(t, r), V) <=> Agrees(W, pc', dom', r, V)
    BY <1>1, <1>6, KeyAgrees
  <2> QED
    BY <1>3, <2>1, <2>2
<1>7. CASE t \notin Str /\ t # CloseOf("object") /\ Fail
  <2>1. Begins(W, dom, Lead(t, r), V) <=> More(W, dom, Inside(dom), Lead(t, r), V)
    BY <1>2, <1>4, <1>7, ElementsStart
  <2>2. More(W, dom, Inside(dom), Lead(t, r), V) <=> Agrees(W, pc', dom', r, V)
    BY <1>1, <1>7, KeyAgrees
  <2> QED
    BY <1>3, <2>1, <2>2
<1> QED
  BY <1>5, <1>6, <1>7, FirstSteps

\* After [: the text goes on as it did.
LEMMA ElementAgrees ==
  ASSUME Good(pc, states, dom), pc = "element", NEW W \in SUBSET Str, NEW t \in W \cup NonString, Element(t)
  PROVE  AgreesStep(W, t)
<1>1. DomInv(dom) /\ dom.refs # <<>> /\ IsArray(dom)
  <2>1. /\ DomInv(dom) /\ states \in Seq(BOOLEAN) /\ IsArray(dom)
        /\ Len(dom.refs) = Len(states) + 1
    BY DEF Good, Matches, InPlaceAt, OpenedAt
  <2> QED
    BY <2>1
<1>2. Open(dom) = "array" /\ Open(dom) \in Container
  BY <1>1, LastOpen
<1> SUFFICES ASSUME NEW r \in Seq(Tok), NEW V
             PROVE  Agrees(W, pc, dom, Lead(t, r), V) <=> Agrees(W, pc', dom', r, V)
  BY DEF AgreesStep
<1>3. Agrees(W, pc, dom, Lead(t, r), V) <=> Begins(W, dom, Lead(t, r), V)
  BY AgreesAt
<1>4. t \in Tok /\ CloseOf(Open(dom)) \in Tok
  BY <1>2, Marks
<1>5. CASE Ended1("array", t)
  <2>1. Begins(W, dom, <<CloseOf(Open(dom))>> \o r, V) <=> Goes(W, End(dom), r, V)
    BY <1>1, CloseStep
  <2>2. t = CloseOf(Open(dom)) /\ pc' = "next" /\ dom' = End(dom)
    BY <1>2, <1>5 DEF Ended1, Goto
  <2>3. Agrees(W, "next", End(dom), r, V) <=> Goes(W, End(dom), r, V)
    BY AgreesAt
  <2> QED
    BY <1>3, <2>1, <2>2, <2>3 DEF Lead
<1>6. CASE t # CloseOf("array") /\ Value(t, Append(states, TRUE))
  <2>1. Begins(W, dom, Lead(t, r), V) <=> More(W, dom, Inside(dom), Lead(t, r), V)
    BY <1>2, <1>4, <1>6, ElementsStart
  <2> DEFINE q == Lead(t, r)
  <2>2. q \in Seq(Tok)
    BY <1>4, OneToken, Concat DEF Lead
  <2> HIDE DEF q
  <2>3. More(W, dom, Inside(dom), q, V) <=> Wants(W, dom, q, V)
    BY <1>1, <2>2, ArrayStep
  <2>4. Good("value", Append(states, "element" = "element"), dom)
    BY GoodPush
  <2>5. ("element" = "element") = TRUE
    OBVIOUS
  <2>6. Good("value", Append(states, TRUE), dom)
    BY <2>4, <2>5
  <2>7. Wants(W, dom, <<t>> \o r, V) <=> Agrees(W, pc', dom', r, V)
    BY <1>6, <2>6, ValueAgrees
  <2> QED
    BY <1>3, <2>1, <2>3, <2>7 DEF q, Lead
<1> QED
  BY <1>5, <1>6, FirstSteps

\* After a value in a container.
LEMMA InnerAgrees ==
  ASSUME Good(pc, states, dom), pc = "next", states # <<>>, NEW W \in SUBSET Str, NEW t \in W \cup NonString,
         IF Last(states) THEN InArray(t) ELSE InObject(t)
  PROVE  AgreesStep(W, t)
<1>1. DomInv(dom) /\ dom.refs # <<>> /\ (Last(states) <=> IsArray(dom))
  BY Tops DEF Good
<1>2. /\ Open(dom) \in Container /\ (IsArray(dom) <=> Open(dom) = "array")
      /\ (~IsArray(dom) <=> Open(dom) = "object")
  BY <1>1, LastOpen
<1>3. Inner(Open(dom), t)
  BY <1>1, <1>2, NextSteps
<1> SUFFICES ASSUME NEW r \in Seq(Tok), NEW V
             PROVE  Agrees(W, pc, dom, Lead(t, r), V) <=> Agrees(W, pc', dom', r, V)
  BY DEF AgreesStep
<1>4. Agrees(W, pc, dom, Lead(t, r), V) <=> Goes(W, dom, Lead(t, r), V)
  BY AgreesAt
<1>5. t \in Tok
  BY Marks
<1>6. /\ Goes(W, dom, <<Comma>> \o r, V) <=> More(W, dom, Inside(dom), r, V)
      /\ t \notin {Comma, CloseOf(Open(dom))} => ~Goes(W, dom, <<t>> \o r, V)
  BY <1>1, <1>5, CommaStep
<1>7. CASE t = Comma /\ Goto(IF Open(dom) = "object" THEN "key" ELSE "value", states, dom)
  <2>1. CASE Open(dom) = "object"
    <3>1. pc' = "key" /\ dom' = dom
      BY <1>7, <2>1 DEF Goto
    <3>2. Agrees(W, "key", dom, r, V) <=> More(W, dom, Inside(dom), r, V)
      BY AgreesAt
    <3> QED
      BY <1>4, <1>6, <1>7, <3>1, <3>2 DEF Lead
  <2>2. CASE Open(dom) # "object"
    <3>1. pc' = "value" /\ dom' = dom
      BY <1>7, <2>2 DEF Goto
    <3>2. Agrees(W, "value", dom, r, V) <=> Wants(W, dom, r, V)
      BY AgreesAt
    <3>3. More(W, dom, Inside(dom), r, V) <=> Wants(W, dom, r, V)
      BY <1>1, <1>2, <2>2, ArrayStep
    <3> QED
      BY <1>4, <1>6, <1>7, <3>1, <3>2, <3>3 DEF Lead
  <2> QED
    BY <2>1, <2>2
<1>8. CASE t = CloseOf(Open(dom)) /\ Goto("next", Front(states), End(dom))
  <2>1. Goes(W, dom, <<CloseOf(Open(dom))>> \o r, V) <=> Goes(W, End(dom), r, V)
    BY <1>1, CloseStep
  <2>2. pc' = "next" /\ dom' = End(dom)
    BY <1>8 DEF Goto
  <2>3. Agrees(W, "next", End(dom), r, V) <=> Goes(W, End(dom), r, V)
    BY AgreesAt
  <2> QED
    BY <1>4, <1>8, <2>1, <2>2, <2>3 DEF Lead
<1>9. CASE t \notin {Comma, CloseOf(Open(dom))} /\ Fail
  BY <1>4, <1>6, <1>9, FailAgrees DEF Lead
<1> QED
  BY <1>3, <1>7, <1>8, <1>9 DEF Inner

\* After the value, only the end of the input goes on.
LEMMA EndAgrees ==
  ASSUME Good(pc, states, dom), pc = "next", states = <<>>, NEW W, NEW t \in Tok, AtEnd(t)
  PROVE  AgreesStep(W, t)
<1>1. dom.refs = <<>>
  BY Tops
<1> SUFFICES ASSUME NEW r \in Seq(Tok), NEW V
             PROVE  Agrees(W, pc, dom, Lead(t, r), V) <=> Agrees(W, pc', dom', r, V)
  BY DEF AgreesStep
<1> DEFINE end == "end"
           x == ValueAt(dom.heap)[1]
<1>2. Agrees(W, pc, dom, Lead(t, r), V) <=> V = x /\ Lead(t, r) = <<end>>
  BY <1>1, AgreesAt DEF Goes
<1>3. end \in Tok
  BY Marks
<1>4. pc' = (IF t = end THEN "accepted" ELSE "rejected") /\ dom' = dom
  BY DEF AtEnd, Goto
<1>5. /\ Agrees(W, "accepted", dom, r, V) <=> r = <<>> /\ V = x
      /\ ~Agrees(W, "rejected", dom, r, V)
  BY AgreesAt
<1> DEFINE nothing == <<>>
<1> HIDE DEF end, x
<1>6. nothing \in Seq(Tok) /\ <<end>> = Lead(end, nothing)
  <2>1. <<end>> \o <<>> = <<end>>
    OBVIOUS
  <2> QED
    BY <2>1 DEF Lead
<1> HIDE DEF nothing
<1>7. Lead(t, r) = Lead(end, nothing) <=> t = end /\ r = nothing
  BY <1>3, <1>6, Splits
<1> QED
  BY <1>2, <1>4, <1>5, <1>6, <1>7 DEF nothing

\* All the places of sax_parse_internal.
LEMMA TokenAgrees ==
  ASSUME Good(pc, states, dom), Parsing, NEW W \in SUBSET Str, NEW t \in W \cup NonString, Token(t)
  PROVE  AgreesStep(W, t)
<1>1. t \in Tok
  BY Marks
<1>2. CASE pc = "value"
  <2> SUFFICES ASSUME NEW r \in Seq(Tok), NEW V
               PROVE  Agrees(W, pc, dom, Lead(t, r), V) <=> Agrees(W, pc', dom', r, V)
    BY DEF AgreesStep
  <2>1. Value(t, states)
    BY <1>2 DEF Token
  <2>2. Wants(W, dom, <<t>> \o r, V) <=> Agrees(W, pc', dom', r, V)
    BY <1>2, <2>1, ValueAgrees
  <2> QED
    BY <1>2, <2>2, AgreesAt DEF Lead
<1>3. CASE pc = "first"
  <2>1. First(t)
    BY <1>3 DEF Token
  <2> QED
    BY <1>3, <2>1, FirstAgrees
<1>4. CASE pc = "colon1"
  <2>1. Colon1(t)
    BY <1>4 DEF Token
  <2> QED
    BY <1>1, <1>4, <2>1, ColonAgrees DEF Colon1
<1>5. CASE pc = "element"
  <2>1. Element(t)
    BY <1>5 DEF Token
  <2> QED
    BY <1>5, <2>1, ElementAgrees
<1>6. CASE pc = "colon"
  <2>1. Colon(t)
    BY <1>6 DEF Token
  <2> QED
    BY <1>1, <1>6, <2>1, ColonAgrees DEF Colon
<1>7. CASE pc = "key"
  <2>1. NextKey(t)
    BY <1>7 DEF Token
  <2>2. DomInv(dom) /\ dom.refs # <<>> /\ ~IsArray(dom)
    BY <1>7, Tops DEF Good, InPlaceAt
  <2> SUFFICES ASSUME NEW r \in Seq(Tok), NEW V
               PROVE  Agrees(W, pc, dom, Lead(t, r), V) <=> Agrees(W, pc', dom', r, V)
    BY DEF AgreesStep
  <2>3. More(W, dom, Inside(dom), Lead(t, r), V) <=> Agrees(W, pc', dom', r, V)
    BY <2>1, <2>2, KeyAgrees DEF NextKey
  <2> QED
    BY <1>7, <2>3, AgreesAt
<1>8. CASE pc = "next" /\ states = <<>>
  <2>1. AtEnd(t)
    BY <1>8 DEF Token
  <2> QED
    BY <1>1, <1>8, <2>1, EndAgrees
<1>9. CASE pc = "next" /\ states # <<>>
  <2>1. IF Last(states) THEN InArray(t) ELSE InObject(t)
    BY <1>9 DEF Token
  <2> QED
    BY <1>9, <2>1, InnerAgrees
<1>10. pc \in Places \ {"accepted", "rejected"}
  BY DEF Good, Parsing
<1> QED
  BY <1>2, <1>3, <1>4, <1>5, <1>6, <1>7, <1>8, <1>9, <1>10 DEF Places

\* The text q, with its end, is JSON for the value V.  What goes on with q to such a
\* text is what the parser's place p and its state d go on with.
Denotes(W, q, V) == \E j : IsValue(W, j, V) /\ q = j \o <<"end">>
GoesOn(W, q, p, d) == \A r \in Seq(Tok) : \A V : Denotes(W, q \o r, V) <=> Agrees(W, p, d, r, V)

\* At the start, the texts to come are the texts of JSON.
LEMMA GoesOnStart ==
  ASSUME NEW W PROVE GoesOn(W, <<>>, "value", NoDom)
<1>1. ASSUME NEW r \in Seq(Tok), NEW V
      PROVE  Denotes(W, <<>> \o r, V) <=> Agrees(W, "value", NoDom, r, V)
  <2>1. <<>> \o r = r
    OBVIOUS
  <2> DEFINE e == <<"end">>
  <2>2. e \in Seq(Tok)
    BY Marks, OneToken
  <2>3. NoDom.refs = <<>>
    BY DEF NoDom
  <2>4. Agrees(W, "value", NoDom, r, V) <=> Wants(W, NoDom, r, V)
    BY AgreesAt
  <2>5. Wants(W, NoDom, r, V) <=> \E w, s : s \in Seq(Tok) /\ Reads(W, r, w, s) /\ w = V /\ s = e
    BY <2>3 DEF Wants, Into
  <2>6. Denotes(W, r, V) <=> Reads(W, r, V, e)
    BY DEF Denotes, Reads
  <2> HIDE DEF e
  <2> QED
    BY <2>1, <2>2, <2>4, <2>5, <2>6
<1> QED
  BY <1>1 DEF GoesOn

\* A token read is one more before the rest.
LEMMA OneAfter ==
  ASSUME NEW S, NEW q \in Seq(S), NEW t \in S, NEW r \in Seq(S)
  PROVE  Append(q, t) \o r = q \o (<<t>> \o r) /\ Append(q, t) \in Seq(S)
<1> DEFINE o == <<t>>
<1>1. Append(q, t) = q \o o /\ o \in Seq(S)
  OBVIOUS
<1> HIDE DEF o
<1>2. (q \o o) \o r = q \o (o \o r) /\ q \o o \in Seq(S)
  BY <1>1, Concat
<1> QED
  BY <1>1, <1>2 DEF o

\* Each token keeps the parser and the grammar together.
LEMMA GoesOnStep ==
  ASSUME Good(pc, states, dom), Parsing, NEW W \in SUBSET Str, NEW t \in W \cup NonString, Token(t),
         NEW q \in Seq(Tok), GoesOn(W, q, pc, dom)
  PROVE  GoesOn(W, Append(q, t), pc', dom')
<1>1. ASSUME NEW r \in Seq(Tok), NEW V
      PROVE  Denotes(W, Append(q, t) \o r, V) <=> Agrees(W, pc', dom', r, V)
  <2> DEFINE l == Lead(t, r)
  <2>1. t \in Tok
    BY Marks
  <2>2. Append(q, t) \o r = q \o l
    BY <2>1, OneAfter DEF Lead
  <2>3. l \in Seq(Tok)
    BY <2>1, OneToken, Concat DEF Lead
  <2>4. Agrees(W, pc, dom, l, V) <=> Agrees(W, pc', dom', r, V)
    BY TokenAgrees DEF AgreesStep
  <2> HIDE DEF l
  <2>5. Denotes(W, q \o l, V) <=> Agrees(W, pc, dom, l, V)
    BY <2>3 DEF GoesOn
  <2> QED
    BY <2>2, <2>4, <2>5
<1> QED
  BY <1>1 DEF GoesOn

-----------------------------------------------------------------------------
(* The strings of what was parsed are strings of the text.                 *)

NodeIn(W, node) ==
  (node[1] = "string" => node[2] \in W) /\ (node[1] = "object" => DOMAIN node[2] \subseteq W)
HeapIn(W, heap) == \A n \in DOMAIN heap : NodeIn(W, heap[n])

\* A node that is added has its key and its token from the text.
LEMMA GainsIn ==
  ASSUME NEW W, NEW heap, NEW new, NEW b, NEW k, Gains(heap, new, b, k), HeapIn(W, heap),
         heap[b][1] = "object" => k \in W, NodeIn(W, new[Len(heap) + 1])
  PROVE  HeapIn(W, new)
<1>1. /\ heap \in Seq(Node) /\ b \in 1 .. Len(heap) /\ heap[b][1] \in Container
      /\ new \in Seq(Node) /\ Len(new) = Len(heap) + 1
      /\ \A i \in 1 .. Len(heap) : i # b => new[i] = heap[i]
      /\ new[b][1] = heap[b][1] /\ DOMAIN new[b][2] = DOMAIN heap[b][2] \cup {k}
  BY DEF Gains
<1>2. ASSUME NEW n \in DOMAIN new PROVE NodeIn(W, new[n])
  <2>1. CASE n \in 1 .. Len(heap) /\ n # b
    BY <1>1, <2>1 DEF HeapIn
  <2>2. CASE n = b
    <3>1. NodeIn(W, heap[b])
      BY <1>1 DEF HeapIn
    <3> QED
      BY <1>1, <2>2, <3>1 DEF NodeIn, Container
  <2>3. n \in 1 .. Len(heap) \/ n = Len(heap) + 1
    BY <1>1
  <2> QED
    BY <2>1, <2>2, <2>3
<1> QED
  BY <1>2 DEF HeapIn

\* handle_value adds strings of the text only.
LEMMA ValueIn ==
  ASSUME NEW W, NEW d, DomInv(d), NEW node, Bare(node), NodeIn(W, node), HeapIn(W, d.heap),
         d.refs # <<>> /\ ~IsArray(d) => ElementIsIn(d),
         NEW e, e = HandleValue(d, node)
  PROVE  HeapIn(W, e.heap)
<1> DEFINE p == Place(d)
<1>1. /\ p \in 1 .. Len(e.heap) /\ e.heap[p] = node
      /\ d.refs # <<>> => Gets(d, e.heap, p, node)
  BY HandleValueKeeps
<1>2. d \in [heap : Seq(Node), refs : Seq(Nat), element : Nat]
  BY DEF DomInv
<1>3. CASE d.refs = <<>>
  <2>1. e = [d EXCEPT !.heap = <<node>>]
    BY <1>3 DEF HandleValue
  <2>2. e.heap = <<node>>
    BY <1>2, <2>1
  <2> QED
    BY <2>2 DEF HeapIn
<1>4. CASE d.refs # <<>> /\ IsArray(d)
  <2> DEFINE k == Len(d.heap[Last(d.refs)][2]) + 1
  <2>1. Gains(d.heap, e.heap, Last(d.refs), k) /\ p = Len(d.heap) + 1
    BY <1>1, <1>4 DEF Gets, Place
  <2>2. d.heap[Last(d.refs)][1] # "object"
    BY <1>4 DEF IsArray
  <2> HIDE DEF k
  <2>3. NodeIn(W, e.heap[Len(d.heap) + 1])
    BY <1>1, <2>1
  <2> QED
    BY <2>1, <2>2, <2>3, GainsIn
<1>5. CASE d.refs # <<>> /\ ~IsArray(d)
  <2>1. e.heap = [d.heap EXCEPT ![p] = node]
    BY <1>1, <1>5 DEF Gets
  <2> HIDE DEF p
  <2>2. \A n \in DOMAIN e.heap : n \in DOMAIN d.heap /\ e.heap[n] = IF n = p THEN node ELSE d.heap[n]
    BY <2>1
  <2> QED
    BY <2>2 DEF HeapIn
<1> QED
  BY <1>3, <1>4, <1>5

\* key adds a string of the text only.
LEMMA KeyIn ==
  ASSUME NEW W, NEW d, DomInv(d), d.refs # <<>>, ~IsArray(d), HeapIn(W, d.heap), NEW k \in Str, k \in W,
         NEW e, e = Key(d, k)
  PROVE  HeapIn(W, e.heap)
<1> DEFINE b == Last(d.refs)
<1>1. d \in [heap : Seq(Node), refs : Seq(Nat), element : Nat]
  BY DEF DomInv
<1>2. CASE k \in DOMAIN d.heap[b][2]
  <2>1. e = [d EXCEPT !.element = d.heap[b][2][k]]
    BY <1>2 DEF Key
  <2>2. e.heap = d.heap
    BY <1>1, <2>1
  <2> QED
    BY <2>2
<1>3. CASE k \notin DOMAIN d.heap[b][2]
  <2>1. Gains(d.heap, e.heap, b, k) /\ e = NewElement(d, k)
    BY <1>3, KeyKeeps DEF Key
  <2>2. e.heap[Len(d.heap) + 1] = Leaf("null")
    <3> DEFINE h == d.heap
               old == h[b][2]
               last == Len(h) + 1
               kids == [j \in DOMAIN old \cup {k} |-> IF j \in DOMAIN old THEN old[j] ELSE last]
               new == Append([h EXCEPT ![b][2] = kids], Leaf("null"))
    <3>1. e = [d EXCEPT !.element = last, !.heap = new]
      BY <2>1 DEF NewElement
    <3>2. e.heap = new
      BY <1>1, <3>1
    <3>3. h \in Seq(Node) /\ b \in 1 .. Len(h)
      BY <1>1, LastRef
    <3>4. new[last] = Leaf("null")
      <4> DEFINE mid == [h EXCEPT ![b][2] = kids]
      <4>1. Len(mid) = Len(h) /\ mid = [i \in 1 .. Len(h) |-> mid[i]]
        BY <3>3
      <4> HIDE DEF mid
      <4>2. mid \in Seq({mid[i] : i \in 1 .. Len(h)} \cup {Leaf("null")})
        BY <3>3, <4>1
      <4>3. Append(mid, Leaf("null"))[Len(mid) + 1] = Leaf("null")
        BY <4>2, AppendProperties
      <4> QED
        BY <4>1, <4>3 DEF mid
    <3> QED
      BY <3>2, <3>4
  <2>3. Leaf("null")[1] \notin {"string", "object"}
    <3>1. "null" \notin Str
      BY Marks
    <3> QED
      BY <3>1 DEF Leaf
  <2>4. NodeIn(W, e.heap[Len(d.heap) + 1])
    BY <2>2, <2>3 DEF NodeIn
  <2> HIDE DEF b
  <2> QED
    BY <2>1, <2>4, GainsIn
<1> QED
  BY <1>2, <1>3

\* So does every token that starts a value.
LEMMA ValueStepIn ==
  ASSUME NEW st, Good("value", st, dom), NEW W \in SUBSET Str, NEW t \in W \cup NonString, Value(t, st),
         HeapIn(W, dom.heap)
  PROVE  HeapIn(W, dom'.heap)
<1>1. DomInv(dom) /\ (dom.refs # <<>> /\ ~IsArray(dom) => ElementIsIn(dom))
  BY Tops DEF Good, InPlaceAt
<1>2. t \in Tok /\ Str \cap NonString = {}
  BY Marks
<1>3. CASE ContainerStarts(t, st)
  <2>1. PICK c \in Container : dom' = StartContainer(dom, c)
    BY <1>3 DEF ContainerStarts, Goto
  <2> DEFINE node == <<c, <<>> >>
             e == HandleValue(dom, node)
  <2>2. Bare(node) /\ NodeIn(W, node)
    BY BareNodes DEF NodeIn, Container
  <2> HIDE DEF node
  <2>3. HeapIn(W, e.heap) /\ DomInv(e)
    BY <1>1, <2>2, ValueIn, HandleValueKeeps
  <2>4. dom' = [e EXCEPT !.refs = Append(@, Place(dom))]
    BY <2>1 DEF StartContainer, node
  <2> HIDE DEF e
  <2>5. dom'.heap = e.heap
    BY <2>3, <2>4 DEF DomInv
  <2> QED
    BY <2>3, <2>5
<1>4. CASE t \in Scalar /\ Goto("next", st, HandleValue(dom, Leaf(t)))
  <2>1. t \in W \cup {"null", "number"} /\ dom' = HandleValue(dom, Leaf(t)) /\ "null" \notin Str /\ "number" \notin Str
    BY <1>2, <1>4 DEF Scalar, Goto, NonString
  <2>2. Bare(Leaf(t)) /\ NodeIn(W, Leaf(t))
    <3>1. ASSUME t \in W PROVE NodeIn(W, Leaf(t))
      <4>1. Leaf(t)[1] = "string" /\ Leaf(t)[2] = t
        BY <3>1 DEF Leaf
      <4> QED
        BY <3>1, <4>1 DEF NodeIn
    <3>2. ASSUME t \in {"null", "number"} PROVE NodeIn(W, Leaf(t))
      <4>1. Leaf(t)[1] \in {"null", "number"}
        BY <2>1, <3>2 DEF Leaf
      <4> QED
        BY <4>1 DEF NodeIn
    <3> QED
      BY <1>4, <2>1, <3>1, <3>2, BareNodes
  <2> QED
    BY <1>1, <2>1, <2>2, ValueIn
<1>5. CASE Fail
  BY <1>5 DEF Fail, Goto
<1> QED
  BY <1>3, <1>4, <1>5, ValueSteps

\* end_object and end_array change no node.
LEMMA EndIn == ASSUME NEW d, DomInv(d), d.refs # <<>> PROVE End(d).heap = d.heap
<1> QED
  BY EndKeeps

\* So does every token.
LEMMA TokenIn ==
  ASSUME Good(pc, states, dom), Parsing, NEW W \in SUBSET Str, NEW t \in W \cup NonString, Token(t),
         HeapIn(W, dom.heap)
  PROVE  HeapIn(W, dom'.heap)
<1>1. t \in Str => t \in W
  BY Marks
<1>2. CASE \E p, st : Goto(p, st, dom)
  BY <1>2 DEF Goto
<1>3. DomInv(dom) /\ states \in Seq(BOOLEAN) /\ Matches(pc, states, dom) /\ InPlaceAt(pc, states, dom)
  BY DEF Good, Parsing
<1>4. CASE dom.refs # <<>> /\ \E p, st : Goto(p, st, End(dom))
  BY <1>3, <1>4, EndIn DEF Goto
<1>5. CASE dom.refs # <<>> /\ ~IsArray(dom) /\ t \in Str /\ \E p, st : Goto(p, st, Key(dom, t))
  <2>1. dom' = Key(dom, t)
    BY <1>5 DEF Goto
  <2> QED
    BY <1>1, <1>3, <1>5, <2>1, KeyIn
<1>6. CASE Fail
  BY <1>2, <1>6 DEF Fail
<1>7. CASE pc \in {"first", "element"}
  <2>1. dom.refs # <<>>
    BY <1>3, <1>7 DEF Matches, OpenedAt
  <2>2. CASE pc = "first"
    <3>1. First(t) /\ ~IsArray(dom)
      BY <1>3, <2>2 DEF Token, InPlaceAt
    <3> QED
      BY <1>4, <1>5, <1>6, <2>1, <3>1, FirstSteps DEF Ended1
  <2>3. CASE pc = "element"
    <3>1. Element(t)
      BY <2>3 DEF Token
    <3>2. Good("value", Append(states, "element" = "element"), dom)
      BY <2>3, GoodPush
    <3>3. ("element" = "element") = TRUE
      OBVIOUS
    <3>4. Good("value", Append(states, TRUE), dom)
      BY <3>2, <3>3
    <3>5. CASE Value(t, Append(states, TRUE))
      BY <3>4, <3>5, ValueStepIn
    <3> QED
      BY <1>4, <2>1, <3>1, <3>5, FirstSteps DEF Ended1
  <2> QED
    BY <1>7, <2>2, <2>3
<1>8. CASE pc = "value"
  <2>1. Value(t, states)
    BY <1>8 DEF Token
  <2> QED
    BY <1>8, <2>1, ValueStepIn
<1>9. CASE pc \in {"colon1", "colon"}
  <2>1. Colon1(t) \/ Colon(t)
    BY <1>9 DEF Token
  <2> QED
    BY <1>2, <1>6, <2>1 DEF Colon1, Colon
<1>10. CASE pc = "key"
  <2>1. NextKey(t) /\ dom.refs # <<>> /\ ~IsArray(dom)
    BY <1>3, <1>10, Tops DEF Token, InPlaceAt
  <2> QED
    BY <1>5, <1>6, <2>1 DEF NextKey
<1>11. CASE pc = "next" /\ states = <<>>
  <2>1. AtEnd(t)
    BY <1>11 DEF Token
  <2> QED
    BY <1>2, <2>1 DEF AtEnd
<1>12. CASE pc = "next" /\ states # <<>>
  <2>1. Inner("array", t) \/ Inner("object", t)
    BY <1>12, NextSteps DEF Token
  <2>2. dom.refs # <<>>
    BY <1>12, Tops
  <2> QED
    BY <1>2, <1>4, <1>6, <2>1, <2>2 DEF Inner
<1> QED
  BY <1>7, <1>8, <1>9, <1>10, <1>11, <1>12 DEF Good, Places, Parsing

\* The strings that the text may have.
Words == IF todo = Free THEN Word ELSE Str

\* The parser is in step with the grammar.
KeepsUp ==
  /\ todo \in {Free} \cup TokenSeq
  /\ text \in Seq(Tok) /\ GoesOn(Words, text, pc, dom) /\ HeapIn(Words, dom.heap)

\* A token read keeps the parser in step with the grammar.
LEMMA TokenInStep ==
  ASSUME ParserInv, Parsing, KeepsUp, NEW t \in Words \cup NonString, Token(t), text' = Append(text, t),
         todo' \in {Free} \cup TokenSeq, todo' = Free <=> todo = Free
  PROVE  KeepsUp'
<1> DEFINE W == Words
<1>1. W \in SUBSET Str /\ Words' = W
  BY ParserAssumption DEF Words
<1>2. t \in Tok /\ t \in W \cup NonString
  BY <1>1, Marks
<1>3. Good(pc, states, dom)
  BY GoodIsInv
<1>4. text \in Seq(Tok) /\ GoesOn(W, text, pc, dom) /\ HeapIn(W, dom.heap)
  BY DEF KeepsUp
<1> HIDE DEF W
<1>5. text' \in Seq(Tok)
  BY <1>2, <1>4
<1>6. GoesOn(W, text', pc', dom')
  BY <1>1, <1>2, <1>3, <1>4, GoesOnStep
<1>7. HeapIn(W, dom'.heap)
  BY <1>1, <1>2, <1>3, <1>4, TokenIn
<1> QED
  BY <1>1, <1>5, <1>6, <1>7 DEF KeepsUp

\* A parser that has read nothing is in step.
LEMMA StartInStep ==
  ASSUME NEW W PROVE GoesOn(W, <<>>, "value", NoDom) /\ HeapIn(W, NoDom.heap) /\ <<>> \in Seq(Tok)
<1>1. NoDom.heap = <<>>
  BY DEF NoDom
<1> QED
  BY <1>1, GoesOnStart DEF HeapIn

\* Every step of the parser, the second parse included, keeps it in step.
LEMMA ParserInStep ==
  ASSUME ParserInv, KeepsUp, ParseNext \/ \E tokens \in TokenSeq : ParseAgain(tokens)
  PROVE  KeepsUp'
<1>1. Words \in SUBSET Str /\ todo \in {Free} \cup TokenSeq /\ Free \notin TokenSeq
  BY ParserAssumption, DumpAssumption DEF Words, KeepsUp
<1>2. CASE \E tokens \in TokenSeq : ParseAgain(tokens)
  <2>1. pc' = "value" /\ dom' = NoDom /\ text' = <<>> /\ todo' \in TokenSeq
    BY <1>2 DEF ParseAgain, Goto
  <2> QED
    BY <2>1, StartInStep DEF KeepsUp
<1>3. ASSUME NEW tokens \in SUBSET Vocabulary, Parsing, todo = Free, text = <<>>, FirstToken(tokens)
      PROVE  KeepsUp'
  <2>1. todo' = todo /\ Words = Word
    BY <1>3 DEF FirstToken, Words
  <2>2. CASE UNCHANGED <<pc, states, dom, text>>
    <3>1. Words' = Words
      BY <2>1 DEF Words
    <3> QED
      BY <2>1, <2>2, <3>1 DEF KeepsUp
  <2>3. CASE tokens # {} /\ \E t \in tokens : Token(t) /\ text' = <<t>>
    <3>1. PICK t \in tokens : Token(t) /\ text' = <<t>>
      BY <2>3
    <3>2. t \in Words \cup NonString /\ text' = Append(text, t)
      BY <1>3, <2>1, <3>1 DEF Vocabulary
    <3> QED
      BY <1>1, <1>3, <2>1, <3>1, <3>2, TokenInStep
  <2> QED
    BY <1>3, <2>2, <2>3 DEF FirstToken
<1>4. ASSUME NEW t \in Vocabulary, TakeAny(t) PROVE KeepsUp'
  <2>1. /\ Parsing /\ todo = Free /\ Token(t) /\ text' = Append(text, t) /\ todo' = todo
        /\ t \in Words \cup NonString
    BY <1>4 DEF TakeAny, Words, Vocabulary
  <2> QED
    BY <1>1, <2>1, TokenInStep
<1>5. CASE TakeGiven
  <2> DEFINE t == IF todo = <<>> THEN "end" ELSE Head(todo)
  <2>1. /\ Parsing /\ todo # Free /\ Token(t) /\ text' = Append(text, t)
        /\ todo' = IF todo = <<>> THEN <<>> ELSE Tail(todo)
    BY <1>5 DEF TakeGiven
  <2>2. todo \in Seq(Tok) /\ TokenSeq = Seq(Tok)
    <3>1. Str \cup Vocabulary = Tok
      BY ParserAssumption DEF Vocabulary, Tok
    <3>2. TokenSeq = Seq(Tok)
      BY <3>1 DEF TokenSeq
    <3> QED
      BY <1>1, <2>1, <3>2
  <2>3. t \in Tok
    BY <2>2, Marks
  <2>4. todo' \in Seq(Tok)
    BY <2>1, <2>2
  <2>5. Words = Str /\ todo' \in TokenSeq /\ (todo' = Free <=> todo = Free)
    BY <1>1, <2>1, <2>2, <2>4 DEF Words
  <2>6. t \in Words \cup NonString
    BY <2>3, <2>5 DEF Tok
  <2> HIDE DEF t
  <2> QED
    BY <2>1, <2>5, <2>6, TokenInStep
<1>6. CASE ScanFirst
  <2>1. "error" \in NonString
    BY DEF NonString
  <2>2. /\ Parsing /\ todo = Free /\ text = <<>>
        /\ FirstToken(CASE scan' = "open" -> {} [] scan' = "closed" -> Word [] scan' = "rejected" -> {"error"})
    BY <1>6 DEF ScanFirst
  <2>3. scan' \in {"open", "closed", "rejected"}
    BY <1>6 DEF ScanFirst, ScanNext, Raw, ShortEscape, UnicodeEscape, Escape, Quote, Refuse
  <2>4. PICK tokens \in SUBSET Vocabulary : FirstToken(tokens)
    BY <2>1, <2>2, <2>3 DEF Vocabulary
  <2> QED
    BY <1>3, <2>2, <2>4
<1>7. CASE NumberFirst
  <2>1. "error" \in NonString /\ "number" \in NonString
    BY DEF NonString
  <2>2. Parsing /\ todo = Free /\ text = <<>>
    BY <1>7 DEF NumberFirst
  <2>3. PICK tokens \in SUBSET Vocabulary : FirstToken(tokens)
    BY <1>7, <2>1 DEF NumberFirst, Vocabulary
  <2> QED
    BY <1>3, <2>2, <2>3
<1> QED
  BY <1>2, <1>4, <1>5, <1>6, <1>7 DEF ParseNext

\* At every token the parser is in step with the grammar: what goes on with the
\* text to a text of JSON goes on from the state of sax_parse_internal, with the
\* same value in the json_sax_dom_parser.
THEOREM StepInvariance == ParserSpec => [](ParserInv /\ KeepsUp)
<1>1. ParserInit /\ todo \in {Free} \cup TokenSeq => ParserInv /\ KeepsUp
  <2> SUFFICES ASSUME ParserInit, todo \in {Free} \cup TokenSeq PROVE ParserInv /\ KeepsUp
    OBVIOUS
  <2>1. pc = "value" /\ states = <<>> /\ dom = NoDom /\ text = <<>>
    BY DEF ParserInit
  <2>2. ParserInv
    BY <2>1, GoodStartOver, GoodIsInv
  <2> QED
    BY <2>1, <2>2, StartInStep DEF KeepsUp
<1>2. ParserInv /\ KeepsUp /\ UNCHANGED <<parseVars, lexerVars>> => (ParserInv /\ KeepsUp)'
  <2> SUFFICES ASSUME ParserInv, KeepsUp, UNCHANGED parseVars PROVE ParserInv' /\ KeepsUp'
    OBVIOUS
  <2>1. ParserInv'
    BY GoodIsInv DEF parseVars
  <2>2. Words' = Words
    BY DEF Words, parseVars
  <2> QED
    BY <2>1, <2>2 DEF KeepsUp, parseVars
<1>3. ParserInv /\ KeepsUp /\ (ParseNext \/ \E tokens \in TokenSeq : ParseAgain(tokens)) => (ParserInv /\ KeepsUp)'
  BY ParserStep, ParserInStep
<1> QED
  BY <1>1, <1>2, <1>3, PTL DEF ParserSpec

\* Every value of the grammar is a meaning of its text.
LEMMA MeansIs ==
  ASSUME NEW t, NEW v, IsValue(Word, t, v) PROVE Means(t, v)
<1>1. t \in Seq(Tok) /\ <<t, v>> \in Grammar(Word)[Len(t)].values
  BY ParserAssumption, ValueTyped
<1> DEFINE p == <<t, v>>
           g == Grammar(Word)
<1> HIDE DEF p, g
<1>2. p \in g[Len(t)].values
  BY <1>1 DEF p, g
<1>3. Len(t) \in 1 .. MaxTokens - 1 => p \in UNION {g[n].values : n \in 1 .. MaxTokens - 1}
  BY <1>2
<1> QED
  BY <1>1, <1>3 DEF Means, Json, p, g

\* A text of Json, as one of the grammar.
LEMMA JsonIs ==
  ASSUME NEW j \in Json PROVE IsValue(Word, j[1], j[2]) /\ j[1] \in Seq(Tok)
<1> DEFINE g == Grammar(Word)
<1>1. Json = UNION {g[n].values : n \in 1 .. MaxTokens - 1}
  BY DEF Json
<1> HIDE DEF g
<1>2. PICK n \in 1 .. MaxTokens - 1 : j \in g[n].values
  BY <1>1
<1>3. n \in Nat
  BY ParserAssumption
<1>4. LeafText(Word, n, j) \/ EmptyText(n, j) \/ FullText(Word, n, j)
  BY <1>2, <1>3, ValueForm DEF g
<1>5. \E t, v : j = <<t, v>>
  <2>1. CASE LeafText(Word, n, j)
    BY <2>1 DEF LeafText
  <2>2. CASE EmptyText(n, j)
    BY <2>2 DEF EmptyText
  <2>3. CASE FullText(Word, n, j)
    BY <2>3 DEF FullText
  <2> QED
    BY <1>4, <2>1, <2>2, <2>3
<1>6. IsValue(Word, j[1], j[2])
  BY <1>2, <1>3, <1>5 DEF IsValue, g
<1> QED
  BY <1>6, ValueTyped, ParserAssumption

\* A text, and the text with one more token.
LEMMA AtTheEnd ==
  ASSUME NEW t, NEW a, NEW S, t \in Seq(S)
  PROVE  t \o <<a>> # <<>> /\ Front(t \o <<a>>) = t /\ Append(t, a) = t \o <<a>>
<1>1. Append(t, a) = t \o <<a>>
  OBVIOUS
<1>2. t \o <<a>> # <<>> /\ Front(t \o <<a>>) = t
  <2> DEFINE R == S \cup {a}
             q == t \o <<a>>
  <2>1. t \in Seq(R) /\ q \in Seq(R) /\ Len(q) = Len(t) + 1 /\ Len(t) \in Nat
        /\ \A i \in 1 .. Len(t) : q[i] = t[i]
    OBVIOUS
  <2> HIDE DEF q
  <2>2. q # <<>>
    BY <2>1
  <2>3. /\ Front(q) \in Seq(R) /\ Len(Front(q)) = Len(t)
        /\ \A i \in 1 .. Len(t) : Front(q)[i] = q[i]
    BY <2>1, <2>2, FrontLast
  <2>4. Front(q) = t
    BY <2>1, <2>3
  <2> QED
    BY <2>2, <2>4 DEF q
<1> QED
  BY <1>1, <1>2

\* What parse has accepted is a text of the value that it has built.
LEMMA AcceptedText ==
  ASSUME KeepsUp, pc = "accepted"
  PROVE  \E j : IsValue(Words, j, Root) /\ j \in Seq(Tok) /\ text = j \o <<"end">>
<1>1. Words \in SUBSET Str
  BY ParserAssumption DEF Words
<1> DEFINE nothing == <<>>
<1>2. nothing \in Seq(Tok) /\ text \o nothing = text
  BY DEF KeepsUp
<1> HIDE DEF nothing
<1>3. Agrees(Words, pc, dom, nothing, Root)
  BY AgreesAt DEF nothing, Root
<1>4. Denotes(Words, text \o nothing, Root)
  BY <1>2, <1>3 DEF KeepsUp, GoesOn
<1>5. Denotes(Words, text, Root)
  BY <1>2, <1>4
<1>6. PICK j : IsValue(Words, j, Root) /\ text = j \o <<"end">>
  BY <1>5 DEF Denotes
<1> QED
  BY <1>1, <1>6, ValueTyped

\* What is accepted is a text of JSON with that value; what is rejected is the start of none.
LEMMA IsSound == KeepsUp => Sound
<1> SUFFICES ASSUME KeepsUp, pc = "accepted", todo = Free PROVE Means(Front(text), Root)
  BY DEF Sound
<1>1. PICK j : IsValue(Words, j, Root) /\ j \in Seq(Tok) /\ text = j \o <<"end">>
  BY AcceptedText
<1>2. Front(text) = j
  BY <1>1, AtTheEnd
<1> QED
  BY <1>1, <1>2, MeansIs DEF Words

\* A text is its first n tokens and the rest.
LEMMA Divided ==
  ASSUME NEW S, NEW j \in Seq(S), NEW n \in DOMAIN j
  PROVE  /\ SubSeq(j, 1, n) \in Seq(S) /\ SubSeq(j, n + 1, Len(j)) \in Seq(S)
         /\ SubSeq(j, 1, n) \o SubSeq(j, n + 1, Len(j)) = j
<1>1. n \in 1 .. Len(j) /\ Len(j) \in Nat /\ \A i \in 1 .. Len(j) : j[i] \in S
  OBVIOUS
<1>2. SubSeq(j, 1, n) \in Seq(S) /\ SubSeq(j, n + 1, Len(j)) \in Seq(S)
  BY <1>1, SubSeqProperties
<1>3. SubSeq(j, 1, n) \o SubSeq(j, n + 1, Len(j)) = SubSeq(j, 1, Len(j))
  <2>1. 1 \in 1 .. Len(j) + 1 /\ n \in 1 - 1 .. Len(j) /\ Len(j) \in n .. Len(j)
    BY <1>1
  <2> QED
    BY <2>1, ConcatAdjacentSubSeq
<1> QED
  BY <1>2, <1>3, SubSeqFull

\* No JSON text begins as a text does that parse has rejected.
LEMMA RejectedText ==
  ASSUME KeepsUp, pc = "rejected", NEW r \in Seq(Tok), NEW V PROVE ~Denotes(Words, text \o r, V)
<1>1. ~Agrees(Words, pc, dom, r, V)
  BY AgreesAt
<1> QED
  BY <1>1 DEF KeepsUp, GoesOn

\* Every text of JSON is accepted with its value when it has been read.
LEMMA IsComplete == KeepsUp => Complete
<1> SUFFICES ASSUME KeepsUp, pc = "rejected", todo = Free, text \in Begun PROVE FALSE
  BY DEF Complete
<1>1. PICK j \in Json : text \in {SubSeq(j[1], 1, n) : n \in DOMAIN j[1]} \cup {Append(j[1], "end")}
  BY DEF Begun
<1> DEFINE e == <<"end">>
           t == j[1]
           nothing == <<>>
<1>2. IsValue(Word, t, j[2]) /\ t \in Seq(Tok) /\ Words = Word /\ e \in Seq(Tok) /\ nothing \in Seq(Tok)
  BY JsonIs, Marks, OneToken DEF Words
<1>3. Denotes(Words, t \o e, j[2])
  BY <1>2 DEF Denotes
<1> HIDE DEF e, t, nothing
<1>4. CASE \E n \in DOMAIN t : text = SubSeq(t, 1, n)
  <2>1. PICK n \in DOMAIN t : text = SubSeq(t, 1, n)
    BY <1>4
  <2> DEFINE r == SubSeq(t, n + 1, Len(t))
  <2>2. r \in Seq(Tok) /\ text \o r = t /\ text \in Seq(Tok)
    BY <1>2, <2>1, Divided
  <2> HIDE DEF r
  <2>3. r \o e \in Seq(Tok) /\ text \o (r \o e) = t \o e
    <3>1. (text \o r) \o e = text \o (r \o e)
      <4>1. r \in Seq(Tok) /\ text \in Seq(Tok) /\ e \in Seq(Tok)
        BY <1>2, <2>2
      <4> QED
        BY <4>1, ConcatAssociative
    <3>2. r \o e \in Seq(Tok)
      BY <1>2, <2>2, Concat
    <3> QED
      BY <2>2, <3>1, <3>2
  <2> DEFINE q == r \o e
  <2> HIDE DEF q
  <2>4. q \in Seq(Tok) /\ Denotes(Words, text \o q, j[2])
    BY <1>3, <2>3 DEF q
  <2> QED
    BY <2>4, RejectedText
<1>5. CASE text = Append(t, "end")
  <2>1. text = t \o e
    BY <1>2, <1>5, AtTheEnd DEF e
  <2>2. text \in Seq(Tok) /\ text \o nothing = text
    <3>1. text \in Seq(Tok)
      BY DEF KeepsUp
    <3> QED
      BY <3>1 DEF nothing
  <2>3. Denotes(Words, text \o nothing, j[2])
    BY <1>3, <2>1, <2>2
  <2> QED
    BY <1>2, <2>3, RejectedText
<1> QED
  BY <1>1, <1>4, <1>5 DEF t

\* Parts come after what they are a part of.
PartsBelow(tree, N) ==
  /\ N \in Nat /\ DOMAIN tree = 1 .. N
  /\ \A n \in 1 .. N : tree[n][1] \in Container =>
       \E L \in Nat : DOMAIN tree[n][2] = 1 .. L /\ \A i \in 1 .. L : Kid(tree[n], i) \in n + 1 .. N

\* Of the members with one key there is a last one.
IsLastOf(parts, k, i) ==
  i \in DOMAIN parts /\ parts[i][1] = k /\ \A j \in DOMAIN parts : parts[j][1] = k => j <= i
\* The last member with a key is found, and it is the only one.
LEMMA LastMember ==
  ASSUME NEW parts, NEW L \in Nat, DOMAIN parts = 1 .. L, NEW k \in {parts[i][1] : i \in DOMAIN parts}
  PROVE  /\ IsLastOf(parts, k, LastOf(parts, k))
         /\ \A i : IsLastOf(parts, k, i) => LastOf(parts, k) = i
<1> DEFINE S == {m \in Nat : \E i \in 1 .. L : m = L - i /\ parts[i][1] = k}
<1>1. \E m \in Nat : m \in S
  OBVIOUS
<1>2. PICK m \in S : \A j \in S : m <= j
  <2>1. S \subseteq Nat /\ S # {}
    BY <1>1
  <2> HIDE DEF S
  <2> QED
    BY <2>1, LeastNat
<1>3. PICK i \in 1 .. L : m = L - i /\ parts[i][1] = k
  BY <1>2
<1>4. \A j \in 1 .. L : parts[j][1] = k => L - j \in S
  OBVIOUS
<1>5. \A j \in 1 .. L : parts[j][1] = k => j <= i
  <2> HIDE DEF S
  <2> QED
    BY <1>2, <1>3, <1>4
<1>6. IsLastOf(parts, k, i)
  BY <1>3, <1>5 DEF IsLastOf
<1>7. LastOf(parts, k) = CHOOSE x \in DOMAIN parts :
        parts[x][1] = k /\ \A j \in DOMAIN parts : parts[j][1] = k => j <= x
  BY DEF LastOf
<1>8. IsLastOf(parts, k, LastOf(parts, k))
  BY <1>6, <1>7 DEF IsLastOf
<1>9. \A x : IsLastOf(parts, k, x) => LastOf(parts, k) = x
  BY <1>8 DEF IsLastOf
<1> QED
  BY <1>8, <1>9

-----------------------------------------------------------------------------
(* The recursions have solutions.                                          *)

\* The recursion over the parts of a container, from its closing bracket back.
LEMMA RestRecursion ==
  ASSUME NEW node, NEW texts, NEW L \in Nat, Len(node[2]) = L
  PROVE  /\ Rest(node, texts)[L + 1] = <<Closing(node)>>
         /\ \A i \in 1 .. L : Rest(node, texts)[i] = Before(node, i) \o (texts[i] \o Rest(node, texts)[i + 1])
<1> DEFINE N == L + 1
           At(m, g) == IF m = N THEN <<Closing(node)>>
                       ELSE Before(node, m) \o (texts[m] \o g[m + 1])
           From(g, k) == \A m \in 1 .. N : m > N - k => g[m] = At(m, g)
           Reached == {k \in Nat : \E g : From(g, k)}
<1>0. N \in Nat /\ N = Len(node[2]) + 1
  OBVIOUS
<1>1. ASSUME NEW m \in 1 .. N, NEW g, NEW h, \A x \in m + 1 .. N : g[x] = h[x]
      PROVE  At(m, g) = At(m, h)
  <2>1. m # N => g[m + 1] = h[m + 1]
    BY <1>0, <1>1
  <2> HIDE DEF N
  <2> QED
    BY <2>1
<1> HIDE DEF At
<1>2. 0 \in Reached
  <2>1. From(<<>>, 0)
    BY <1>0
  <2> HIDE DEF From
  <2> QED
    BY <2>1
<1>3. ASSUME NEW k \in Nat, k \in Reached PROVE k + 1 \in Reached
  <2>1. PICK g : From(g, k)
    BY <1>3
  <2> DEFINE y == N - k
             h == [x \in 1 .. N |-> IF x = y THEN At(y, g) ELSE g[x]]
  <2>2. ASSUME NEW m \in 1 .. N, m > N - (k + 1) PROVE h[m] = At(m, h)
    <3>1. m >= y /\ \A x \in m + 1 .. N : g[x] = h[x]
      BY <1>0, <2>2
    <3>2. h[m] = IF m = y THEN At(y, g) ELSE g[m]
      OBVIOUS
    <3> HIDE DEF h
    <3>3. At(m, g) = At(m, h)
      BY <1>1, <3>1
    <3>4. m # y => g[m] = At(m, g)
      BY <1>0, <2>1, <3>1
    <3> QED
      BY <3>2, <3>3, <3>4
  <2> HIDE DEF h
  <2>3. From(h, k + 1)
    BY <2>2
  <2> HIDE DEF From
  <2> QED
    BY <2>3
<1>4. PICK g : From(g, N)
  <2>1. Nat \subseteq Reached
    <3> HIDE DEF Reached
    <3> QED
      BY <1>2, <1>3, Induction
  <2>2. N \in Reached
    BY <1>0, <2>1
  <2> HIDE DEF From
  <2> QED
    BY <2>2
<1> DEFINE f == [m \in 1 .. N |-> g[m]]
<1>5. ASSUME NEW m \in 1 .. N PROVE f[m] = At(m, f)
  <2>1. f[m] = At(m, g)
    BY <1>0, <1>4
  <2>2. \A x \in m + 1 .. N : g[x] = f[x]
    BY <1>0
  <2> HIDE DEF f
  <2> QED
    BY <1>1, <2>1, <2>2
<1>6. f = [m \in 1 .. N |-> At(m, f)]
  <2> DEFINE e == [m \in 1 .. N |-> At(m, f)]
  <2>1. \A m \in 1 .. N : f[m] = e[m]
    BY <1>5
  <2>2. f = [m \in 1 .. N |-> f[m]] /\ e = [m \in 1 .. N |-> e[m]]
    OBVIOUS
  <2> HIDE DEF f, e
  <2>3. f = e
    BY <2>1, <2>2
  <2> QED
    BY <2>3 DEF e
<1> HIDE DEF f
<1> DEFINE v == Rest(node, texts)
<1>7. v = CHOOSE u : u = [m \in 1 .. N |-> At(m, u)]
  BY <1>0 DEF Rest, At
<1> HIDE DEF v
<1>8. v = [m \in 1 .. N |-> At(m, v)]
  BY <1>6, <1>7
<1>9. \A i \in 1 .. N : v[i] = At(i, v)
  BY <1>8
<1>10. N \in 1 .. N /\ \A i \in 1 .. L : i \in 1 .. N /\ i # N
  OBVIOUS
<1>11. At(N, v) = <<Closing(node)>>
  BY DEF At
<1>12. ASSUME NEW i \in 1 .. L PROVE At(i, v) = Before(node, i) \o (texts[i] \o v[i + 1])
  BY <1>10 DEF At
<1> HIDE DEF N
<1>13. v[N] = <<Closing(node)>> /\ \A i \in 1 .. L : v[i] = Before(node, i) \o (texts[i] \o v[i + 1])
  BY <1>9, <1>10, <1>11, <1>12
<1> QED
  BY <1>13 DEF v, N

\* The recursion that Spelled states has its solution: parts come after their whole.
LEMMA SpelledRecursion ==
  ASSUME NEW tree, NEW N, PartsBelow(tree, N), NEW n \in 1 .. N
  PROVE  Spelled(tree)[n] =
           IF tree[n][1] \in Container
           THEN <<Opening(tree[n])>> \o
                Rest(tree[n], [i \in DOMAIN tree[n][2] |-> Spelled(tree)[Kid(tree[n], i)]])[1]
           ELSE <<tree[n][2]>>
<1> DEFINE At(m, g) == IF tree[m][1] \in Container
                       THEN <<Opening(tree[m])>> \o
                            Rest(tree[m], [i \in DOMAIN tree[m][2] |-> g[Kid(tree[m], i)]])[1]
                       ELSE <<tree[m][2]>>
           From(g, k) == \A m \in 1 .. N : m > N - k => g[m] = At(m, g)
           Reached == {k \in Nat : \E g : From(g, k)}
<1>0. N \in Nat /\ DOMAIN tree = 1 .. N
  BY DEF PartsBelow
<1>1. ASSUME NEW m \in 1 .. N, NEW g, NEW h, \A x \in m + 1 .. N : g[x] = h[x]
      PROVE  At(m, g) = At(m, h)
  <2>1. CASE tree[m][1] \in Container
    <3> DEFINE F(f) == [i \in DOMAIN tree[m][2] |-> f[Kid(tree[m], i)]]
    <3>1. \A i \in DOMAIN tree[m][2] : g[Kid(tree[m], i)] = h[Kid(tree[m], i)]
      BY <1>1, <2>1 DEF PartsBelow
    <3>2. F(g) = F(h)
      BY <3>1
    <3> HIDE DEF F
    <3>3. \A f : At(m, f) = <<Opening(tree[m])>> \o Rest(tree[m], F(f))[1]
      BY <2>1 DEF F
    <3> HIDE DEF At
    <3> QED
      BY <3>2, <3>3
  <2>2. CASE tree[m][1] \notin Container
    BY <2>2
  <2> QED
    BY <2>1, <2>2
<1> HIDE DEF At
<1>2. 0 \in Reached
  <2>1. From(<<>>, 0)
    BY <1>0
  <2> HIDE DEF From
  <2> QED
    BY <2>1
<1>3. ASSUME NEW k \in Nat, k \in Reached PROVE k + 1 \in Reached
  <2>1. PICK g : From(g, k)
    BY <1>3
  <2> DEFINE y == N - k
             h == [x \in 1 .. N |-> IF x = y THEN At(y, g) ELSE g[x]]
  <2>2. ASSUME NEW m \in 1 .. N, m > N - (k + 1) PROVE h[m] = At(m, h)
    <3>1. m >= y /\ \A x \in m + 1 .. N : g[x] = h[x]
      BY <1>0, <2>2
    <3>2. h[m] = IF m = y THEN At(y, g) ELSE g[m]
      OBVIOUS
    <3> HIDE DEF h
    <3>3. At(m, g) = At(m, h)
      BY <1>1, <3>1
    <3>4. m # y => g[m] = At(m, g)
      BY <1>0, <2>1, <3>1
    <3> QED
      BY <3>2, <3>3, <3>4
  <2> HIDE DEF h
  <2>3. From(h, k + 1)
    BY <2>2
  <2> HIDE DEF From
  <2> QED
    BY <2>3
<1>4. PICK g : From(g, N)
  <2>1. Nat \subseteq Reached
    <3> HIDE DEF Reached
    <3> QED
      BY <1>2, <1>3, Induction
  <2>2. N \in Reached
    BY <1>0, <2>1
  <2> HIDE DEF From
  <2> QED
    BY <2>2
<1> DEFINE f == [m \in 1 .. N |-> g[m]]
<1>5. ASSUME NEW m \in 1 .. N PROVE f[m] = At(m, f)
  <2>1. f[m] = At(m, g)
    BY <1>0, <1>4
  <2>2. \A x \in m + 1 .. N : g[x] = f[x]
    BY <1>0
  <2> HIDE DEF f
  <2> QED
    BY <1>1, <2>1, <2>2
<1>6. f = [m \in 1 .. N |-> At(m, f)]
  <2> DEFINE e == [m \in 1 .. N |-> At(m, f)]
  <2>1. \A m \in 1 .. N : f[m] = e[m]
    BY <1>5
  <2>2. f = [m \in 1 .. N |-> f[m]] /\ e = [m \in 1 .. N |-> e[m]]
    OBVIOUS
  <2> HIDE DEF f, e
  <2>3. f = e
    BY <2>1, <2>2
  <2> QED
    BY <2>3 DEF e
<1> HIDE DEF f
<1> DEFINE v == Spelled(tree)
<1>7. v = CHOOSE u : u = [m \in 1 .. N |-> At(m, u)]
  BY <1>0 DEF Spelled, At, Container
<1> HIDE DEF v
<1>8. v = [m \in 1 .. N |-> At(m, v)]
  BY <1>6, <1>7
<1>9. v[n] = At(n, v)
  BY <1>8
<1> QED
  BY <1>9 DEF At, v

\* A node, when g has the values of its parts.
Meant(node, g) ==
  CASE node[1] = "array" -> <<node[1], [i \in DOMAIN node[2] |-> g[node[2][i]]]>>
    [] node[1] = "object" ->
         <<node[1], [k \in {node[2][i][1] : i \in DOMAIN node[2]} |-> g[node[2][LastOf(node[2], k)][2]]]>>
    [] OTHER -> node

\* So has the one that Meaning states.
LEMMA MeaningRecursion ==
  ASSUME NEW tree, NEW N, PartsBelow(tree, N), NEW n \in 1 .. N
  PROVE  Meaning(tree)[n] = Meant(tree[n], Meaning(tree))
<1> DEFINE At(m, g) == Meant(tree[m], g)
           From(g, k) == \A m \in 1 .. N : m > N - k => g[m] = At(m, g)
           Reached == {k \in Nat : \E g : From(g, k)}
<1>0. N \in Nat /\ DOMAIN tree = 1 .. N
  BY DEF PartsBelow
<1>1. ASSUME NEW m \in 1 .. N, NEW g, NEW h, \A x \in m + 1 .. N : g[x] = h[x]
      PROVE  At(m, g) = At(m, h)
  <2> DEFINE node == tree[m]
             parts == node[2]
  <2>1. CASE node[1] \in Container
    <3>1. \A i \in DOMAIN parts : g[Kid(node, i)] = h[Kid(node, i)]
      BY <1>1, <2>1 DEF PartsBelow
    <3>2. CASE node[1] = "array"
      <4>1. \A i \in DOMAIN parts : g[parts[i]] = h[parts[i]]
        BY <3>1, <3>2 DEF Kid
      <4>2. [i \in DOMAIN parts |-> g[parts[i]]] = [i \in DOMAIN parts |-> h[parts[i]]]
        BY <4>1
      <4> QED
        BY <3>2, <4>2 DEF Meant
    <3>3. CASE node[1] = "object"
      <4> DEFINE S == {parts[i][1] : i \in DOMAIN parts}
                 F(f) == [k \in S |-> f[parts[LastOf(parts, k)][2]]]
      <4>1. ASSUME NEW k \in S PROVE g[parts[LastOf(parts, k)][2]] = h[parts[LastOf(parts, k)][2]]
        <5>1. LastOf(parts, k) \in DOMAIN parts
          <6>1. PICK L \in Nat : DOMAIN parts = 1 .. L
            BY <2>1 DEF PartsBelow
          <6> HIDE DEF parts
          <6>2. IsLastOf(parts, k, LastOf(parts, k))
            BY <4>1, <6>1, LastMember
          <6> QED
            BY <6>2 DEF IsLastOf
        <5> QED
          BY <3>1, <3>3, <5>1 DEF Kid
      <4>2. F(g) = F(h)
        BY <4>1
      <4>3. \A f : Meant(node, f) = <<"object", F(f)>>
        BY <3>3 DEF Meant
      <4> QED
        BY <4>2, <4>3
    <3> QED
      BY <2>1, <3>2, <3>3 DEF Container
  <2>2. CASE node[1] \notin Container
    BY <2>2 DEF Meant, Container
  <2> QED
    BY <2>1, <2>2
<1> HIDE DEF At
<1>2. 0 \in Reached
  <2>1. From(<<>>, 0)
    BY <1>0
  <2> HIDE DEF From
  <2> QED
    BY <2>1
<1>3. ASSUME NEW k \in Nat, k \in Reached PROVE k + 1 \in Reached
  <2>1. PICK g : From(g, k)
    BY <1>3
  <2> DEFINE y == N - k
             h == [x \in 1 .. N |-> IF x = y THEN At(y, g) ELSE g[x]]
  <2>2. ASSUME NEW m \in 1 .. N, m > N - (k + 1) PROVE h[m] = At(m, h)
    <3>1. m >= y /\ \A x \in m + 1 .. N : g[x] = h[x]
      BY <1>0, <2>2
    <3>2. h[m] = IF m = y THEN At(y, g) ELSE g[m]
      OBVIOUS
    <3> HIDE DEF h
    <3>3. At(m, g) = At(m, h)
      BY <1>1, <3>1
    <3>4. m # y => g[m] = At(m, g)
      BY <1>0, <2>1, <3>1
    <3> QED
      BY <3>2, <3>3, <3>4
  <2> HIDE DEF h
  <2>3. From(h, k + 1)
    BY <2>2
  <2> HIDE DEF From
  <2> QED
    BY <2>3
<1>4. PICK g : From(g, N)
  <2>1. Nat \subseteq Reached
    <3> HIDE DEF Reached
    <3> QED
      BY <1>2, <1>3, Induction
  <2>2. N \in Reached
    BY <1>0, <2>1
  <2> HIDE DEF From
  <2> QED
    BY <2>2
<1> DEFINE f == [m \in 1 .. N |-> g[m]]
<1>5. ASSUME NEW m \in 1 .. N PROVE f[m] = At(m, f)
  <2>1. f[m] = At(m, g)
    BY <1>0, <1>4
  <2>2. \A x \in m + 1 .. N : g[x] = f[x]
    BY <1>0
  <2> HIDE DEF f
  <2> QED
    BY <1>1, <2>1, <2>2
<1>6. f = [m \in 1 .. N |-> At(m, f)]
  <2> DEFINE e == [m \in 1 .. N |-> At(m, f)]
  <2>1. \A m \in 1 .. N : f[m] = e[m]
    BY <1>5
  <2>2. f = [m \in 1 .. N |-> f[m]] /\ e = [m \in 1 .. N |-> e[m]]
    OBVIOUS
  <2> HIDE DEF f, e
  <2>3. f = e
    BY <2>1, <2>2
  <2> QED
    BY <2>3 DEF e
<1> HIDE DEF f
<1> DEFINE v == Meaning(tree)
<1>7. v = CHOOSE u : u = [m \in 1 .. N |-> At(m, u)]
  BY <1>0 DEF Meaning, Meant, At
<1> HIDE DEF v
<1>8. v = [m \in 1 .. N |-> At(m, v)]
  BY <1>6, <1>7
<1>9. v[n] = At(n, v)
  BY <1>8
<1> QED
  BY <1>9 DEF At, v

\* A tree with strings of W.
TreeIn(W, tree, N) ==
  /\ N \in Nat /\ DOMAIN tree = 1 .. N
  /\ \A n \in 1 .. N :
       \/ \E t \in W \cup {"null", "number"} : tree[n] = Leaf(t)
       \/ \E kids \in Seq(n + 1 .. N) : tree[n] = <<"array", kids>>
       \/ \E parts \in Seq(W \X (n + 1 .. N)) : tree[n] = <<"object", parts>>

\* The key of an element.
KeyAt(node, i) == IF node[1] = "object" THEN node[2][i][1] ELSE 0
PartsIn(W, node, low, high, L) ==
  /\ L \in Nat /\ Len(node[2]) = L /\ DOMAIN node[2] = 1 .. L
  /\ \A i \in 1 .. L : Kid(node, i) \in low .. high /\ KeyAt(node, i) \in Keys(W, node[1])

\* The parts of a tree are where the two recursions need them.
LEMMA TreeParts ==
  ASSUME NEW W \in SUBSET Str, NEW tree, NEW N, TreeIn(W, tree, N)
  PROVE  /\ PartsBelow(tree, N)
         /\ \A n \in 1 .. N : tree[n][1] \in Container => \E L : PartsIn(W, tree[n], n + 1, N, L)
         /\ \A n \in 1 .. N : tree[n][1] \notin Container => \E t \in W \cup {"null", "number"} : tree[n] = Leaf(t)
<1>1. N \in Nat /\ DOMAIN tree = 1 .. N
  BY DEF TreeIn
<1>2. ASSUME NEW n \in 1 .. N
      PROVE  /\ tree[n][1] \in Container => \E L : PartsIn(W, tree[n], n + 1, N, L)
             /\ tree[n][1] \notin Container => \E t \in W \cup {"null", "number"} : tree[n] = Leaf(t)
  <2> DEFINE node == tree[n]
             kids == node[2]
  <2>1. ASSUME NEW t \in W \cup {"null", "number"}, node = Leaf(t) PROVE node[1] \notin Container
    BY <2>1, BareNodes DEF Scalar
  <2>2. ASSUME NEW x \in Seq(n + 1 .. N), node = <<"array", x>>
        PROVE  PartsIn(W, node, n + 1, N, Len(kids)) /\ node[1] \in Container
    <3>1. node[1] = "array" /\ kids \in Seq(n + 1 .. N) /\ Keys(W, "array") = {0}
      BY <2>2 DEF Keys
    <3>2. Len(kids) \in Nat /\ DOMAIN kids = 1 .. Len(kids) /\ \A i \in 1 .. Len(kids) : kids[i] \in n + 1 .. N
      <4> DEFINE S == n + 1 .. N
      <4>1. kids \in Seq(S)
        BY <3>1
      <4> HIDE DEF S, kids
      <4>2. Len(kids) \in Nat /\ DOMAIN kids = 1 .. Len(kids) /\ \A i \in 1 .. Len(kids) : kids[i] \in S
        BY <4>1
      <4> QED
        BY <4>2 DEF S
    <3>3. \A i : Kid(node, i) = kids[i] /\ KeyAt(node, i) = 0
      BY <3>1 DEF Kid, KeyAt
    <3> HIDE DEF kids
    <3>4. kids = node[2]
      BY DEF kids
    <3> HIDE DEF node
    <3> QED
      BY <3>1, <3>2, <3>3, <3>4 DEF PartsIn, Container
  <2>3. ASSUME NEW x \in Seq(W \X (n + 1 .. N)), node = <<"object", x>>
        PROVE  PartsIn(W, node, n + 1, N, Len(kids)) /\ node[1] \in Container
    <3>1. node[1] = "object" /\ kids \in Seq(W \X (n + 1 .. N)) /\ Keys(W, "object") = W
      BY <2>3 DEF Keys
    <3>2. /\ Len(kids) \in Nat /\ DOMAIN kids = 1 .. Len(kids)
          /\ \A i \in 1 .. Len(kids) : kids[i] \in W \X (n + 1 .. N)
      BY <3>1
    <3>3. \A i \in 1 .. Len(kids) : kids[i][1] \in W /\ kids[i][2] \in n + 1 .. N
      BY <3>2
    <3>4. \A i : Kid(node, i) = kids[i][2] /\ KeyAt(node, i) = kids[i][1]
      BY <3>1 DEF Kid, KeyAt
    <3> HIDE DEF kids
    <3>5. kids = node[2]
      BY DEF kids
    <3> HIDE DEF node
    <3> QED
      BY <3>1, <3>2, <3>3, <3>4, <3>5 DEF PartsIn, Container
  <2>4. \/ \E t \in W \cup {"null", "number"} : node = Leaf(t)
        \/ \E x \in Seq(n + 1 .. N) : node = <<"array", x>>
        \/ \E x \in Seq(W \X (n + 1 .. N)) : node = <<"object", x>>
    BY DEF TreeIn
  <2> HIDE DEF node, kids
  <2>5. /\ node[1] \in Container => \E L : PartsIn(W, node, n + 1, N, L)
        /\ node[1] \notin Container => \E t \in W \cup {"null", "number"} : node = Leaf(t)
    BY <2>1, <2>2, <2>3, <2>4
  <2> QED
    BY <2>5 DEF node
<1>3. PartsBelow(tree, N)
  BY <1>1, <1>2 DEF PartsBelow, PartsIn
<1> QED
  BY <1>2, <1>3

-----------------------------------------------------------------------------
(* The text of a container, and what it means.                              *)

\* The content x has the values of the elements from i on.
IsFrom(node, L, vals, i, x) ==
  IF node[1] = "object"
  THEN /\ x = [k \in DOMAIN x |-> x[k]] /\ DOMAIN x = {KeyAt(node, j) : j \in i .. L}
       /\ \A j \in i .. L : (\A l \in j + 1 .. L : KeyAt(node, l) # KeyAt(node, j)) => x[KeyAt(node, j)] = vals[j]
  ELSE x = [j \in 1 .. L - i + 1 |-> vals[i + j - 1]]

\* After the last part there is no content.
LEMMA FromNone ==
  ASSUME NEW node, NEW L \in Nat, NEW vals PROVE IsFrom(node, L, vals, L + 1, <<>>)
<1>1. L + 1 .. L = {} /\ 1 .. L - (L + 1) + 1 = {} /\ <<>> = [j \in {} |-> 0] /\ DOMAIN <<>> = {}
  OBVIOUS
<1> QED
  BY <1>1 DEF IsFrom

\* One part before a content, with the last of two equal keys kept.
LEMMA FromMore ==
  ASSUME NEW node, node[1] \in Container, NEW L \in Nat, NEW vals, NEW i \in 1 .. L, NEW y,
         IsFrom(node, L, vals, i + 1, y)
  PROVE  IsFrom(node, L, vals, i, Join(node[1], Item(node[1], KeyAt(node, i), vals[i]), y))
<1> DEFINE k == KeyAt(node, i)
           w == vals[i]
           x == Join(node[1], Item(node[1], k, w), y)
<1>1. CASE node[1] = "object"
  <2>1. /\ y = [j \in DOMAIN y |-> y[j]] /\ DOMAIN y = {KeyAt(node, j) : j \in i + 1 .. L}
        /\ \A j \in i + 1 .. L :
             (\A l \in j + 1 .. L : KeyAt(node, l) # KeyAt(node, j)) => y[KeyAt(node, j)] = vals[j]
    BY <1>1 DEF IsFrom
  <2>2. x = [j \in {k} \cup DOMAIN y |-> IF j \in DOMAIN y THEN y[j] ELSE w]
    BY <1>1 DEF Join, Item
  <2>3. i .. L = {i} \cup (i + 1 .. L)
    OBVIOUS
  <2> HIDE DEF k, w, x
  <2>4. /\ x = [j \in DOMAIN x |-> x[j]] /\ DOMAIN x = {k} \cup DOMAIN y
        /\ \A j \in DOMAIN x : x[j] = IF j \in DOMAIN y THEN y[j] ELSE w
    BY <2>2
  <2>5. DOMAIN x = {KeyAt(node, j) : j \in i .. L}
    BY <2>1, <2>3, <2>4 DEF k
  <2>6. ASSUME NEW j \in i .. L, \A l \in j + 1 .. L : KeyAt(node, l) # KeyAt(node, j)
        PROVE  x[KeyAt(node, j)] = vals[j]
    <3>1. CASE j = i
      <4>1. k \notin DOMAIN y
        BY <2>1, <2>6, <3>1 DEF k
      <4> QED
        BY <2>4, <3>1, <4>1 DEF k, w
    <3>2. CASE j # i
      <4>1. j \in i + 1 .. L
        BY <3>2
      <4>2. KeyAt(node, j) \in DOMAIN y /\ y[KeyAt(node, j)] = vals[j]
        BY <2>1, <2>6, <4>1
      <4> QED
        BY <2>4, <4>2
    <3> QED
      BY <3>1, <3>2
  <2>7. IsFrom(node, L, vals, i, x)
    BY <1>1, <2>4, <2>5, <2>6 DEF IsFrom
  <2> QED
    BY <2>7 DEF x, k, w
<1>2. CASE node[1] # "object"
  <2>1. y = [j \in 1 .. L - i |-> vals[i + j]]
    <3>1. y = [j \in 1 .. L - (i + 1) + 1 |-> vals[i + 1 + j - 1]]
      BY <1>2 DEF IsFrom
    <3>2. L - (i + 1) + 1 = L - i /\ \A j \in 1 .. L - i : i + 1 + j - 1 = i + j
      OBVIOUS
    <3> QED
      BY <3>1, <3>2
  <2>2. x = <<w>> \o y
    BY <1>2 DEF Join, Item
  <2> DEFINE S == {vals[j] : j \in 1 .. L}
             m == L - i
             z == [j \in 1 .. m + 1 |-> vals[i + j - 1]]
  <2>3. m \in Nat /\ w \in S /\ y \in [1 .. m -> S]
    BY <2>1
  <2>4. \A j \in 1 .. m : y[j] = vals[i + j]
    BY <2>1
  <2>5. z \in [1 .. m + 1 -> S] /\ z[1] = w /\ \A j \in 1 .. m : z[j + 1] = vals[i + j]
    OBVIOUS
  <2> HIDE DEF S, m, w, x, z
  <2>6. y \in Seq(S) /\ Len(y) = m /\ z \in Seq(S) /\ Len(z) = m + 1
    BY <2>3, <2>5
  <2>7. /\ x \in Seq(S) /\ Len(x) = m + 1 /\ x[1] = w /\ \A j \in 1 .. m : x[j + 1] = y[j]
    BY <2>2, <2>3, <2>6
  <2>8. \A j \in 1 .. m + 1 : x[j] = z[j]
    <3> SUFFICES ASSUME NEW j \in 1 .. m + 1 PROVE x[j] = z[j]
      OBVIOUS
    <3>1. CASE j = 1
      BY <2>5, <2>7, <3>1
    <3>2. CASE j # 1
      <4>1. j - 1 \in 1 .. m /\ j = (j - 1) + 1
        BY <2>3, <3>2
      <4>2. x[j] = y[j - 1] /\ z[j] = vals[i + (j - 1)]
        BY <2>5, <2>7, <4>1
      <4> QED
        BY <2>4, <4>1, <4>2
    <3> QED
      BY <3>1, <3>2
  <2>9. x = z
    BY <2>6, <2>7, <2>8
  <2>10. IsFrom(node, L, vals, i, x)
    BY <1>2, <2>9 DEF IsFrom, z, m
  <2> QED
    BY <2>10 DEF x, k, w
<1> QED
  BY <1>1, <1>2

\* What stands before an element of a container.
Separator(i) == IF i = 1 THEN <<>> ELSE <<Comma>>
Precedes(node, i, q) ==
  Before(node, i) \o q = Separator(i) \o Led(node[1], KeyAt(node, i), q)
\* What stands before a part: a comma unless it is the first, and its key.
LEMMA BeforeIs ==
  ASSUME NEW W \in SUBSET Str, NEW node, node[1] \in Container, NEW i, KeyAt(node, i) \in Keys(W, node[1]),
         NEW q \in Seq(Tok)
  PROVE  Precedes(node, i, q)
<1> DEFINE k == KeyAt(node, i)
<1>1. Comma \in Tok /\ ":" \in Tok
  BY Marks
<1>2. Separator(i) \in Seq(Tok)
  BY <1>1 DEF Separator
<1> DEFINE sep == Separator(i)
           led == IF node[1] = "object" THEN <<node[2][i][1], ":">> ELSE <<>>
<1>3. Before(node, i) = sep \o led
  BY Zenon DEF Before, Separator, Comma
<1>4. led \in Seq(Tok) /\ led \o q = Led(node[1], k, q)
  <2>1. CASE node[1] = "object"
    <3>1. led = <<k, ":">> /\ k \in Tok
      BY <2>1, Marks DEF KeyAt, Keys
    <3> QED
      BY <1>1, <2>1, <3>1 DEF Led
  <2>2. CASE node[1] # "object"
    BY <2>2 DEF Led
  <2> QED
    BY <2>1, <2>2
<1>5. (sep \o led) \o q = sep \o (led \o q)
  <2>1. sep \in Seq(Tok) /\ led \in Seq(Tok)
    BY <1>2, <1>4
  <2> HIDE DEF led, sep
  <2> QED
    BY <2>1, ConcatAssociative
<1> HIDE DEF led, sep
<1> QED
  BY <1>3, <1>4, <1>5 DEF Precedes, sep, k

\* A container from the element i on: the inside of a container, and its end.
RestBody(W, node, texts, vals, L, i) ==
  \E b, x : /\ IsBody(W, node[1], b, x) /\ b \in Seq(Tok) /\ IsFrom(node, L, vals, i, x)
            /\ Rest(node, texts)[i] = Separator(i) \o (b \o <<CloseOf(node[1])>>)

\* The brackets of a node are those of its type.
LEMMA ClosingIs ==
  ASSUME NEW node PROVE Closing(node) = CloseOf(node[1]) /\ Opening(node) = OpenOf(node[1])
BY Zenon DEF Closing, Opening, CloseOf, OpenOf

\* From each part on, what dump writes is a body with the content of those parts.
LEMMA RestText ==
  ASSUME NEW W \in SUBSET Str, NEW node, node[1] \in Container, NEW low, NEW high, NEW L \in Nat,
         PartsIn(W, node, low, high, L), NEW texts, NEW vals,
         \A i \in 1 .. L : IsValue(W, texts[i], vals[i])
  PROVE  \A i \in 1 .. L : RestBody(W, node, texts, vals, L, i)
<1> DEFINE c == node[1]
           close == <<CloseOf(c)>>
           rest == Rest(node, texts)
           T == {i \in 1 .. L : RestBody(W, node, texts, vals, L, i)}
<1>1. close \in Seq(Tok) /\ \A s \in Seq(Tok) : <<Comma>> \o s \in Seq(Tok)
  <2>1. <<>> \in Seq(Tok)
    OBVIOUS
  <2> QED
    BY <2>1, Tokens
<1>2. Len(node[2]) = L /\ \A i \in 1 .. L : KeyAt(node, i) \in Keys(W, c)
  BY DEF PartsIn
<1>3. ASSUME NEW i \in 1 .. L, \A m \in i + 1 .. L : m \in T PROVE i \in T
  <2> DEFINE k == KeyAt(node, i)
             t == texts[i]
             w == vals[i]
             next == rest[i + 1]
  <2>1. IsValue(W, t, w) /\ t \in Seq(Tok) /\ k \in Keys(W, c)
    BY <1>2, ValueTyped
  <2>2. rest[i] = Before(node, i) \o (t \o next)
    BY <1>2, RestRecursion
  <2>3. ASSUME NEW q \in Seq(Tok)
        PROVE  /\ t \o q \in Seq(Tok) /\ Before(node, i) \o (t \o q) = Separator(i) \o (Led(c, k, t) \o q)
               /\ Led(c, k, t) \in Seq(Tok)
    <3> HIDE DEF t, k
    <3>1. t \o q \in Seq(Tok)
      BY <2>1, Concat
    <3> DEFINE p == t \o q
    <3> HIDE DEF p
    <3>2. Before(node, i) \o p = Separator(i) \o Led(c, KeyAt(node, i), p)
      <4>1. KeyAt(node, i) \in Keys(W, node[1])
        BY <1>2
      <4>2. p \in Seq(Tok)
        BY <3>1 DEF p
      <4>3. Precedes(node, i, p)
        BY <4>1, <4>2, BeforeIs
      <4> QED
        BY <4>3 DEF Precedes
    <3>3. Led(c, k, t) \o q = Led(c, k, t \o q)
      BY <2>1, LedConcat
    <3>4. Led(c, k, t) \in Seq(Tok)
      BY <2>1, LedText
    <3> QED
      BY <3>1, <3>2, <3>3, <3>4 DEF p, k
  <2>4. CASE i = L
    <3> DEFINE b == Led(c, k, t)
               x == Join(c, Item(c, k, w), <<>>)
    <3>1. next = close
      <4>1. rest[L + 1] = <<Closing(node)>>
        BY <1>2, RestRecursion
      <4> QED
        BY <2>4, <4>1, ClosingIs
    <3>2. x = Item(c, k, w)
      BY Items, JoinLaws
    <3>3. IsFrom(node, L, vals, i, x)
      <4>1. IsFrom(node, L, vals, i + 1, <<>>)
        BY <2>4, FromNone
      <4> QED
        BY <4>1, FromMore
    <3> HIDE DEF x, t, k, w
    <3>4. BodyOf(W, c, b, x, k, t, w)
      BY <2>1, <3>2 DEF BodyOf
    <3> HIDE DEF b
    <3>5. IsBody(W, c, b, x)
      BY <2>1, <3>4, BodyRule
    <3>6. rest[i] = Separator(i) \o (b \o close) /\ b \in Seq(Tok)
      <4> HIDE DEF rest, close
      <4> QED
        BY <1>1, <2>2, <2>3, <3>1 DEF b
    <3>7. RestBody(W, node, texts, vals, L, i)
      BY <3>3, <3>5, <3>6 DEF RestBody
    <3> QED
      BY <3>7
  <2>5. CASE i # L
    <3>1. i + 1 \in T /\ i + 1 # 1 /\ i + 1 \in 1 .. L
      BY <1>3, <2>5
    <3>2. RestBody(W, node, texts, vals, L, i + 1)
      BY <3>1
    <3>3. PICK s, y : /\ IsBody(W, c, s, y) /\ s \in Seq(Tok) /\ IsFrom(node, L, vals, i + 1, y)
                      /\ next = Separator(i + 1) \o (s \o close)
      BY <3>2 DEF RestBody
    <3> DEFINE comma == <<Comma>>
               b == Led(c, k, t \o (comma \o s))
               x == Join(c, Item(c, k, w), y)
    <3>4. IsFrom(node, L, vals, i, x)
      BY <3>3, FromMore
    <3>5. comma \o s \in Seq(Tok) /\ comma \in Seq(Tok)
      BY <3>3, Tokens
    <3>6. Separator(i + 1) = comma
      BY <3>1 DEF Separator
    <3> HIDE DEF x, t, k, w
    <3>7. BodyOf(W, c, b, x, k, t, w)
      BY <2>1, <3>3 DEF BodyOf, x
    <3> HIDE DEF b
    <3>8. IsBody(W, c, b, x)
      BY <2>1, <3>7, BodyRule
    <3>9. b \in Seq(Tok)
      BY <3>8, ValueTyped
    <3> DEFINE q == comma \o s
    <3>10. b = Led(c, k, t) \o q /\ Led(c, k, t) \in Seq(Tok)
      <4>1. Led(c, k, t) \o (comma \o s) = Led(c, k, t \o (comma \o s))
        BY <2>1, <3>5, LedConcat
      <4>2. Led(c, k, t) \in Seq(Tok)
        BY <2>1, LedText
      <4> QED
        BY <4>1, <4>2 DEF b
    <3>11. q \in Seq(Tok)
      BY <3>5
    <3>12. next = q \o close
      <4> HIDE DEF comma, close, next
      <4>1. (comma \o s) \o close = comma \o (s \o close)
        BY <1>1, <3>3, <3>5, ConcatAssociative
      <4> QED
        BY <3>3, <3>6, <4>1
    <3> HIDE DEF q, comma
    <3>13. rest[i] = Separator(i) \o (b \o close)
      <4> HIDE DEF close, rest, next
      <4> DEFINE l == Led(c, k, t)
                 z == q \o close
      <4>1. l \in Seq(Tok) /\ q \in Seq(Tok) /\ close \in Seq(Tok) /\ b = l \o q
        BY <1>1, <3>10, <3>11
      <4> HIDE DEF l
      <4>2. (l \o q) \o close = l \o z /\ z \in Seq(Tok)
        BY <4>1, Concat, ConcatAssociative
      <4> HIDE DEF z
      <4>3. Before(node, i) \o (t \o z) = Separator(i) \o (l \o z)
        BY <2>3, <4>2 DEF l
      <4>4. rest[i] = Before(node, i) \o (t \o z)
        BY <2>2, <3>12 DEF z
      <4> QED
        BY <4>1, <4>2, <4>3, <4>4
    <3>14. RestBody(W, node, texts, vals, L, i)
      BY <3>4, <3>8, <3>9, <3>13 DEF RestBody
    <3> QED
      BY <3>14
  <2> QED
    BY <2>4, <2>5
<1>4. 1 .. L \subseteq T
  <2> HIDE DEF T
  <2> QED
    BY <1>3, Downward
<1> QED
  BY <1>4

\* The text of a container.
LEMMA ContainerText ==
  ASSUME NEW W \in SUBSET Str, NEW node, node[1] \in Container, NEW low, NEW high, NEW L \in Nat,
         PartsIn(W, node, low, high, L), NEW texts, NEW vals,
         \A i \in 1 .. L : IsValue(W, texts[i], vals[i])
  PROVE  \E x : IsFrom(node, L, vals, 1, x) /\ IsValue(W, <<Opening(node)>> \o Rest(node, texts)[1], <<node[1], x>>)
<1> DEFINE c == node[1]
           close == <<CloseOf(c)>>
           open == <<OpenOf(c)>>
           t == open \o Rest(node, texts)[1]
<1>0. Len(node[2]) = L /\ close \in Seq(Tok)
  <2>1. <<>> \in Seq(Tok)
    OBVIOUS
  <2> QED
    BY <2>1, Tokens DEF PartsIn
<1>1. \E b, x : IsFrom(node, L, vals, 1, x) /\ IsInside(W, c, b, x) /\ Rest(node, texts)[1] = b \o close
  <2>1. CASE L = 0
    <3>1. Rest(node, texts)[1] = <<Closing(node)>>
      <4>1. Rest(node, texts)[L + 1] = <<Closing(node)>>
        BY <1>0, RestRecursion
      <4> QED
        BY <2>1, <4>1
    <3>2. IsFrom(node, L, vals, 1, <<>>)
      <4>1. IsFrom(node, L, vals, L + 1, <<>>)
        BY FromNone
      <4>2. L + 1 = 1
        BY <2>1
      <4> QED
        BY <4>1, <4>2
    <3>3. Rest(node, texts)[1] = <<>> \o close
      BY <1>0, <3>1, ClosingIs
    <3>4. IsInside(W, c, <<>>, <<>>)
      BY DEF IsInside
    <3> QED
      BY <3>2, <3>3, <3>4
  <2>2. CASE L # 0
    <3>1. RestBody(W, node, texts, vals, L, 1)
      BY <2>2, RestText
    <3>2. PICK b, x : /\ IsBody(W, c, b, x) /\ b \in Seq(Tok) /\ IsFrom(node, L, vals, 1, x)
                      /\ Rest(node, texts)[1] = Separator(1) \o (b \o close)
      BY <3>1 DEF RestBody
    <3>3. Separator(1) = <<>>
      BY DEF Separator
    <3> DEFINE z == b \o close
    <3>4. z \in Seq(Tok)
      BY <1>0, <3>2, Concat
    <3> HIDE DEF z
    <3>5. <<>> \o z = z
      BY <3>4
    <3> QED
      BY <3>2, <3>3, <3>5 DEF IsInside, z
  <2> QED
    BY <2>1, <2>2
<1>2. PICK b, x : IsFrom(node, L, vals, 1, x) /\ IsInside(W, c, b, x) /\ Rest(node, texts)[1] = b \o close
  BY <1>1
<1> DEFINE v == <<c, x>>
<1>3. ContainerOf(W, t, v, c, b, x)
  BY <1>2 DEF ContainerOf
<1> HIDE DEF t, v
<1>4. IsValue(W, t, v)
  BY <1>3, ValueRule
<1>5. t = <<Opening(node)>> \o Rest(node, texts)[1]
  BY ClosingIs DEF t
<1> QED
  BY <1>2, <1>4, <1>5 DEF v

\* The content is the one that the tree means.
LEMMA MeantIs ==
  ASSUME NEW W, NEW node, node[1] \in Container, NEW low, NEW high, NEW L \in Nat,
         PartsIn(W, node, low, high, L), NEW g, NEW vals, \A i \in 1 .. L : vals[i] = g[Kid(node, i)],
         NEW x, IsFrom(node, L, vals, 1, x)
  PROVE  Meant(node, g) = <<node[1], x>>
<1> DEFINE parts == node[2]
<1>1. DOMAIN parts = 1 .. L
  BY DEF PartsIn
<1>2. CASE node[1] = "array"
  <2>1. x = [j \in 1 .. L - 1 + 1 |-> vals[1 + j - 1]]
    BY <1>2 DEF IsFrom
  <2>2. L - 1 + 1 = L /\ \A j \in 1 .. L : 1 + j - 1 = j
    OBVIOUS
  <2>3. \A j \in 1 .. L : vals[1 + j - 1] = g[parts[j]]
    BY <1>2, <2>2 DEF Kid
  <2>4. x = [j \in 1 .. L |-> g[parts[j]]]
    BY <2>1, <2>2, <2>3
  <2>5. Meant(node, g) = <<node[1], [i \in DOMAIN parts |-> g[parts[i]]]>>
    BY <1>2 DEF Meant
  <2> QED
    BY <1>1, <2>4, <2>5
<1>3. CASE node[1] = "object"
  <2> DEFINE S == {parts[i][1] : i \in DOMAIN parts}
             y == [k \in S |-> g[parts[LastOf(parts, k)][2]]]
  <2>1. /\ x = [k \in DOMAIN x |-> x[k]] /\ DOMAIN x = {KeyAt(node, j) : j \in 1 .. L}
        /\ \A j \in 1 .. L : (\A l \in j + 1 .. L : KeyAt(node, l) # KeyAt(node, j)) => x[KeyAt(node, j)] = vals[j]
    BY <1>3 DEF IsFrom
  <2>2. \A j \in 1 .. L : KeyAt(node, j) = parts[j][1] /\ Kid(node, j) = parts[j][2]
    BY <1>3 DEF KeyAt, Kid
  <2>3. DOMAIN x = S
    BY <1>1, <2>1, <2>2
  <2>4. ASSUME NEW k \in S PROVE x[k] = g[parts[LastOf(parts, k)][2]]
    <3> DEFINE i == LastOf(parts, k)
    <3>1. IsLastOf(parts, k, i)
      <4> HIDE DEF parts
      <4> QED
        BY <1>1, LastMember
    <3> HIDE DEF i
    <3>2. i \in 1 .. L /\ parts[i][1] = k /\ \A j \in 1 .. L : parts[j][1] = k => j <= i
      BY <1>1, <3>1 DEF IsLastOf
    <3>3. \A l \in i + 1 .. L : KeyAt(node, l) # KeyAt(node, i)
      BY <2>2, <3>2
    <3>4. x[k] = vals[i] /\ vals[i] = g[parts[i][2]]
      BY <2>1, <2>2, <3>2, <3>3
    <3> QED
      BY <3>4 DEF i
  <2>5. x = y
    BY <2>1, <2>3, <2>4
  <2>6. Meant(node, g) = <<node[1], y>>
    BY <1>3 DEF Meant
  <2> QED
    BY <2>5, <2>6
<1> QED
  BY <1>2, <1>3 DEF Container

\* What is written of a tree is JSON for what it means.
LEMMA TreeMeans ==
  ASSUME NEW W \in SUBSET Str, NEW tree, NEW N, TreeIn(W, tree, N)
  PROVE  \A n \in 1 .. N : IsValue(W, Spelled(tree)[n], Meaning(tree)[n])
<1> DEFINE T == {n \in 1 .. N : IsValue(W, Spelled(tree)[n], Meaning(tree)[n])}
<1>1. N \in Nat /\ PartsBelow(tree, N)
  BY TreeParts DEF TreeIn
<1>2. ASSUME NEW n \in 1 .. N, \A m \in n + 1 .. N : m \in T PROVE n \in T
  <2> DEFINE node == tree[n]
             t == Spelled(tree)[n]
             v == Meaning(tree)[n]
  <2>1. v = Meant(node, Meaning(tree))
    BY <1>1, MeaningRecursion
  <2>2. CASE node[1] \in Container
    <3> DEFINE texts == [i \in DOMAIN node[2] |-> Spelled(tree)[Kid(node, i)]]
               vals == [i \in DOMAIN node[2] |-> Meaning(tree)[Kid(node, i)]]
    <3>1. PICK L : PartsIn(W, node, n + 1, N, L)
      BY <2>2, TreeParts
    <3>2. /\ L \in Nat /\ DOMAIN node[2] = 1 .. L /\ \A i \in 1 .. L : Kid(node, i) \in n + 1 .. N
      BY <3>1 DEF PartsIn
    <3>3. t = <<Opening(node)>> \o Rest(node, texts)[1]
      BY <1>1, <2>2, SpelledRecursion
    <3>4. \A i \in 1 .. L : IsValue(W, texts[i], vals[i]) /\ vals[i] = Meaning(tree)[Kid(node, i)]
      BY <1>2, <3>2
    <3> HIDE DEF node, texts, vals, t, v
    <3>5. PICK x : IsFrom(node, L, vals, 1, x) /\ IsValue(W, <<Opening(node)>> \o Rest(node, texts)[1], <<node[1], x>>)
      BY <2>2, <3>1, <3>2, <3>4, ContainerText
    <3>6. v = <<node[1], x>>
      BY <2>1, <2>2, <3>1, <3>2, <3>4, <3>5, MeantIs
    <3>7. IsValue(W, t, v)
      BY <3>3, <3>5, <3>6
    <3> QED
      BY <3>7 DEF t, v
  <2>3. CASE node[1] \notin Container
    <3>1. PICK s \in W \cup {"null", "number"} : node = Leaf(s)
      BY <2>3, TreeParts
    <3>2. t = <<node[2]>> /\ v = node
      BY <1>1, <2>1, <2>3, SpelledRecursion DEF Meant, Container
    <3>3. Leaf(s)[2] = s
      BY DEF Leaf
    <3> HIDE DEF t, v, node
    <3>4. LeafValue(W, t, v)
      BY <3>1, <3>2, <3>3 DEF LeafValue
    <3>5. IsValue(W, t, v)
      BY <3>4, ValueRule
    <3> QED
      BY <3>5 DEF t, v
  <2> QED
    BY <2>2, <2>3
<1>3. 1 .. N \subseteq T
  <2> HIDE DEF T
  <2> QED
    BY <1>1, <1>2, Downward
<1> QED
  BY <1>3

\* The members of an object, in no order, and those with one of the first n keys.
Entries(kids) == {<<k, kids[k]>> : k \in DOMAIN kids}
HasFirst(kids, f, n) ==
  /\ f \in Seq(Entries(kids))
  /\ \A j \in 1 .. n : KeyOrder[j] \in DOMAIN kids =>
       \E i \in DOMAIN f : f[i] = <<KeyOrder[j], kids[KeyOrder[j]]>>

\* Ordered, one key at a time in the order of the map.
LEMMA OrderedRecursion ==
  ASSUME NEW kids
  PROVE  \E f : /\ f[0] = <<>> /\ Ordered(kids) = f[Len(KeyOrder)]
                /\ \A m \in 1 .. Len(KeyOrder) :
                     f[m] = IF KeyOrder[m] \in DOMAIN kids THEN Append(f[m - 1], <<KeyOrder[m], kids[KeyOrder[m]]>>)
                            ELSE f[m - 1]
<1> DEFINE N == Len(KeyOrder)
           AfterKey(m, s) == IF KeyOrder[m] \in DOMAIN kids THEN Append(s, <<KeyOrder[m], kids[KeyOrder[m]]>>) ELSE s
           At(m, g) == IF m = 0 THEN <<>> ELSE AfterKey(m, g[m - 1])
           Upto(g, k) == \A m \in 0 .. N : m < k => g[m] = At(m, g)
           Reached == {k \in Nat : \E g : Upto(g, k)}
<1>0. N \in Nat
  BY DumpAssumption
<1> HIDE DEF N
<1>1. ASSUME NEW m \in 0 .. N, NEW g, NEW h, \A x \in 0 .. m - 1 : g[x] = h[x]
      PROVE  At(m, g) = At(m, h)
  <2>1. m # 0 => g[m - 1] = h[m - 1]
    BY <1>0, <1>1
  <2> HIDE DEF AfterKey
  <2> QED
    BY <2>1
<1> HIDE DEF At
<1>2. 0 \in Reached
  <2>1. Upto(<<>>, 0)
    BY <1>0
  <2> HIDE DEF Upto
  <2> QED
    BY <2>1
<1>3. ASSUME NEW k \in Nat, k \in Reached PROVE k + 1 \in Reached
  <2>1. PICK g : Upto(g, k)
    BY <1>3
  <2> DEFINE h == [x \in 0 .. N |-> IF x = k THEN At(k, g) ELSE g[x]]
  <2>2. ASSUME NEW m \in 0 .. N, m < k + 1 PROVE h[m] = At(m, h)
    <3>1. m <= k /\ \A x \in 0 .. m - 1 : g[x] = h[x]
      BY <1>0, <2>2
    <3>2. h[m] = IF m = k THEN At(k, g) ELSE g[m]
      OBVIOUS
    <3> HIDE DEF h
    <3>3. At(m, g) = At(m, h)
      BY <1>1, <3>1
    <3>4. m # k => g[m] = At(m, g)
      BY <1>0, <2>1, <3>1
    <3> QED
      BY <3>2, <3>3, <3>4
  <2> HIDE DEF h
  <2>3. Upto(h, k + 1)
    BY <2>2
  <2> HIDE DEF Upto
  <2> QED
    BY <2>3
<1>4. PICK g : Upto(g, N + 1)
  <2>1. Nat \subseteq Reached
    <3> HIDE DEF Reached
    <3> QED
      BY <1>2, <1>3, Induction
  <2>2. N + 1 \in Reached
    BY <1>0, <2>1
  <2> HIDE DEF Upto
  <2> QED
    BY <2>2
<1> DEFINE f == [m \in 0 .. N |-> g[m]]
<1>5. ASSUME NEW m \in 0 .. N PROVE f[m] = At(m, f)
  <2>1. f[m] = At(m, g)
    BY <1>0, <1>4
  <2>2. \A x \in 0 .. m - 1 : g[x] = f[x]
    BY <1>0
  <2> HIDE DEF f
  <2> QED
    BY <1>1, <2>1, <2>2
<1>6. f = [m \in 0 .. N |-> At(m, f)]
  <2> DEFINE e == [m \in 0 .. N |-> At(m, f)]
  <2>1. \A m \in 0 .. N : f[m] = e[m]
    BY <1>5
  <2>2. f = [m \in 0 .. N |-> f[m]] /\ e = [m \in 0 .. N |-> e[m]]
    OBVIOUS
  <2> HIDE DEF f, e
  <2>3. f = e
    BY <2>1, <2>2
  <2> QED
    BY <2>3 DEF e
<1> HIDE DEF f
<1> DEFINE v == CHOOSE u : u = [m \in 0 .. N |-> At(m, u)]
<1>7. Ordered(kids) = v[N]
  BY DEF Ordered, At, N
<1>8. v = [m \in 0 .. N |-> At(m, v)]
  BY <1>6
<1> HIDE DEF v
<1>9. \A m \in 0 .. N : v[m] = At(m, v)
  BY <1>8
<1>10. 0 \in 0 .. N /\ \A m \in 1 .. N : m \in 0 .. N /\ m # 0
  BY <1>0
<1>11. v[0] = <<>> /\ \A m \in 1 .. N : v[m] = AfterKey(m, v[m - 1])
  <2>1. v[0] = <<>>
    BY <1>9, <1>10 DEF At
  <2>2. ASSUME NEW m \in 1 .. N PROVE v[m] = AfterKey(m, v[m - 1])
    <3>1. At(m, v) = AfterKey(m, v[m - 1])
      BY <1>10 DEF At
    <3> QED
      BY <1>9, <1>10, <3>1
  <2> QED
    BY <2>1, <2>2
<1> QED
  BY <1>7, <1>11 DEF N

\* Ordered loses no member and invents none.
LEMMA OrderedIs ==
  ASSUME NEW kids, DOMAIN kids \subseteq Str
  PROVE  /\ Ordered(kids) \in Seq(Entries(kids))
         /\ \A k \in DOMAIN kids : \E i \in DOMAIN Ordered(kids) : Ordered(kids)[i] = <<k, kids[k]>>
<1> DEFINE N == Len(KeyOrder)
<1>0. N \in Nat
  BY DumpAssumption
<1>1. PICK f : /\ f[0] = <<>> /\ Ordered(kids) = f[N]
               /\ \A m \in 1 .. N :
                    f[m] = IF KeyOrder[m] \in DOMAIN kids THEN Append(f[m - 1], <<KeyOrder[m], kids[KeyOrder[m]]>>)
                           ELSE f[m - 1]
  BY OrderedRecursion
<1> DEFINE T == {m \in Nat : m <= N => HasFirst(kids, f[m], m)}
<1>2. 0 \in T
  <2>1. HasFirst(kids, <<>>, 0)
    <3>1. <<>> \in Seq(Entries(kids)) /\ 1 .. 0 = {}
      OBVIOUS
    <3> QED
      BY <3>1 DEF HasFirst
  <2> QED
    BY <1>1, <2>1
<1>3. ASSUME NEW m \in Nat, m \in T PROVE m + 1 \in T
  <2> SUFFICES ASSUME m + 1 <= N PROVE HasFirst(kids, f[m + 1], m + 1)
    OBVIOUS
  <2> DEFINE k == KeyOrder[m + 1]
             s == f[m]
             e == <<k, kids[k]>>
             S == Entries(kids)
  <2>1. /\ s \in Seq(S)
        /\ \A j \in 1 .. m : KeyOrder[j] \in DOMAIN kids =>
             \E i \in DOMAIN s : s[i] = <<KeyOrder[j], kids[KeyOrder[j]]>>
    <3>1. HasFirst(kids, s, m)
      BY <1>0, <1>3
    <3> QED
      BY <3>1 DEF HasFirst
  <2>2. m + 1 \in 1 .. N /\ (m + 1) - 1 = m /\ \A j \in 1 .. m + 1 : j = m + 1 \/ j \in 1 .. m
    BY <1>0
  <2>3. f[m + 1] = IF k \in DOMAIN kids THEN Append(s, e) ELSE s
    BY <1>1, <2>2
  <2>4. CASE k \in DOMAIN kids
    <3>1. e \in S
      BY <2>4 DEF Entries
    <3> HIDE DEF e, s, S
    <3>2. Append(s, e) \in Seq(S) /\ Append(s, e)[Len(s) + 1] = e /\ Len(s) + 1 \in DOMAIN Append(s, e)
      BY <2>1, <3>1
    <3>3. \A i \in DOMAIN s : i \in DOMAIN Append(s, e) /\ Append(s, e)[i] = s[i]
      BY <2>1, <3>1
    <3> DEFINE q == Append(s, e)
    <3> HIDE DEF q
    <3>4. f[m + 1] = q
      BY <2>3, <2>4 DEF q
    <3>5. \A j \in 1 .. m + 1 : KeyOrder[j] \in DOMAIN kids =>
            \E i \in DOMAIN q : q[i] = <<KeyOrder[j], kids[KeyOrder[j]]>>
      BY <2>1, <2>2, <3>2, <3>3 DEF e, q
    <3> QED
      BY <3>2, <3>4, <3>5 DEF HasFirst, S, q
  <2>5. CASE k \notin DOMAIN kids
    <3>1. f[m + 1] = s
      BY <2>3, <2>5
    <3>2. \A j \in 1 .. m + 1 : KeyOrder[j] \in DOMAIN kids => j \in 1 .. m
      BY <2>2, <2>5
    <3> QED
      BY <2>1, <3>1, <3>2 DEF HasFirst
  <2> QED
    BY <2>4, <2>5
<1>4. N \in T
  <2> HIDE DEF T
  <2>1. Nat \subseteq T
    BY <1>2, <1>3, Induction
  <2> QED
    BY <1>0, <2>1
<1>5. HasFirst(kids, Ordered(kids), N)
  BY <1>0, <1>1, <1>4
<1>6. \A k \in DOMAIN kids : \E j \in 1 .. N : KeyOrder[j] = k
  BY DumpAssumption
<1> QED
  BY <1>5, <1>6 DEF HasFirst

\* The nodes of a heap, and what an iterator goes through in them.
LEMMA ListedNodes ==
  ASSUME NEW W \in SUBSET Str, NEW heap \in Seq(Node), IsForest(heap), HeapIn(W, heap), NEW n \in 1 .. Len(heap)
  PROVE  \/ /\ heap[n][1] \notin Container /\ Listed(heap)[n] = heap[n]
            /\ \E t \in W \cup {"null", "number"} : heap[n] = Leaf(t)
         \/ \E kids \in Seq(n + 1 .. Len(heap)) :
              heap[n] = <<"array", kids>> /\ Listed(heap)[n] = <<"array", kids>>
         \/ \E kids : /\ DOMAIN kids \subseteq W /\ (\A k \in DOMAIN kids : kids[k] \in n + 1 .. Len(heap))
                      /\ heap[n] = <<"object", kids>> /\ Listed(heap)[n] = <<"object", Ordered(kids)>>
<1> DEFINE node == heap[n]
           N == Len(heap)
<1>1. DOMAIN heap = 1 .. N /\ node \in Node /\ NodeIn(W, node)
  BY DEF HeapIn
<1>2. Listed(heap)[n] = IF node[1] = "object" THEN <<"object", Ordered(node[2])>> ELSE node
  BY <1>1 DEF Listed
<1>3. node[1] \in Container => \A k \in DOMAIN node[2] : node[2][k] \in n + 1 .. N
  BY ForestDescends DEF Descends
<1> HIDE DEF node, N
<1>4. CASE node \in {"string"} \X Str
  <2>1. node = <<"string", node[2]>> /\ node[2] \in W /\ node[2] \in Str
    BY <1>1, <1>4 DEF NodeIn
  <2>2. node = Leaf(node[2]) /\ node[1] \notin Container /\ node[1] # "object"
    BY <2>1 DEF Leaf, Container
  <2> QED
    BY <1>2, <2>1, <2>2 DEF node
<1>5. CASE node \in {<<"null", "null">>, <<"number", "number">>}
  <2>1. "null" \notin Str /\ "number" \notin Str
    BY DumpAssumption DEF NonString
  <2>2. node = Leaf("null") \/ node = Leaf("number")
    BY <1>5, <2>1 DEF Leaf
  <2>3. node[1] \notin Container /\ node[1] # "object"
    BY <1>5 DEF Container
  <2> QED
    BY <1>2, <2>2, <2>3 DEF node
<1>6. CASE node \in {"array"} \X Seq(Nat)
  <2>1. node = <<"array", node[2]>> /\ node[1] = "array" /\ node[2] \in Seq(Nat)
    BY <1>6
  <2>2. \A k \in DOMAIN node[2] : node[2][k] \in n + 1 .. N
    BY <1>3, <2>1 DEF Container
  <2>3. node[2] \in Seq(n + 1 .. N)
    <3> DEFINE S == n + 1 .. N
               s == node[2]
    <3>1. s \in Seq(Nat) /\ \A k \in DOMAIN s : s[k] \in S
      BY <2>1, <2>2
    <3> HIDE DEF S, s
    <3>2. s \in Seq(S)
      BY <3>1
    <3> QED
      BY <3>2 DEF S, s
  <2>4. Listed(heap)[n] = node
    BY <1>2, <2>1
  <2> QED
    BY <2>1, <2>3, <2>4 DEF node, N
<1>7. CASE node \in {"object"} \X UNION {[K -> Nat] : K \in SUBSET Str}
  <2>1. node = <<"object", node[2]>> /\ node[1] = "object"
    BY <1>7
  <2>2. DOMAIN node[2] \subseteq W
    BY <1>1, <2>1 DEF NodeIn
  <2>3. \A k \in DOMAIN node[2] : node[2][k] \in n + 1 .. N
    BY <1>3, <2>1 DEF Container
  <2>4. Listed(heap)[n] = <<"object", Ordered(node[2])>>
    BY <1>2, <2>1
  <2> QED
    BY <2>1, <2>2, <2>3, <2>4 DEF node, N
<1> QED
  BY <1>1, <1>4, <1>5, <1>6, <1>7 DEF Node

\* What was parsed, with members in map order, is a tree of strings of the text.
LEMMA ListedIn ==
  ASSUME NEW W \in SUBSET Str, NEW heap \in Seq(Node), IsForest(heap), HeapIn(W, heap)
  PROVE  TreeIn(W, Listed(heap), Len(heap))
<1> DEFINE N == Len(heap)
           tree == Listed(heap)
<1>1. N \in Nat /\ DOMAIN tree = 1 .. N
  BY DEF Listed
<1>2. ASSUME NEW n \in 1 .. N
      PROVE  \/ \E t \in W \cup {"null", "number"} : tree[n] = Leaf(t)
             \/ \E kids \in Seq(n + 1 .. N) : tree[n] = <<"array", kids>>
             \/ \E parts \in Seq(W \X (n + 1 .. N)) : tree[n] = <<"object", parts>>
  <2>1. ASSUME NEW kids, DOMAIN kids \subseteq W, \A k \in DOMAIN kids : kids[k] \in n + 1 .. N
        PROVE  Ordered(kids) \in Seq(W \X (n + 1 .. N))
    <3>1. Entries(kids) \subseteq W \X (n + 1 .. N)
      BY <2>1 DEF Entries
    <3>2. Ordered(kids) \in Seq(Entries(kids))
      BY <2>1, OrderedIs
    <3> DEFINE S == W \X (n + 1 .. N)
    <3> HIDE DEF S
    <3>3. Entries(kids) \subseteq S
      BY <3>1 DEF S
    <3>4. Ordered(kids) \in Seq(S)
      BY <3>2, <3>3
    <3> QED
      BY <3>4 DEF S
  <2>2. \/ tree[n] = heap[n] /\ \E t \in W \cup {"null", "number"} : heap[n] = Leaf(t)
        \/ \E kids \in Seq(n + 1 .. N) : tree[n] = <<"array", kids>>
        \/ \E kids : /\ DOMAIN kids \subseteq W /\ (\A k \in DOMAIN kids : kids[k] \in n + 1 .. N)
                     /\ tree[n] = <<"object", Ordered(kids)>>
    <3> HIDE DEF tree
    <3>1. \/ /\ heap[n][1] \notin Container /\ tree[n] = heap[n]
             /\ \E t \in W \cup {"null", "number"} : heap[n] = Leaf(t)
          \/ \E kids \in Seq(n + 1 .. N) : heap[n] = <<"array", kids>> /\ tree[n] = <<"array", kids>>
          \/ \E kids : /\ DOMAIN kids \subseteq W /\ (\A k \in DOMAIN kids : kids[k] \in n + 1 .. N)
                       /\ heap[n] = <<"object", kids>> /\ tree[n] = <<"object", Ordered(kids)>>
      BY ListedNodes DEF tree
    <3> QED
      BY <3>1
  <2> QED
    BY <2>1, <2>2
<1> QED
  BY <1>1, <1>2 DEF TreeIn

\* What an iterator goes through means the value.
LEMMA ListedMeans ==
  ASSUME NEW W \in SUBSET Str, NEW heap \in Seq(Node), IsForest(heap), HeapIn(W, heap)
  PROVE  \A n \in 1 .. Len(heap) : Meaning(Listed(heap))[n] = ValueAt(heap)[n]
<1> DEFINE N == Len(heap)
           tree == Listed(heap)
           mean == Meaning(tree)
           val == ValueAt(heap)
           T == {n \in 1 .. N : mean[n] = val[n]}
<1>1. N \in Nat /\ PartsBelow(tree, N)
  <2>1. TreeIn(W, tree, N)
    BY ListedIn
  <2> HIDE DEF tree, N
  <2>2. PartsBelow(tree, N)
    BY <2>1, TreeParts
  <2> QED
    BY <2>2 DEF N
<1>2. ASSUME NEW n \in 1 .. N, \A m \in n + 1 .. N : m \in T PROVE n \in T
  <2>1. mean[n] = Meant(tree[n], mean)
    BY <1>1, MeaningRecursion
  <2>2. /\ heap[n][1] \notin Container => val[n] = heap[n]
        /\ heap[n][1] \in Container => val[n] = <<heap[n][1], [k \in DOMAIN heap[n][2] |-> val[heap[n][2][k]]]>>
    BY ValueIs
  <2>3. \A m \in n + 1 .. N : mean[m] = val[m]
    BY <1>2
  <2>4. \/ heap[n][1] \notin Container /\ tree[n] = heap[n]
        \/ \E kids \in Seq(n + 1 .. N) : heap[n] = <<"array", kids>> /\ tree[n] = <<"array", kids>>
        \/ \E kids : /\ DOMAIN kids \subseteq W /\ (\A k \in DOMAIN kids : kids[k] \in n + 1 .. N)
                     /\ heap[n] = <<"object", kids>> /\ tree[n] = <<"object", Ordered(kids)>>
    BY ListedNodes
  <2> HIDE DEF N, tree, mean, val
  <2>5. ASSUME heap[n][1] \notin Container, tree[n] = heap[n] PROVE mean[n] = val[n]
    BY <2>1, <2>2, <2>5 DEF Meant, Container
  <2>6. ASSUME NEW kids \in Seq(n + 1 .. N), heap[n] = <<"array", kids>>, tree[n] = <<"array", kids>>
        PROVE  mean[n] = val[n]
    <3>1. \A k \in DOMAIN kids : mean[kids[k]] = val[kids[k]]
      <4> DEFINE S == n + 1 .. N
      <4>1. kids \in Seq(S)
        OBVIOUS
      <4> HIDE DEF S
      <4>2. \A k \in DOMAIN kids : kids[k] \in S
        BY <4>1
      <4> QED
        BY <2>3, <4>2 DEF S
    <3>2. [k \in DOMAIN kids |-> mean[kids[k]]] = [k \in DOMAIN kids |-> val[kids[k]]]
      BY <3>1
    <3>3. mean[n] = <<"array", [k \in DOMAIN kids |-> mean[kids[k]]]>>
      BY <2>1, <2>6 DEF Meant
    <3>4. val[n] = <<"array", [k \in DOMAIN kids |-> val[kids[k]]]>>
      BY <2>2, <2>6 DEF Container
    <3> QED
      BY <3>2, <3>3, <3>4
  <2>7. ASSUME NEW kids, DOMAIN kids \subseteq W, \A k \in DOMAIN kids : kids[k] \in n + 1 .. N,
               heap[n] = <<"object", kids>>, tree[n] = <<"object", Ordered(kids)>>
        PROVE  mean[n] = val[n]
    <3> DEFINE parts == Ordered(kids)
               S == {parts[i][1] : i \in DOMAIN parts}
    <3>1. parts \in Seq(Entries(kids)) /\ \A k \in DOMAIN kids : \E i \in DOMAIN parts : parts[i] = <<k, kids[k]>>
      BY <2>7, OrderedIs
    <3> HIDE DEF parts
    <3>2. /\ Len(parts) \in Nat /\ DOMAIN parts = 1 .. Len(parts)
          /\ \A i \in DOMAIN parts : parts[i] \in Entries(kids)
      BY <3>1
    <3>3. \A i \in DOMAIN parts : parts[i][1] \in DOMAIN kids /\ parts[i][2] = kids[parts[i][1]]
      BY <3>2 DEF Entries
    <3>4. S = DOMAIN kids
      <4>1. S \subseteq DOMAIN kids
        BY <3>3
      <4>2. ASSUME NEW k \in DOMAIN kids PROVE k \in S
        <5>1. PICK i \in DOMAIN parts : parts[i] = <<k, kids[k]>>
          BY <3>1
        <5>2. parts[i][1] = k
          BY <5>1
        <5> QED
          BY <5>2
      <4> HIDE DEF S
      <4> QED
        BY <4>1, <4>2
    <3>5. ASSUME NEW k \in S PROVE mean[parts[LastOf(parts, k)][2]] = val[kids[k]]
      <4>1. IsLastOf(parts, k, LastOf(parts, k))
        BY <3>2, LastMember
      <4>2. parts[LastOf(parts, k)][2] = kids[k]
        BY <3>3, <4>1 DEF IsLastOf
      <4> QED
        BY <2>3, <2>7, <3>4, <4>2
    <3>6. [k \in S |-> mean[parts[LastOf(parts, k)][2]]] = [k \in DOMAIN kids |-> val[kids[k]]]
      <4> HIDE DEF S
      <4> QED
        BY <3>4, <3>5
    <3>7. mean[n] = <<"object", [k \in S |-> mean[parts[LastOf(parts, k)][2]]]>>
      BY <2>1, <2>7 DEF Meant, parts
    <3>8. val[n] = <<"object", [k \in DOMAIN kids |-> val[kids[k]]]>>
      BY <2>2, <2>7 DEF Container
    <3> QED
      BY <3>6, <3>7, <3>8
  <2>8. mean[n] = val[n]
    BY <2>4, <2>5, <2>6, <2>7
  <2> QED
    BY <2>8
<1>3. 1 .. N \subseteq T
  <2> HIDE DEF T
  <2> QED
    BY <1>1, <1>2, Downward
<1> QED
  BY <1>3

\* What dump writes of a value is JSON for the value.
LEMMA DumpMeans ==
  ASSUME NEW W \in SUBSET Str, NEW heap \in Seq(Node), IsForest(heap), HeapIn(W, heap)
  PROVE  \A n \in 1 .. Len(heap) : IsValue(W, Dump(heap)[n], ValueAt(heap)[n])
<1>1. \A n \in 1 .. Len(heap) : IsValue(W, Spelled(Listed(heap))[n], Meaning(Listed(heap))[n])
  BY ListedIn, TreeMeans
<1> QED
  BY <1>1, ListedMeans DEF Dump

\* What dump writes of what was accepted is a text of the same value.
LEMMA IsDumpedAgain == ParserInv /\ KeepsUp => DumpedAgain
<1> SUFFICES ASSUME ParserInv, KeepsUp, pc = "accepted", todo = Free PROVE Means(Dump(dom.heap)[1], Root)
  BY DEF DumpedAgain
<1>1. dom.heap \in Seq(Node) /\ IsForest(dom.heap) /\ dom.heap # <<>>
  BY DEF ParserInv, ParserTypeOK, InPlace
<1>2. Len(dom.heap) \in Nat /\ 1 \in 1 .. Len(dom.heap)
  BY <1>1
<1>3. HeapIn(Word, dom.heap) /\ Word \in SUBSET Str
  BY ParserAssumption DEF KeepsUp, Words
<1> QED
  BY <1>1, <1>2, <1>3, DumpMeans, MeansIs DEF Root

\* A text is accepted if and only if it is JSON, the value is the one it denotes, and
\* dump gives JSON for that value again, whatever the words, the bound and the text.
THEOREM JsonCorrectness == ParserSpec => []ParsesJson
<1>1. ParserInv /\ KeepsUp => ParsesJson
  BY InvAligned, IsSound, IsComplete, IsDumpedAgain DEF ParsesJson
<1> QED
  BY <1>1, StepInvariance, PTL

=============================================================================
