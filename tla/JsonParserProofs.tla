-------------------------- MODULE JsonParserProofs --------------------------
(* Theorems about JsonParser, for texts of any length. *)
EXTENDS JsonParser, TLAPS, SequenceTheorems

Container == {"object", "array"}

\* Front and Last, of a sequence that is not empty.
LEMMA FrontLast ==
  ASSUME NEW S, NEW s \in Seq(S), s # <<>>
  PROVE  /\ Last(s) \in S /\ Last(s) = s[Len(s)]
         /\ Front(s) \in Seq(S) /\ Len(s) \in Nat /\ Len(s) >= 1
         /\ Len(Front(s)) = Len(s) - 1
         /\ \A i \in 1 .. Len(s) - 1 : Front(s)[i] = s[i]
<1>1. Len(s) \in Nat /\ Len(s) >= 1
  OBVIOUS
<1>2. Last(s) \in S /\ Last(s) = s[Len(s)]
  BY <1>1 DEF Last
<1> DEFINE m == Len(s) - 1
<1>3. m \in Int /\ 1 \in Int /\ \A i \in 1 .. m : s[i] \in S
  BY <1>1
<1> HIDE DEF m
<1>4. /\ SubSeq(s, 1, m) \in Seq(S)
      /\ Len(SubSeq(s, 1, m)) = IF 1 <= m THEN m - 1 + 1 ELSE 0
      /\ \A i \in 1 .. m - 1 + 1 : SubSeq(s, 1, m)[i] = s[1 + i - 1]
  BY <1>3, SubSeqProperties
<1>5. m = Len(s) - 1 /\ Front(s) = SubSeq(s, 1, m)
  BY DEF m, Front
<1> HIDE DEF m
<1> QED
  BY <1>1, <1>2, <1>3, <1>4, <1>5

\* The nodes, by type.
LEMMA Nodes ==
  ASSUME NEW node \in Node
  PROVE  /\ node = <<node[1], node[2]>>
         /\ node[1] = "array" => node[2] \in Seq(Nat)
         /\ node[1] = "object" =>
              node[2] \in [DOMAIN node[2] -> Nat] /\ DOMAIN node[2] \subseteq Str
BY DEF Node

LEMMA ArrayNode ==
  ASSUME NEW kids \in Seq(Nat) PROVE <<"array", kids>> \in Node
BY DEF Node

LEMMA ObjectNode ==
  ASSUME NEW K \in SUBSET Str, NEW kids \in [K -> Nat] PROVE <<"object", kids>> \in Node
BY DEF Node

\* What a value is when it is put in its place.
Bare(node) == node \in Node /\ (node[1] \in Container => node[2] = <<>>)

LEMMA BareNodes ==
  /\ \A t \in Scalar : Bare(Leaf(t)) /\ Leaf(t)[1] \notin Container
  /\ \A type \in Container : Bare(<<type, <<>> >>)
<1>1. <<>> \in Seq(Nat) /\ <<>> \in [{} -> Nat]
  OBVIOUS
<1>2. <<"array", <<>> >> \in Node
  BY <1>1, ArrayNode
<1>3. <<"object", <<>> >> \in Node
  BY <1>1, ObjectNode
<1>4. ASSUME NEW t \in Scalar PROVE Bare(Leaf(t)) /\ Leaf(t)[1] \notin Container
  BY DEF Scalar, Leaf, Bare, Node, Container
<1> QED
  BY <1>2, <1>3, <1>4 DEF Bare, Container

LEMMA BareContent ==
  ASSUME NEW heap, NEW n, Bare(heap[n]) PROVE DOMAIN Content(heap, n) = {}
<1>1. DOMAIN <<>> = {}
  OBVIOUS
<1> QED
  BY <1>1 DEF Bare, Content, Container

\* The heap with one more value, in a container whose content becomes kids.
Put(heap, b, kids, node) == Append([heap EXCEPT ![b][2] = kids], node)

CanPut(heap, b, type, kids, node) ==
  /\ heap \in Seq(Node) /\ b \in 1 .. Len(heap) /\ heap[b][1] = type
  /\ <<type, kids>> \in Node /\ node \in Node

LEMMA Replaced ==
  ASSUME NEW heap, NEW b, NEW type, NEW kids, NEW node, CanPut(heap, b, type, kids, node)
  PROVE  LET new == Put(heap, b, kids, node) IN
         /\ new \in Seq(Node) /\ Len(new) = Len(heap) + 1
         /\ \A i \in 1 .. Len(heap) : i # b => new[i] = heap[i]
         /\ new[b] = <<type, kids>> /\ new[Len(heap) + 1] = node
<1> USE DEF CanPut
<1> DEFINE c == <<type, kids>>
           mid == [heap EXCEPT ![b] = c]
<1>1. heap[b] = <<heap[b][1], heap[b][2]>>
  BY Nodes
<1>2. [heap[b] EXCEPT ![2] = kids] = c
  BY <1>1
<1>3. [heap EXCEPT ![b][2] = kids] = mid
  BY <1>2
<1>4. mid \in Seq(Node) /\ Len(mid) = Len(heap)
  BY ExceptSeq
<1>5. mid[b] = c /\ \A i \in 1 .. Len(heap) : i # b => mid[i] = heap[i]
  OBVIOUS
<1> HIDE DEF mid
<1>6. /\ Append(mid, node) \in Seq(Node) /\ Len(Append(mid, node)) = Len(heap) + 1
      /\ \A i \in 1 .. Len(heap) : Append(mid, node)[i] = mid[i]
      /\ Append(mid, node)[Len(heap) + 1] = node
  BY <1>4, AppendProperties
<1>7. Put(heap, b, kids, node) = Append(mid, node)
  BY <1>3 DEF Put
<1> QED
  BY <1>5, <1>6, <1>7

\* A container gets one more value: emplace_back, or operator[] with a new key.
Gains(heap, new, b, k) ==
  /\ heap \in Seq(Node) /\ b \in 1 .. Len(heap) /\ heap[b][1] \in Container
  /\ new \in Seq(Node) /\ Len(new) = Len(heap) + 1
  /\ \A i \in 1 .. Len(heap) : i # b => new[i] = heap[i]
  /\ new[b][1] = heap[b][1]
  /\ k \notin DOMAIN heap[b][2] /\ DOMAIN new[b][2] = DOMAIN heap[b][2] \cup {k}
  /\ \A j \in DOMAIN heap[b][2] : new[b][2][j] = heap[b][2][j]
  /\ new[b][2][k] = Len(heap) + 1
  /\ Bare(new[Len(heap) + 1])

LEMMA Grown ==
  ASSUME NEW heap, NEW new, NEW b, NEW k, Gains(heap, new, b, k), IsForest(heap)
  PROVE  /\ IsForest(new)
         /\ \A i \in 1 .. Len(heap) : new[i][1] = heap[i][1]
         /\ \A i \in 1 .. Len(heap) : i # b => Content(new, i) = Content(heap, i)
         /\ k \in DOMAIN Content(new, b) /\ Content(new, b)[k] = Len(heap) + 1
<1> DEFINE last == Len(heap) + 1
           kids == new[b][2]
<1>1. /\ heap \in Seq(Node) /\ Len(heap) \in Nat /\ last \in Nat
      /\ b \in 1 .. Len(heap) /\ heap[b][1] \in Container
  BY DEF Gains
<1>2. /\ k \notin DOMAIN heap[b][2] /\ DOMAIN kids = DOMAIN heap[b][2] \cup {k}
      /\ \A j \in DOMAIN heap[b][2] : kids[j] = heap[b][2][j]
      /\ kids[k] = last
  BY DEF Gains
<1>3. new \in Seq(Node) /\ Len(new) = last /\ Bare(new[last])
  BY DEF Gains
<1>4. /\ \A i \in 1 .. Len(heap) : i # b => new[i] = heap[i]
      /\ new[b][1] = heap[b][1]
  BY DEF Gains
<1>5. \A i \in 1 .. Len(heap) : i # b => Content(new, i) = Content(heap, i)
  BY <1>4 DEF Content
<1>6. Content(new, b) = kids /\ Content(heap, b) = heap[b][2]
  BY <1>1, <1>4 DEF Content, Container
<1> HIDE DEF kids
<1>7. DOMAIN Content(new, last) = {}
  BY <1>3, BareContent
<1>8. /\ DOMAIN heap = 1 .. Len(heap) /\ DOMAIN new = 1 .. last
      /\ \A i \in DOMAIN new : i \in DOMAIN heap \/ i = last
      /\ \A i \in DOMAIN heap : i \in DOMAIN new /\ i # last
  BY <1>1, <1>3
<1>9. \A n \in DOMAIN heap : \A j \in DOMAIN Content(heap, n) :
        Content(heap, n)[j] \in n + 1 .. Len(heap)
  BY DEF IsForest
<1>10. \A n \in DOMAIN heap : \A j \in DOMAIN Content(heap, n) :
        \A m \in DOMAIN heap : \A l \in DOMAIN Content(heap, m) :
          Content(heap, m)[l] = Content(heap, n)[j] => m = n /\ l = j
  BY DEF IsForest
\* What is in a container is there from before, or is the new value.
<1>11. ASSUME NEW n \in DOMAIN new, NEW j \in DOMAIN Content(new, n)
       PROVE  /\ n \in DOMAIN heap
              /\ \/ /\ j \in DOMAIN Content(heap, n)
                    /\ Content(new, n)[j] = Content(heap, n)[j]
                    /\ Content(new, n)[j] \in n + 1 .. Len(heap)
                 \/ n = b /\ j = k /\ Content(new, n)[j] = last
  <2>1. n \in DOMAIN heap
    BY <1>7, <1>8, <1>11
  <2>2. CASE n = b
    BY <1>2, <1>6, <1>9, <2>1, <2>2, <1>11
  <2>3. CASE n # b
    BY <1>5, <1>8, <1>9, <2>1, <2>3, <1>11
  <2> QED
    BY <2>1, <2>2, <2>3
<1>12. IsForest(new)
  <2> SUFFICES ASSUME NEW n \in DOMAIN new, NEW j \in DOMAIN Content(new, n)
               PROVE  /\ Content(new, n)[j] \in n + 1 .. Len(new)
                      /\ \A m \in DOMAIN new : \A l \in DOMAIN Content(new, m) :
                           Content(new, m)[l] = Content(new, n)[j] => m = n /\ l = j
    BY DEF IsForest
  <2>1. Content(new, n)[j] \in n + 1 .. Len(new)
    <3>1. n \in Nat /\ n < last /\ Len(heap) \in Nat /\ Len(new) = Len(heap) + 1
      <4>1. n \in DOMAIN heap
        BY <1>11
      <4> QED
        BY <1>1, <1>3, <4>1
    <3>2. \/ Content(new, n)[j] \in n + 1 .. Len(heap)
          \/ Content(new, n)[j] = Len(heap) + 1
      BY <1>11
    <3> QED
      BY <3>1, <3>2
  <2>2. ASSUME NEW m \in DOMAIN new, NEW l \in DOMAIN Content(new, m),
               Content(new, m)[l] = Content(new, n)[j]
        PROVE  m = n /\ l = j
    <3>1. last \notin n + 1 .. Len(heap) /\ last \notin m + 1 .. Len(heap)
      BY <1>1, <1>8
    <3> HIDE DEF last
    <3>2. /\ n \in DOMAIN heap
          /\ \/ /\ j \in DOMAIN Content(heap, n) /\ Content(new, n)[j] # last
                /\ Content(new, n)[j] = Content(heap, n)[j]
             \/ n = b /\ j = k /\ Content(new, n)[j] = last
      BY <1>11, <3>1
    <3>3. /\ m \in DOMAIN heap
          /\ \/ /\ l \in DOMAIN Content(heap, m) /\ Content(new, m)[l] # last
                /\ Content(new, m)[l] = Content(heap, m)[l]
             \/ m = b /\ l = k /\ Content(new, m)[l] = last
      BY <1>11, <2>2, <3>1
    <3>4. CASE Content(new, n)[j] = last
      BY <2>2, <3>2, <3>3, <3>4
    <3>5. CASE Content(new, n)[j] # last
      <4>1. /\ j \in DOMAIN Content(heap, n) /\ l \in DOMAIN Content(heap, m)
            /\ Content(heap, m)[l] = Content(heap, n)[j]
        BY <2>2, <3>2, <3>3, <3>5
      <4> QED
        BY <1>10, <3>2, <3>3, <4>1
    <3> QED
      BY <3>4, <3>5
  <2> QED
    BY <2>1, <2>2
<1>13. \A i \in 1 .. Len(heap) : new[i][1] = heap[i][1]
  BY <1>4
<1> QED
  BY <1>2, <1>5, <1>6, <1>12, <1>13

LEMMA OneMore ==
  ASSUME NEW n \in Nat PROVE n + 1 \notin 1 .. n /\ 1 .. n + 1 = (1 .. n) \cup {n + 1}
OBVIOUS

\* emplace_back
LEMMA ArrayGrown ==
  ASSUME NEW heap \in Seq(Node), IsForest(heap),
         NEW b \in 1 .. Len(heap), heap[b][1] = "array",
         NEW node, Bare(node),
         NEW new, new = Put(heap, b, Append(heap[b][2], Len(heap) + 1), node)
  PROVE  /\ new \in Seq(Node) /\ Len(new) = Len(heap) + 1 /\ IsForest(new)
         /\ \A i \in 1 .. Len(heap) : new[i][1] = heap[i][1]
         /\ \A i \in 1 .. Len(heap) : i # b => Content(new, i) = Content(heap, i)
         /\ \E k \in DOMAIN Content(new, b) : Content(new, b)[k] = Len(heap) + 1
         /\ new[Len(heap) + 1] = node
         /\ Gains(heap, new, b, Len(heap[b][2]) + 1)
<1> DEFINE old == heap[b][2]
           last == Len(heap) + 1
           kids == Append(old, last)
           k == Len(old) + 1
<1>1. old \in Seq(Nat) /\ last \in Nat
  BY Nodes
<1>2. new = Put(heap, b, kids, node)
  OBVIOUS
<1> HIDE DEF old, last
<1>3. /\ kids \in Seq(Nat) /\ Len(kids) = k
      /\ \A i \in 1 .. Len(old) : kids[i] = old[i]
      /\ kids[k] = last
  BY <1>1, AppendProperties
<1>4. DOMAIN old = 1 .. Len(old) /\ Len(old) \in Nat /\ DOMAIN kids = 1 .. Len(old) + 1
  BY <1>1, <1>3
<1> HIDE DEF kids
<1>5. k \notin DOMAIN old /\ DOMAIN kids = DOMAIN old \cup {k}
  BY <1>4, OneMore
<1>6. <<"array", kids>> \in Node /\ node \in Node
  BY <1>3, ArrayNode DEF Bare
<1>7. /\ new \in Seq(Node) /\ Len(new) = Len(heap) + 1
      /\ \A i \in 1 .. Len(heap) : i # b => new[i] = heap[i]
      /\ new[b] = <<"array", kids>> /\ new[Len(heap) + 1] = node
  <2>1. CanPut(heap, b, "array", kids, node)
    BY <1>6 DEF CanPut
  <2> QED
    BY <1>2, <2>1, Replaced
<1>8. Gains(heap, new, b, k)
  <2>1. /\ new[b][1] = "array" /\ new[b][2] = kids /\ kids[k] = Len(heap) + 1
        /\ Bare(new[Len(heap) + 1])
    BY <1>3, <1>7 DEF last
  <2>2. k \notin DOMAIN heap[b][2] /\ DOMAIN kids = DOMAIN heap[b][2] \cup {k}
    BY <1>5 DEF old
  <2>3. \A j \in DOMAIN heap[b][2] : kids[j] = heap[b][2][j]
    BY <1>3, <1>4 DEF old
  <2> HIDE DEF k
  <2> QED
    BY <1>7, <2>1, <2>2, <2>3 DEF Gains, Container
<1>9. Gains(heap, new, b, Len(heap[b][2]) + 1)
  BY <1>8 DEF k, old
<1> HIDE DEF k
<1> QED
  BY <1>7, <1>8, <1>9, Grown

\* operator[] with a new key
AddsKey(heap, b, k, kids) ==
  /\ heap \in Seq(Node) /\ b \in 1 .. Len(heap) /\ heap[b][1] = "object"
  /\ k \in Str /\ k \notin DOMAIN heap[b][2]
  /\ kids \in [DOMAIN heap[b][2] \cup {k} -> Nat]
  /\ \A j \in DOMAIN heap[b][2] : kids[j] = heap[b][2][j]
  /\ kids[k] = Len(heap) + 1

LEMMA ObjectGrown ==
  ASSUME NEW heap, IsForest(heap), NEW b, NEW k, NEW kids, AddsKey(heap, b, k, kids),
         NEW node, Bare(node), NEW new, new = Put(heap, b, kids, node)
  PROVE  /\ new \in Seq(Node) /\ Len(new) = Len(heap) + 1 /\ IsForest(new)
         /\ \A i \in 1 .. Len(heap) : new[i][1] = heap[i][1]
         /\ \A i \in 1 .. Len(heap) : i # b => Content(new, i) = Content(heap, i)
         /\ k \in DOMAIN Content(new, b) /\ Content(new, b)[k] = Len(heap) + 1
         /\ new[Len(heap) + 1] = node /\ Gains(heap, new, b, k)
<1>1. DOMAIN heap[b][2] \cup {k} \in SUBSET Str
  BY Nodes DEF AddsKey
<1>2. DOMAIN kids = DOMAIN heap[b][2] \cup {k}
  BY DEF AddsKey
<1>3. <<"object", kids>> \in Node /\ node \in Node
  BY <1>1, ObjectNode DEF Bare, AddsKey
<1>4. /\ new \in Seq(Node) /\ Len(new) = Len(heap) + 1
      /\ \A i \in 1 .. Len(heap) : i # b => new[i] = heap[i]
      /\ new[b] = <<"object", kids>> /\ new[Len(heap) + 1] = node
  <2>1. CanPut(heap, b, "object", kids, node)
    BY <1>3 DEF CanPut, AddsKey
  <2> QED
    BY <2>1, Replaced
<1>5. Gains(heap, new, b, k)
  <2>1. new[b][1] = "object" /\ new[b][2] = kids /\ Bare(new[Len(heap) + 1])
    BY <1>4
  <2>2. "object" \in Container
    BY DEF Container
  <2> QED
    BY <1>2, <1>4, <2>1, <2>2 DEF Gains, AddsKey
<1> QED
  BY <1>4, <1>5, Grown

\* A value takes the place of another, which goes with all it holds.
LEMMA Overwritten ==
  ASSUME NEW heap \in Seq(Node), IsForest(heap), NEW e \in 1 .. Len(heap),
         NEW node, Bare(node), NEW new, new = [heap EXCEPT ![e] = node]
  PROVE  /\ new \in Seq(Node) /\ Len(new) = Len(heap) /\ IsForest(new)
         /\ \A i \in 1 .. Len(heap) :
              i # e => new[i][1] = heap[i][1] /\ Content(new, i) = Content(heap, i)
         /\ new[e] = node
<1>1. new \in Seq(Node) /\ Len(new) = Len(heap)
  BY ExceptSeq DEF Bare
<1>2. new[e] = node /\ \A i \in 1 .. Len(heap) : i # e => new[i] = heap[i]
  OBVIOUS
<1>3. /\ \A i \in 1 .. Len(heap) : i # e => Content(new, i) = Content(heap, i)
      /\ DOMAIN Content(new, e) = {}
  BY <1>2, BareContent DEF Content
<1>4. DOMAIN heap = 1 .. Len(heap) /\ DOMAIN new = DOMAIN heap
  BY <1>1
<1>5. ASSUME NEW n \in DOMAIN new, NEW j \in DOMAIN Content(new, n)
      PROVE  n \in DOMAIN heap /\ Content(new, n) = Content(heap, n)
  BY <1>3, <1>4
<1>6. IsForest(new)
  <2> SUFFICES ASSUME NEW n \in DOMAIN new, NEW j \in DOMAIN Content(new, n)
               PROVE  /\ Content(new, n)[j] \in n + 1 .. Len(new)
                      /\ \A m \in DOMAIN new : \A l \in DOMAIN Content(new, m) :
                           Content(new, m)[l] = Content(new, n)[j] => m = n /\ l = j
    BY DEF IsForest
  <2>1. n \in DOMAIN heap /\ Content(new, n) = Content(heap, n)
    BY <1>5
  <2>2. Content(new, n)[j] \in n + 1 .. Len(new)
    BY <1>1, <2>1 DEF IsForest
  <2>3. ASSUME NEW m \in DOMAIN new, NEW l \in DOMAIN Content(new, m),
               Content(new, m)[l] = Content(new, n)[j]
        PROVE  m = n /\ l = j
    <3>1. m \in DOMAIN heap /\ Content(new, m) = Content(heap, m)
      BY <1>5
    <3>2. j \in DOMAIN Content(heap, n) /\ l \in DOMAIN Content(heap, m)
          /\ Content(heap, m)[l] = Content(heap, n)[j]
      BY <2>1, <2>3, <3>1
    <3> QED
      BY <2>1, <3>1, <3>2 DEF IsForest
  <2> QED
    BY <2>2, <2>3
<1> QED
  BY <1>1, <1>2, <1>3, <1>6

-----------------------------------------------------------------------------
(* json_sax_dom_parser keeps the heap and ref_stack sound.                  *)

Grows(refs) == \A i, j \in DOMAIN refs : i < j => refs[i] < refs[j]

DomInv(d) ==
  /\ d \in [heap : Seq(Node), refs : Seq(Nat), element : Nat]
  /\ IsForest(d.heap) /\ IsPath(d) /\ Grows(d.refs)

LEMMA PathAt ==
  ASSUME NEW d, IsPath(d), NEW i \in DOMAIN d.refs
  PROVE  /\ d.refs[i] \in DOMAIN d.heap /\ d.heap[d.refs[i]][1] \in {"object", "array"}
         /\ i = 1 => d.refs[i] = 1
         /\ i # 1 => \E k \in DOMAIN Content(d.heap, d.refs[i - 1]) :
                      Content(d.heap, d.refs[i - 1])[k] = d.refs[i]
BY DEF IsPath

\* The last of the containers, and where it is.
LEMMA LastRef ==
  ASSUME NEW d, DomInv(d), d.refs # <<>>
  PROVE  /\ Last(d.refs) \in 1 .. Len(d.heap) /\ d.heap[Last(d.refs)][1] \in Container
         /\ Len(d.refs) \in DOMAIN d.refs /\ Last(d.refs) = d.refs[Len(d.refs)]
         /\ \A i \in DOMAIN d.refs :
              /\ d.refs[i] \in 1 .. Len(d.heap) /\ d.refs[i] <= Last(d.refs)
              /\ i # Len(d.refs) => d.refs[i] < Last(d.refs)
<1>1. /\ d.refs \in Seq(Nat) /\ d.heap \in Seq(Node)
      /\ IsPath(d) /\ Grows(d.refs)
  BY DEF DomInv
<1>2. Len(d.refs) \in Nat /\ Len(d.refs) >= 1 /\ DOMAIN d.refs = 1 .. Len(d.refs)
  BY <1>1
<1>3. Last(d.refs) = d.refs[Len(d.refs)]
  BY DEF Last
<1>4. \A i \in DOMAIN d.refs :
        d.refs[i] \in DOMAIN d.heap /\ d.heap[d.refs[i]][1] \in Container
  BY <1>1 DEF IsPath, Container
<1>5. DOMAIN d.heap = 1 .. Len(d.heap) /\ Len(d.heap) \in Nat
  BY <1>1
<1>6. ASSUME NEW i \in DOMAIN d.refs, i # Len(d.refs)
      PROVE  d.refs[i] < d.refs[Len(d.refs)]
  <2>1. Len(d.refs) \in DOMAIN d.refs /\ i < Len(d.refs)
    BY <1>2, <1>6
  <2>2. \A k, j \in DOMAIN d.refs : k < j => d.refs[k] < d.refs[j]
    BY <1>1 DEF Grows
  <2> QED
    BY <2>1, <2>2
<1> QED
  BY <1>2, <1>3, <1>4, <1>5, <1>6

\* A step that leaves the containers on the way to the last one as they are.
LEMMA PathKept ==
  ASSUME NEW d, DomInv(d), NEW e,
         e \in [heap : Seq(Node), refs : Seq(Nat), element : Nat],
         IsForest(e.heap), e.refs = d.refs, d.refs # <<>>,
         Len(e.heap) >= Len(d.heap),
         \A i \in DOMAIN d.refs :
           /\ e.heap[d.refs[i]][1] = d.heap[d.refs[i]][1]
           /\ i # Len(d.refs) =>
                Content(e.heap, d.refs[i]) = Content(d.heap, d.refs[i])
  PROVE  DomInv(e)
<1>1. /\ d.refs \in Seq(Nat) /\ d.heap \in Seq(Node)
      /\ IsPath(d) /\ Grows(d.refs)
  BY DEF DomInv
<1>2. ASSUME NEW i \in DOMAIN e.refs
      PROVE  /\ e.refs[i] \in DOMAIN e.heap /\ e.heap[e.refs[i]][1] \in {"object", "array"}
             /\ IF i = 1 THEN e.refs[i] = 1
                ELSE LET kids == Content(e.heap, e.refs[i - 1]) IN
                     \E k \in DOMAIN kids : kids[k] = e.refs[i]
  <2>1. i \in DOMAIN d.refs /\ e.refs[i] = d.refs[i]
    OBVIOUS
  <2>2. e.refs[i] \in DOMAIN e.heap /\ e.heap[e.refs[i]][1] \in {"object", "array"}
    <3>1. d.refs[i] \in 1 .. Len(d.heap) /\ d.heap[d.refs[i]][1] \in {"object", "array"}
      BY <1>1, <2>1 DEF IsPath
    <3> QED
      BY <1>1, <2>1, <3>1
  <2>3. CASE i = 1
    BY <1>1, <2>1, <2>2, <2>3 DEF IsPath
  <2>4. CASE i # 1
    <3>1. i - 1 \in DOMAIN d.refs /\ i - 1 # Len(d.refs) /\ e.refs[i - 1] = d.refs[i - 1]
      BY <1>1, <2>1, <2>4
    <3>2. Content(e.heap, e.refs[i - 1]) = Content(d.heap, d.refs[i - 1])
      BY <3>1
    <3>3. \E k \in DOMAIN Content(d.heap, d.refs[i - 1]) :
            Content(d.heap, d.refs[i - 1])[k] = d.refs[i]
      BY <1>1, <2>1, <2>4 DEF IsPath
    <3> QED
      BY <2>1, <2>2, <2>4, <3>2, <3>3
  <2> QED
    BY <2>3, <2>4
<1>3. IsPath(e)
  BY <1>2 DEF IsPath
<1> QED
  BY <1>1, <1>3 DEF DomInv

\* handle_value, of a value that goes to p.
Gets(d, new, p, node) ==
  IF IsArray(d) THEN Gains(d.heap, new, Last(d.refs), Len(d.heap[Last(d.refs)][2]) + 1)
  ELSE new = [d.heap EXCEPT ![p] = node]

LEMMA HandleValueKeeps ==
  ASSUME NEW d, DomInv(d), NEW node, Bare(node),
         d.refs # <<>> /\ ~IsArray(d) => ElementIsIn(d),
         NEW e, e = HandleValue(d, node), NEW p, p = Place(d)
  PROVE  /\ DomInv(e) /\ e.refs = d.refs
         /\ p \in 1 .. Len(e.heap) /\ e.heap[p] = node
         /\ \A i \in DOMAIN d.refs : e.heap[d.refs[i]][1] = d.heap[d.refs[i]][1]
         /\ d.refs = <<>> => p = 1
         /\ d.refs # <<>> =>
              /\ Last(d.refs) < p
              /\ \E k \in DOMAIN Content(e.heap, Last(d.refs)) :
                   Content(e.heap, Last(d.refs))[k] = p
              /\ Gets(d, e.heap, p, node)
<1> DEFINE h == d.heap
           b == Last(d.refs)
<1>1. /\ d \in [heap : Seq(Node), refs : Seq(Nat), element : Nat]
      /\ d.refs \in Seq(Nat) /\ h \in Seq(Node) /\ d.element \in Nat
      /\ IsForest(h) /\ node \in Node
  BY DEF DomInv, Bare
<1>2. CASE d.refs = <<>>
  <2>1. e = [d EXCEPT !.heap = <<node>>] /\ p = 1
    BY <1>2 DEF HandleValue, Place
  <2>2. /\ e \in [heap : Seq(Node), refs : Seq(Nat), element : Nat]
        /\ e.heap = <<node>> /\ e.refs = d.refs
    <3>1. <<node>> \in Seq(Node)
      BY <1>1
    <3> QED
      BY <1>1, <2>1, <3>1
  <2>3. Len(e.heap) = 1 /\ e.heap[1] = node /\ DOMAIN e.heap = {1}
    BY <2>2
  <2>4. DOMAIN Content(e.heap, 1) = {}
    BY <2>3, BareContent
  <2>5. IsForest(e.heap)
    BY <2>3, <2>4 DEF IsForest
  <2>6. DOMAIN e.refs = {}
    BY <1>2, <2>2
  <2>7. IsPath(e) /\ Grows(e.refs)
    BY <2>6 DEF IsPath, Grows
  <2> QED
    BY <1>2, <2>1, <2>2, <2>3, <2>5, <2>6, <2>7 DEF DomInv
<1>3. CASE d.refs # <<>> /\ IsArray(d)
  <2> DEFINE last == Len(h) + 1
             new == Put(h, b, Append(h[b][2], last), node)
  <2>1. b \in 1 .. Len(h) /\ h[b][1] = "array" /\ last \in Nat
    BY <1>1, <1>3, LastRef DEF IsArray
  <2>4. p = last
    BY <1>3 DEF Place
  <2> DEFINE put == Append([h EXCEPT ![b][2] = Append(@, Place(d))], node)
  <2>3. put = new
    <3>1. put = Put(h, b, Append(h[b][2], Place(d)), node)
      BY DEF Put
    <3> QED
      BY <2>4, <3>1
  <2>5. e = [d EXCEPT !.heap = put]
    <3> DEFINE alone == [d EXCEPT !.heap = <<node>>]
               inside == [d EXCEPT !.heap = put]
               over == [d EXCEPT !.heap[d.element] = node]
    <3>1. e = CASE d.refs = <<>> -> alone
                [] d.refs # <<>> /\ IsArray(d) -> inside
                [] OTHER -> over
      BY DEF HandleValue
    <3> HIDE DEF alone, inside, over
    <3>2. e = inside
      BY <1>3, <3>1
    <3> QED
      BY <3>2 DEF inside
  <2> HIDE DEF put
  <2> HIDE DEF new
  <2>6. e = [d EXCEPT !.heap = new] /\ e.heap = new /\ e.refs = d.refs
        /\ e.element = d.element
    <3>1. e = [d EXCEPT !.heap = new]
      BY <2>3, <2>5
    <3> QED
      BY <1>1, <3>1
  <2>7. /\ e.heap \in Seq(Node) /\ Len(e.heap) = Len(h) + 1 /\ IsForest(e.heap)
        /\ \A i \in 1 .. Len(h) : e.heap[i][1] = h[i][1]
        /\ \A i \in 1 .. Len(h) : i # b => Content(e.heap, i) = Content(h, i)
        /\ \E k \in DOMAIN Content(e.heap, b) : Content(e.heap, b)[k] = Len(h) + 1
        /\ e.heap[Len(h) + 1] = node /\ Gains(h, e.heap, b, Len(h[b][2]) + 1)
    <3>1. new = Put(h, b, Append(h[b][2], Len(h) + 1), node) /\ e.heap = new
      BY <2>6 DEF new
    <3> QED
      BY <1>1, <2>1, <3>1, ArrayGrown
  <2>8. e \in [heap : Seq(Node), refs : Seq(Nat), element : Nat]
    BY <1>1, <2>6, <2>7
  <2>9. ASSUME NEW i \in DOMAIN d.refs
        PROVE  /\ e.heap[d.refs[i]][1] = h[d.refs[i]][1]
               /\ i # Len(d.refs) => Content(e.heap, d.refs[i]) = Content(h, d.refs[i])
    <3>1. /\ d.refs[i] \in 1 .. Len(h)
          /\ i # Len(d.refs) => d.refs[i] < b
      BY <1>3, LastRef
    <3>2. i # Len(d.refs) => d.refs[i] # b
      BY <2>1, <3>1
    <3> QED
      BY <2>7, <3>1, <3>2
  <2>10. Len(e.heap) >= Len(h)
    BY <1>1, <2>7
  <2>11. DomInv(e)
    BY <1>1, <1>3, <2>6, <2>7, <2>8, <2>9, <2>10, PathKept
  <2>12. Gets(d, e.heap, p, node)
    BY <1>3, <2>7 DEF Gets
  <2>13. \E k \in DOMAIN Content(e.heap, b) : Content(e.heap, b)[k] = p
    BY <2>4, <2>7
  <2>14. p \in 1 .. Len(e.heap) /\ e.heap[p] = node /\ b < p
    BY <1>1, <2>1, <2>4, <2>7
  <2> QED
    BY <1>3, <2>6, <2>9, <2>11, <2>12, <2>13, <2>14
<1>4. CASE d.refs # <<>> /\ ~IsArray(d)
  <2>1. /\ b \in 1 .. Len(h) /\ h[b] \in Node
    BY <1>1, <1>4, LastRef
  <2>2. PICK k \in DOMAIN Content(h, b) : Content(h, b)[k] = d.element
    BY <1>4 DEF ElementIsIn
  <2>3. d.element \in b + 1 .. Len(h)
    BY <1>1, <2>1, <2>2 DEF IsForest
  <2>4. e = [d EXCEPT !.heap = [h EXCEPT ![d.element] = node]] /\ p = d.element
    BY <1>4 DEF HandleValue, Place
  <2>5. e.heap = [h EXCEPT ![p] = node] /\ e.refs = d.refs /\ e.element = d.element
    BY <1>1, <2>4
  <2>6. p \in 1 .. Len(h) /\ b < p
    BY <2>1, <2>3, <2>4
  <2>7. /\ e.heap \in Seq(Node) /\ Len(e.heap) = Len(h) /\ IsForest(e.heap)
        /\ \A i \in 1 .. Len(h) :
             i # p => e.heap[i][1] = h[i][1] /\ Content(e.heap, i) = Content(h, i)
        /\ e.heap[p] = node
    BY <1>1, <2>5, <2>6, Overwritten
  <2>8. e \in [heap : Seq(Node), refs : Seq(Nat), element : Nat]
    BY <1>1, <2>4, <2>5, <2>7
  <2>9. ASSUME NEW i \in DOMAIN d.refs
        PROVE  e.heap[d.refs[i]][1] = h[d.refs[i]][1]
               /\ Content(e.heap, d.refs[i]) = Content(h, d.refs[i])
    <3>1. d.refs[i] \in 1 .. Len(h) /\ d.refs[i] <= b
      BY <1>4, LastRef
    <3>2. d.refs[i] # p
      BY <2>1, <2>6, <3>1
    <3> QED
      BY <2>7, <3>1, <3>2
  <2>10. Len(e.heap) >= Len(h)
    BY <1>1, <2>7
  <2>11. DomInv(e)
    BY <1>1, <1>4, <2>5, <2>7, <2>8, <2>9, <2>10, PathKept
  <2>12. Content(e.heap, b) = Content(h, b)
    BY <2>1, <2>6, <2>7
  <2>13. Gets(d, e.heap, p, node)
    BY <1>4, <2>5 DEF Gets
  <2> QED
    BY <1>4, <2>2, <2>4, <2>5, <2>6, <2>7, <2>9, <2>11, <2>12, <2>13
<1> QED
  BY <1>2, <1>3, <1>4

\* start_object, start_array
LEMMA StartKeeps ==
  ASSUME NEW d, DomInv(d), NEW type \in Container,
         d.refs # <<>> /\ ~IsArray(d) => ElementIsIn(d),
         NEW e, e = StartContainer(d, type)
  PROVE  /\ DomInv(e) /\ e.heap # <<>>
         /\ e.refs \in Seq(Nat) /\ Len(e.refs) = Len(d.refs) + 1
         /\ \A i \in DOMAIN d.refs :
              e.refs[i] = d.refs[i] /\ e.heap[e.refs[i]][1] = d.heap[d.refs[i]][1]
         /\ e.heap[Last(e.refs)][1] = type
<1> DEFINE v == HandleValue(d, <<type, <<>> >>)
           p == Place(d)
           n == Len(d.refs) + 1
<1>1. d.refs \in Seq(Nat) /\ Bare(<<type, <<>> >>) /\ type \in {"object", "array"}
  BY BareNodes DEF DomInv, Container
<1>2. /\ DomInv(v) /\ v.refs = d.refs
      /\ p \in 1 .. Len(v.heap) /\ v.heap[p] = <<type, <<>> >>
      /\ \A i \in DOMAIN d.refs : v.heap[d.refs[i]][1] = d.heap[d.refs[i]][1]
      /\ d.refs = <<>> => p = 1
      /\ d.refs # <<>> =>
           /\ Last(d.refs) < p
           /\ \E k \in DOMAIN Content(v.heap, Last(d.refs)) :
                Content(v.heap, Last(d.refs))[k] = p
  <2> DEFINE node == <<type, <<>> >>
  <2>1. v = HandleValue(d, node) /\ p = Place(d) /\ Bare(node)
    BY <1>1
  <2> HIDE DEF node, v, p
  <2>2. /\ DomInv(v) /\ v.refs = d.refs
        /\ p \in 1 .. Len(v.heap) /\ v.heap[p] = node
        /\ \A i \in DOMAIN d.refs : v.heap[d.refs[i]][1] = d.heap[d.refs[i]][1]
        /\ d.refs = <<>> => p = 1
        /\ d.refs # <<>> =>
             /\ Last(d.refs) < p
             /\ \E k \in DOMAIN Content(v.heap, Last(d.refs)) :
                  Content(v.heap, Last(d.refs))[k] = p
    BY <2>1, HandleValueKeeps
  <2> QED
    BY <2>2 DEF node
<1>3. e = [v EXCEPT !.refs = Append(v.refs, p)]
  BY DEF StartContainer
<1> HIDE DEF v, p
<1>4. /\ v \in [heap : Seq(Node), refs : Seq(Nat), element : Nat]
      /\ IsForest(v.heap) /\ IsPath(v) /\ Grows(v.refs) /\ Len(v.heap) \in Nat
  BY <1>2 DEF DomInv
<1>5. p \in Nat
  BY <1>2, <1>4
<1>6. /\ e.heap = v.heap /\ e.refs = Append(d.refs, p) /\ e.element = v.element
      /\ e.refs \in Seq(Nat)
  BY <1>1, <1>2, <1>3, <1>4, <1>5
<1>7. /\ Len(e.refs) = n /\ \A i \in 1 .. Len(d.refs) : e.refs[i] = d.refs[i]
      /\ e.refs[n] = p /\ Len(d.refs) \in Nat
      /\ DOMAIN d.refs = 1 .. Len(d.refs) /\ DOMAIN e.refs = 1 .. n
  BY <1>1, <1>5, <1>6
<1>8. e \in [heap : Seq(Node), refs : Seq(Nat), element : Nat]
  BY <1>3, <1>4, <1>6
<1>9. Last(e.refs) = p
  BY <1>6, <1>7 DEF Last
<1>10. d.refs # <<>> => /\ Len(d.refs) >= 1 /\ Last(d.refs) = d.refs[Len(d.refs)]
                        /\ Last(d.refs) < p
  BY <1>1, <1>2, <1>7 DEF Last
<1>11. Grows(e.refs)
  <2> SUFFICES ASSUME NEW i \in DOMAIN e.refs, NEW j \in DOMAIN e.refs, i < j
               PROVE  e.refs[i] < e.refs[j]
    BY DEF Grows
  <2>1. i \in 1 .. Len(d.refs) /\ e.refs[i] = d.refs[i] /\ d.refs[i] \in Nat
    BY <1>1, <1>7
  <2>2. d.refs # <<>>
    BY <2>1
  <2>3. CASE j = n
    <3>1. Len(d.refs) \in 1 .. Len(d.refs) /\ d.refs[Len(d.refs)] \in Nat
      BY <1>1, <1>7, <1>10, <2>2
    <3>2. i < Len(d.refs) => d.refs[i] < d.refs[Len(d.refs)]
      BY <1>2, <1>4, <1>7, <2>1, <3>1 DEF Grows
    <3>3. d.refs[i] <= Last(d.refs) /\ Last(d.refs) < p
      BY <1>7, <1>10, <2>1, <2>2, <3>1, <3>2
    <3>4. Last(d.refs) \in Nat
      BY <1>10, <2>2, <3>1
    <3> QED
      BY <1>5, <1>7, <2>1, <2>3, <3>3, <3>4
  <2>4. CASE j # n
    <3>1. j \in 1 .. Len(d.refs) /\ e.refs[j] = d.refs[j]
      BY <1>7, <2>4
    <3> QED
      BY <1>2, <1>4, <1>7, <2>1, <3>1 DEF Grows
  <2> QED
    BY <2>3, <2>4
<1>12. IsPath(e)
  <2> SUFFICES ASSUME NEW i \in DOMAIN e.refs
               PROVE  /\ e.refs[i] \in DOMAIN e.heap
                      /\ e.heap[e.refs[i]][1] \in {"object", "array"}
                      /\ IF i = 1 THEN e.refs[i] = 1
                         ELSE LET kids == Content(e.heap, e.refs[i - 1]) IN
                              \E k \in DOMAIN kids : kids[k] = e.refs[i]
    BY DEF IsPath
  <2>1. CASE i = n
    <3>1. e.refs[i] \in DOMAIN e.heap /\ e.heap[e.refs[i]][1] \in {"object", "array"}
      <4>1. v.heap[p][1] = type
        BY <1>2
      <4>2. p \in DOMAIN v.heap
        BY <1>2, <1>4
      <4> QED
        BY <1>1, <1>6, <1>7, <2>1, <4>1, <4>2
    <3>2. CASE d.refs = <<>>
      BY <1>2, <1>7, <2>1, <3>1, <3>2
    <3>3. CASE d.refs # <<>>
      <4>1. i # 1 /\ e.refs[i - 1] = Last(d.refs)
        BY <1>7, <1>10, <2>1, <3>3
      <4> QED
        BY <1>2, <1>6, <1>7, <2>1, <3>1, <3>3, <4>1
    <3> QED
      BY <3>2, <3>3
  <2>2. CASE i # n
    <3>1. i \in DOMAIN v.refs /\ e.refs[i] = v.refs[i]
      BY <1>2, <1>7, <2>2
    <3>2. i # 1 => e.refs[i - 1] = v.refs[i - 1]
      BY <1>2, <1>7, <2>2
    <3> QED
      <4>1. IsPath(v) /\ i \in DOMAIN v.refs
        BY <1>4, <3>1
      <4>2. /\ v.refs[i] \in DOMAIN v.heap /\ v.heap[v.refs[i]][1] \in {"object", "array"}
            /\ i = 1 => v.refs[i] = 1
            /\ i # 1 => \E k \in DOMAIN Content(v.heap, v.refs[i - 1]) :
                         Content(v.heap, v.refs[i - 1])[k] = v.refs[i]
        BY <4>1, PathAt
      <4> QED
        BY <1>6, <3>1, <3>2, <4>2
  <2> QED
    BY <2>1, <2>2
<1>13. e.heap # <<>>
  BY <1>2, <1>4, <1>6
<1> QED
  BY <1>2, <1>4, <1>6, <1>7, <1>8, <1>9, <1>11, <1>12, <1>13 DEF DomInv

\* end_object, end_array
LEMMA EndKeeps ==
  ASSUME NEW d, DomInv(d), d.refs # <<>>, NEW e, e = End(d)
  PROVE  /\ DomInv(e) /\ e.heap = d.heap
         /\ e.refs \in Seq(Nat) /\ Len(e.refs) = Len(d.refs) - 1
         /\ \A i \in DOMAIN e.refs : i \in DOMAIN d.refs /\ e.refs[i] = d.refs[i]
<1>1. /\ d \in [heap : Seq(Node), refs : Seq(Nat), element : Nat]
      /\ IsForest(d.heap) /\ IsPath(d) /\ Grows(d.refs) /\ d.refs \in Seq(Nat)
  BY DEF DomInv
<1>2. e = [d EXCEPT !.refs = Front(d.refs)]
  BY DEF End
<1>3. /\ Front(d.refs) \in Seq(Nat) /\ Len(Front(d.refs)) = Len(d.refs) - 1
      /\ Len(d.refs) \in Nat
      /\ \A i \in 1 .. Len(d.refs) - 1 : Front(d.refs)[i] = d.refs[i]
  BY <1>1, FrontLast
<1>4. /\ e \in [heap : Seq(Node), refs : Seq(Nat), element : Nat]
      /\ e.heap = d.heap /\ e.refs = Front(d.refs)
  BY <1>1, <1>2, <1>3
<1>5. \A i \in DOMAIN e.refs :
        /\ i \in DOMAIN d.refs /\ e.refs[i] = d.refs[i]
        /\ i # 1 => i - 1 \in DOMAIN d.refs /\ e.refs[i - 1] = d.refs[i - 1]
  <2>1. DOMAIN e.refs = 1 .. Len(d.refs) - 1 /\ DOMAIN d.refs = 1 .. Len(d.refs)
    BY <1>1, <1>3, <1>4
  <2> SUFFICES ASSUME NEW i \in 1 .. Len(d.refs) - 1
               PROVE  /\ i \in DOMAIN d.refs /\ e.refs[i] = d.refs[i]
                      /\ i # 1 => i - 1 \in DOMAIN d.refs /\ e.refs[i - 1] = d.refs[i - 1]
    BY <2>1
  <2>2. i \in 1 .. Len(d.refs) /\ (i # 1 => i - 1 \in 1 .. Len(d.refs) - 1)
    BY <1>3
  <2>3. i # 1 => i - 1 \in 1 .. Len(d.refs)
    BY <1>3
  <2> QED
    BY <1>3, <1>4, <2>1, <2>2, <2>3
<1>6. Grows(e.refs)
  BY <1>1, <1>5 DEF Grows
<1>7. IsPath(e)
  <2> SUFFICES ASSUME NEW i \in DOMAIN e.refs
               PROVE  /\ e.refs[i] \in DOMAIN e.heap
                      /\ e.heap[e.refs[i]][1] \in {"object", "array"}
                      /\ IF i = 1 THEN e.refs[i] = 1
                         ELSE LET kids == Content(e.heap, e.refs[i - 1]) IN
                              \E k \in DOMAIN kids : kids[k] = e.refs[i]
    BY DEF IsPath
  <2>1. /\ i \in DOMAIN d.refs /\ e.refs[i] = d.refs[i]
        /\ i # 1 => e.refs[i - 1] = d.refs[i - 1]
    BY <1>5
  <2>2. /\ d.refs[i] \in DOMAIN d.heap /\ d.heap[d.refs[i]][1] \in {"object", "array"}
        /\ i = 1 => d.refs[i] = 1
        /\ i # 1 => \E k \in DOMAIN Content(d.heap, d.refs[i - 1]) :
                     Content(d.heap, d.refs[i - 1])[k] = d.refs[i]
    <3>1. IsPath(d)
      BY <1>1
    <3> QED
      BY <2>1, <3>1, PathAt
  <2> QED
    BY <1>4, <2>1, <2>2
<1> QED
  BY <1>1, <1>3, <1>4, <1>5, <1>6, <1>7 DEF DomInv

\* key
LEMMA KeyKeeps ==
  ASSUME NEW d, DomInv(d), d.refs # <<>>, ~IsArray(d), NEW k \in Str, NEW e, e = Key(d, k)
  PROVE  /\ DomInv(e) /\ e.refs = d.refs /\ ElementIsIn(e)
         /\ \A i \in DOMAIN d.refs : e.heap[d.refs[i]][1] = d.heap[d.refs[i]][1]
         /\ k \notin DOMAIN d.heap[Last(d.refs)][2] =>
              e.element = Len(d.heap) + 1 /\ Gains(d.heap, e.heap, Last(d.refs), k)
<1> DEFINE h == d.heap
           b == Last(d.refs)
           old == h[b][2]
<1>1. /\ d \in [heap : Seq(Node), refs : Seq(Nat), element : Nat]
      /\ IsForest(h) /\ IsPath(d) /\ Grows(d.refs) /\ d.refs \in Seq(Nat)
      /\ h \in Seq(Node) /\ Len(h) \in Nat
  BY DEF DomInv
<1>2. b \in 1 .. Len(h) /\ h[b][1] = "object" /\ h[b] \in Node
  BY <1>1, LastRef DEF IsArray, Container
<1>3. Content(h, b) = old /\ \A j \in DOMAIN old : old[j] \in Nat
  BY <1>2, Nodes DEF Content
<1>4. CASE k \in DOMAIN old
  <2>1. e = [d EXCEPT !.element = old[k]]
    BY <1>4 DEF Key
  <2>2. /\ e \in [heap : Seq(Node), refs : Seq(Nat), element : Nat]
        /\ e.heap = h /\ e.refs = d.refs /\ e.element = old[k]
    BY <1>1, <1>3, <1>4, <2>1
  <2>3. IsPath(e)
    <3> SUFFICES ASSUME NEW i \in DOMAIN e.refs
                 PROVE  /\ e.refs[i] \in DOMAIN e.heap
                        /\ e.heap[e.refs[i]][1] \in {"object", "array"}
                        /\ IF i = 1 THEN e.refs[i] = 1
                           ELSE LET kids == Content(e.heap, e.refs[i - 1]) IN
                                \E j \in DOMAIN kids : kids[j] = e.refs[i]
      BY DEF IsPath
    <3>1. i \in DOMAIN d.refs
      BY <2>2
    <3>2. /\ d.refs[i] \in DOMAIN d.heap /\ d.heap[d.refs[i]][1] \in {"object", "array"}
          /\ i = 1 => d.refs[i] = 1
          /\ i # 1 => \E j \in DOMAIN Content(d.heap, d.refs[i - 1]) :
                       Content(d.heap, d.refs[i - 1])[j] = d.refs[i]
      BY <1>1, <3>1, PathAt
    <3> QED
      BY <2>2, <3>2
  <2>4. ElementIsIn(e)
    BY <1>3, <1>4, <2>2 DEF ElementIsIn
  <2>5. DomInv(e)
    BY <1>1, <2>2, <2>3 DEF DomInv
  <2> QED
    BY <1>4, <2>2, <2>4, <2>5
<1>5. CASE k \notin DOMAIN old
  <2> DEFINE last == Len(h) + 1
             kids == [j \in DOMAIN old \cup {k} |-> IF j \in DOMAIN old THEN old[j] ELSE last]
             new == Put(h, b, kids, Leaf("null"))
  <2>1. new = Append([h EXCEPT ![b][2] = kids], Leaf("null"))
    BY DEF Put
  <2>2. e = [d EXCEPT !.element = last,
                      !.heap = Append([h EXCEPT ![b][2] = kids], Leaf("null"))]
    BY <1>5 DEF Key, NewElement
  <2>3. Bare(Leaf("null"))
    BY BareNodes DEF Scalar
  <2>4. /\ new \in Seq(Node) /\ Len(new) = Len(h) + 1 /\ IsForest(new)
        /\ \A i \in 1 .. Len(h) : new[i][1] = h[i][1]
        /\ \A i \in 1 .. Len(h) : i # b => Content(new, i) = Content(h, i)
        /\ k \in DOMAIN Content(new, b) /\ Content(new, b)[k] = Len(h) + 1
        /\ Gains(h, new, b, k)
    <3>1. /\ kids \in [DOMAIN h[b][2] \cup {k} -> Nat]
          /\ \A j \in DOMAIN h[b][2] : kids[j] = h[b][2][j]
          /\ kids[k] = Len(h) + 1
      BY <1>1, <1>3, <1>5
    <3> HIDE DEF kids
    <3>2. new = Put(h, b, kids, Leaf("null")) /\ AddsKey(h, b, k, kids)
      BY <1>1, <1>2, <1>5, <3>1 DEF AddsKey
    <3> HIDE DEF new, h, b
    <3>3. IsForest(h)
      BY <1>1
    <3> QED
      BY <2>3, <3>2, <3>3, ObjectGrown
  <2> HIDE DEF new, kids
  <2>5. e = [d EXCEPT !.element = last, !.heap = new]
    BY <2>1, <2>2
  <2>6. /\ e \in [heap : Seq(Node), refs : Seq(Nat), element : Nat]
        /\ e.heap = new /\ e.refs = d.refs /\ e.element = last
    <3>1. last \in Nat
      BY <1>1
    <3> HIDE DEF last
    <3> QED
      BY <1>1, <2>4, <2>5, <3>1
  <2>7. ASSUME NEW i \in DOMAIN d.refs
        PROVE  /\ e.heap[d.refs[i]][1] = h[d.refs[i]][1]
               /\ i # Len(d.refs) => Content(e.heap, d.refs[i]) = Content(h, d.refs[i])
    <3>1. /\ d.refs[i] \in 1 .. Len(h)
          /\ i # Len(d.refs) => d.refs[i] < b
      BY LastRef
    <3>2. i # Len(d.refs) => d.refs[i] # b
      BY <1>2, <3>1
    <3> QED
      BY <2>4, <2>6, <3>1, <3>2
  <2>8. Len(e.heap) >= Len(h)
    BY <1>1, <2>4, <2>6
  <2>9. DomInv(e)
    BY <1>1, <2>4, <2>6, <2>7, <2>8, PathKept
  <2>10. ElementIsIn(e)
    BY <2>4, <2>6 DEF ElementIsIn
  <2>11. e.element = Len(d.heap) + 1 /\ Gains(d.heap, e.heap, Last(d.refs), k)
    BY <2>4, <2>6 DEF last
  <2> QED
    BY <2>6, <2>7, <2>9, <2>10, <2>11
<1> QED
  BY <1>4, <1>5

-----------------------------------------------------------------------------
(* sax_parse_internal: ParserInv, for a place, a stack and a DOM.           *)

OpenedAt(p) == IF p \in {"first", "colon1", "element"} THEN 1 ELSE 0

Matches(p, st, d) ==
  /\ Len(d.refs) = Len(st) + OpenedAt(p)
  /\ \A i \in DOMAIN st : st[i] <=> d.heap[d.refs[i]][1] = "array"

InPlaceAt(p, st, d) ==
  /\ p \in {"first", "colon1"} => ~IsArray(d)
  /\ p = "element" => IsArray(d)
  /\ p \in {"key", "colon"} => st # <<>> /\ ~Last(st)
  /\ p \in {"colon1", "colon"} \/ (p = "value" /\ st # <<>> /\ ~Last(st)) => ElementIsIn(d)
  /\ p \in {"next", "accepted"} => d.heap # <<>>
  /\ p = "accepted" => st = <<>>

Places == {"value", "first", "colon1", "element", "colon", "key", "next", "accepted", "rejected"}

Good(p, st, d) ==
  /\ p \in Places /\ st \in Seq(BOOLEAN) /\ DomInv(d)
  /\ p # "rejected" => Matches(p, st, d) /\ InPlaceAt(p, st, d)

LEMMA GoodIsInv ==
  /\ ParserInv <=> Good(pc, states, dom)
  /\ ParserInv' <=> Good(pc', states', dom')
<1> USE DEF Good, ParserInv, ParserTypeOK, DomInv, Grows, Places, Mirrors, Matches, Opened,
            OpenedAt, InPlace, InPlaceAt
<1>1. ParserInv <=> Good(pc, states, dom)
  OBVIOUS
<1>2. ParserInv' <=> Good(pc', states', dom')
  OBVIOUS
<1> QED
  BY <1>1, <1>2

\* The ends of the two stacks.
LEMMA Tops ==
  ASSUME NEW p, NEW st, NEW d, Good(p, st, d), p \notin {"rejected", "first", "colon1", "element"}
  PROVE  /\ st # <<>> <=> d.refs # <<>>
         /\ st # <<>> => (Last(st) <=> IsArray(d))
<1>1. /\ st \in Seq(BOOLEAN) /\ d.refs \in Seq(Nat) /\ Len(d.refs) = Len(st)
      /\ \A i \in DOMAIN st : st[i] <=> d.heap[d.refs[i]][1] = "array"
  BY DEF Good, Matches, OpenedAt, DomInv
<1>2. st # <<>> <=> d.refs # <<>>
  BY <1>1
<1>3. ASSUME st # <<>> PROVE Last(st) <=> IsArray(d)
  <2>1. Len(st) \in DOMAIN st
    BY <1>1, <1>3
  <2> QED
    BY <1>1, <2>1 DEF Last, IsArray
<1> QED
  BY <1>2, <1>3

LEMMA GoodFail ==
  ASSUME NEW p, NEW st, NEW d, Good(p, st, d)
  PROVE  Good("rejected", st, d)
BY DEF Good, Places

LEMMA GoodLeaf ==
  ASSUME NEW st, NEW d, Good("value", st, d), NEW t \in Scalar
  PROVE  Good("next", st, HandleValue(d, Leaf(t)))
<1> DEFINE e == HandleValue(d, Leaf(t))
<1>1. d.refs # <<>> /\ ~IsArray(d) => ElementIsIn(d)
  BY Tops DEF Good, InPlaceAt
<1>2. /\ DomInv(e) /\ e.refs = d.refs
      /\ Place(d) \in 1 .. Len(e.heap)
      /\ \A i \in DOMAIN d.refs : e.heap[d.refs[i]][1] = d.heap[d.refs[i]][1]
  <2>1. Bare(Leaf(t)) /\ DomInv(d)
    BY BareNodes DEF Good
  <2> HIDE DEF e
  <2>2. e = HandleValue(d, Leaf(t))
    BY DEF e
  <2> QED
    BY <1>1, <2>1, <2>2, HandleValueKeeps
<1> HIDE DEF e
<1>3. st \in Seq(BOOLEAN) /\ Matches("value", st, d)
  BY DEF Good
<1>4. e.heap # <<>>
  BY <1>2 DEF DomInv
<1>5. DOMAIN st = DOMAIN d.refs
  <2>1. d.refs \in Seq(Nat)
    BY DEF Good, DomInv
  <2> QED
    BY <1>3, <2>1 DEF Matches, OpenedAt
<1>6. Matches("next", st, e)
  BY <1>2, <1>3, <1>5 DEF Matches, OpenedAt
<1>7. InPlaceAt("next", st, e)
  BY <1>4 DEF InPlaceAt
<1>8. Good("next", st, e)
  BY <1>2, <1>3, <1>6, <1>7 DEF Good, Places
<1> QED
  BY <1>8 DEF e

\* A container that begins: "first" for an object, "element" for an array.
LEMMA GoodStart ==
  ASSUME NEW st, NEW d, Good("value", st, d)
  PROVE  /\ Good("first", st, StartContainer(d, "object"))
         /\ Good("element", st, StartContainer(d, "array"))
<1>1. d.refs # <<>> /\ ~IsArray(d) => ElementIsIn(d)
  BY Tops DEF Good, InPlaceAt
<1>2. /\ st \in Seq(BOOLEAN) /\ DomInv(d) /\ d.refs \in Seq(Nat) /\ Len(d.refs) = Len(st)
      /\ \A i \in DOMAIN st : st[i] <=> d.heap[d.refs[i]][1] = "array"
  BY DEF Good, Matches, OpenedAt, DomInv
<1>3. DOMAIN st = DOMAIN d.refs
  BY <1>2
<1>4. ASSUME NEW type \in Container, NEW p \in {"first", "element"},
             p = "element" <=> type = "array"
      PROVE  Good(p, st, StartContainer(d, type))
  <2> DEFINE e == StartContainer(d, type)
  <2>1. /\ DomInv(e) /\ Len(e.refs) = Len(d.refs) + 1
        /\ \A i \in DOMAIN d.refs :
             e.refs[i] = d.refs[i] /\ e.heap[e.refs[i]][1] = d.heap[d.refs[i]][1]
        /\ e.heap[Last(e.refs)][1] = type
    BY <1>1, <1>2, StartKeeps
  <2> HIDE DEF e
  <2>2. Matches(p, st, e)
    BY <1>2, <1>3, <2>1 DEF Matches, OpenedAt
  <2>3. InPlaceAt(p, st, e)
    BY <1>4, <2>1 DEF InPlaceAt, IsArray
  <2>4. Good(p, st, e)
    BY <1>2, <2>1, <2>2, <2>3 DEF Good, Places
  <2> QED
    BY <2>4 DEF e
<1> QED
  BY <1>4 DEF Container

\* A container without values ends at once, and is not on the stack yet.
LEMMA GoodEmpty ==
  ASSUME NEW p \in {"first", "element"}, NEW st, NEW d, Good(p, st, d)
  PROVE  Good("next", st, End(d))
<1> DEFINE e == End(d)
<1>1. /\ st \in Seq(BOOLEAN) /\ DomInv(d) /\ Len(d.refs) = Len(st) + 1
      /\ \A i \in DOMAIN st : st[i] <=> d.heap[d.refs[i]][1] = "array"
  BY DEF Good, Matches, OpenedAt
<1>2. d.refs \in Seq(Nat) /\ d.refs # <<>>
  BY <1>1 DEF DomInv
<1>3. /\ DomInv(e) /\ e.heap = d.heap
      /\ e.refs \in Seq(Nat) /\ Len(e.refs) = Len(d.refs) - 1
      /\ \A i \in DOMAIN e.refs : i \in DOMAIN d.refs /\ e.refs[i] = d.refs[i]
  BY <1>1, <1>2, EndKeeps
<1>4. d.heap # <<>>
  BY <1>1, <1>2, LastRef DEF DomInv
<1> HIDE DEF e
<1>5. DOMAIN e.refs = DOMAIN st /\ Len(e.refs) = Len(st)
  BY <1>1, <1>3
<1>6. Matches("next", st, e)
  BY <1>1, <1>3, <1>5 DEF Matches, OpenedAt
<1>7. Good("next", st, e)
  BY <1>1, <1>3, <1>4, <1>6 DEF Good, InPlaceAt, Places
<1> QED
  BY <1>7 DEF e

\* The first key of an object, or a further one.
LEMMA GoodKey ==
  ASSUME NEW p \in {"first", "key"}, NEW st, NEW d, Good(p, st, d), NEW k \in Str
  PROVE  Good(IF p = "first" THEN "colon1" ELSE "colon", st, Key(d, k))
<1> DEFINE e == Key(d, k)
           to == IF p = "first" THEN "colon1" ELSE "colon"
<1>1. /\ st \in Seq(BOOLEAN) /\ DomInv(d) /\ Len(d.refs) = Len(st) + OpenedAt(p)
      /\ \A i \in DOMAIN st : st[i] <=> d.heap[d.refs[i]][1] = "array"
      /\ InPlaceAt(p, st, d)
  BY DEF Good, Matches
<1>2. d.refs \in Seq(Nat)
  BY <1>1 DEF DomInv
<1>3. d.refs # <<>> /\ ~IsArray(d)
  <2>1. CASE p = "first"
    BY <1>1, <1>2, <2>1 DEF InPlaceAt, OpenedAt
  <2>2. CASE p = "key"
    BY <1>1, <2>2, Tops DEF InPlaceAt
  <2> QED
    BY <2>1, <2>2
<1>4. /\ DomInv(e) /\ e.refs = d.refs /\ ElementIsIn(e)
      /\ \A i \in DOMAIN d.refs : e.heap[d.refs[i]][1] = d.heap[d.refs[i]][1]
  BY <1>1, <1>3, KeyKeeps
<1> HIDE DEF e
<1>5. DOMAIN st \subseteq DOMAIN d.refs
  BY <1>1, <1>2 DEF OpenedAt
<1>6. OpenedAt(to) = OpenedAt(p)
  BY DEF OpenedAt
<1>7. Matches(to, st, e)
  BY <1>1, <1>4, <1>5, <1>6 DEF Matches
<1>8. to = "colon1" => ~IsArray(e)
  <2>1. e.heap[Last(d.refs)][1] = d.heap[Last(d.refs)][1]
    BY <1>1, <1>3, <1>4, LastRef
  <2> QED
    BY <1>3, <1>4, <2>1 DEF IsArray
<1>9. to = "colon" => st # <<>> /\ ~Last(st)
  BY <1>1 DEF InPlaceAt
<1>10. InPlaceAt(to, st, e)
  BY <1>4, <1>8, <1>9 DEF InPlaceAt
<1>11. Good(to, st, e)
  BY <1>1, <1>4, <1>7, <1>10 DEF Good, Places
<1> QED
  BY <1>11 DEF e

\* A container goes on the stack: an object after its first key, an array before
\* its first value.
LEMMA GoodPush ==
  ASSUME NEW p \in {"colon1", "element"}, NEW st, NEW d, Good(p, st, d)
  PROVE  Good("value", Append(st, p = "element"), d)
<1> DEFINE b == p = "element"
           n == Len(st) + 1
<1>1. /\ st \in Seq(BOOLEAN) /\ DomInv(d) /\ Len(d.refs) = n
      /\ \A i \in DOMAIN st : st[i] <=> d.heap[d.refs[i]][1] = "array"
      /\ InPlaceAt(p, st, d) /\ b \in BOOLEAN
  BY DEF Good, Matches, OpenedAt
<1>2. d.refs \in Seq(Nat) /\ d.refs # <<>> /\ Last(d.refs) = d.refs[n]
  BY <1>1 DEF DomInv, Last
<1>3. b <=> d.heap[d.refs[n]][1] = "array"
  BY <1>1, <1>2 DEF InPlaceAt, IsArray
<1>4. ~b => ElementIsIn(d)
  BY <1>1 DEF InPlaceAt
<1> HIDE DEF b
<1>5. /\ Append(st, b) \in Seq(BOOLEAN) /\ Len(Append(st, b)) = n
      /\ \A i \in 1 .. Len(st) : Append(st, b)[i] = st[i]
      /\ Append(st, b)[n] = b /\ Append(st, b) # <<>>
  BY <1>1, AppendProperties
<1>6. Last(Append(st, b)) = b
  BY <1>5 DEF Last
<1>7. \A i \in DOMAIN Append(st, b) : i \in DOMAIN st \/ i = n
  BY <1>1, <1>5
<1>8. Matches("value", Append(st, b), d)
  BY <1>1, <1>3, <1>5, <1>7 DEF Matches, OpenedAt
<1>9. InPlaceAt("value", Append(st, b), d)
  BY <1>4, <1>6 DEF InPlaceAt
<1>10. Good("value", Append(st, b), d)
  BY <1>1, <1>5, <1>8, <1>9 DEF Good, Places
<1> QED
  BY <1>10 DEF b

\* A container that ends.
LEMMA GoodClose ==
  ASSUME NEW st, NEW d, Good("next", st, d), st # <<>>
  PROVE  Good("next", Front(st), End(d))
<1> DEFINE e == End(d)
<1>1. /\ st \in Seq(BOOLEAN) /\ DomInv(d) /\ Len(d.refs) = Len(st)
      /\ \A i \in DOMAIN st : st[i] <=> d.heap[d.refs[i]][1] = "array"
      /\ d.heap # <<>>
  BY DEF Good, Matches, OpenedAt, InPlaceAt
<1>2. d.refs # <<>>
  BY Tops
<1>3. /\ DomInv(e) /\ e.heap = d.heap
      /\ e.refs \in Seq(Nat) /\ Len(e.refs) = Len(d.refs) - 1
      /\ \A i \in DOMAIN e.refs : i \in DOMAIN d.refs /\ e.refs[i] = d.refs[i]
  BY <1>1, <1>2, EndKeeps
<1>4. /\ Front(st) \in Seq(BOOLEAN) /\ Len(Front(st)) = Len(st) - 1 /\ Len(st) \in Nat
      /\ \A i \in 1 .. Len(st) - 1 : Front(st)[i] = st[i]
  BY <1>1, FrontLast
<1> HIDE DEF e
<1>5. /\ DOMAIN Front(st) = 1 .. Len(st) - 1 /\ DOMAIN st = 1 .. Len(st)
      /\ DOMAIN e.refs = 1 .. Len(st) - 1
  BY <1>1, <1>3, <1>4
<1>6. Matches("next", Front(st), e)
  <2>1. Len(e.refs) = Len(Front(st)) + OpenedAt("next")
    BY <1>1, <1>3, <1>4 DEF OpenedAt
  <2>2. ASSUME NEW i \in DOMAIN Front(st)
        PROVE  Front(st)[i] <=> e.heap[e.refs[i]][1] = "array"
    <3>1. i \in DOMAIN st /\ i \in DOMAIN e.refs /\ Front(st)[i] = st[i]
      BY <1>4, <1>5
    <3>2. e.heap[e.refs[i]][1] = d.heap[d.refs[i]][1]
      BY <1>3, <3>1
    <3>3. st[i] <=> d.heap[d.refs[i]][1] = "array"
      BY <1>1, <3>1
    <3> QED
      BY <3>1, <3>2, <3>3
  <2> QED
    BY <2>1, <2>2 DEF Matches
<1>7. Good("next", Front(st), e)
  BY <1>1, <1>3, <1>4, <1>6 DEF Good, InPlaceAt, Places
<1> QED
  BY <1>7 DEF e

\* The tokens that change the place only.
LEMMA GoodElsewhere ==
  ASSUME NEW st, NEW d
  PROVE  /\ Good("colon", st, d) => Good("value", st, d)
         /\ Good("next", st, d) /\ st # <<>> /\ Last(st) => Good("value", st, d)
         /\ Good("next", st, d) /\ st # <<>> /\ ~Last(st) => Good("key", st, d)
         /\ Good("next", st, d) /\ st = <<>> => Good("accepted", st, d)
BY DEF Good, Matches, OpenedAt, InPlaceAt, Places

-----------------------------------------------------------------------------
(* The invariant, of any sequence of tokens.                               *)

LEMMA ValueKeeps ==
  ASSUME NEW st, Good("value", st, dom), Good("rejected", states, dom), NEW t, Value(t, st)
  PROVE  Good(pc', states', dom')
<1>1. CASE t = "{" /\ Goto("first", st, StartContainer(dom, "object"))
  BY <1>1, GoodStart DEF Goto
<1>2. CASE t = "[" /\ Goto("element", st, StartContainer(dom, "array"))
  BY <1>2, GoodStart DEF Goto
<1>3. CASE t \in Scalar /\ Goto("next", st, HandleValue(dom, Leaf(t)))
  BY <1>3, GoodLeaf DEF Goto
<1>4. CASE t \notin Scalar \cup {"{", "["} /\ Fail
  BY <1>4 DEF Fail, Goto
<1> QED
  BY <1>1, <1>2, <1>3, <1>4 DEF Value

LEMMA TokenKeeps ==
  ASSUME Good(pc, states, dom), Parsing, NEW t, Token(t)
  PROVE  Good(pc', states', dom')
<1>1. Good("rejected", states, dom)
  BY GoodFail
<1>2. CASE Fail
  BY <1>1, <1>2 DEF Fail, Goto
<1>3. CASE pc = "value"
  <2>1. Value(t, states)
    BY <1>3 DEF Token
  <2> QED
    BY <1>1, <1>3, <2>1, ValueKeeps
<1>4. CASE pc = "first" /\ ~Fail
  <2>1. First(t)
    BY <1>4 DEF Token
  <2>2. CASE t = "}" /\ Goto("next", states, End(dom))
    BY <1>4, <2>2, GoodEmpty DEF Goto
  <2>3. CASE t \in Str /\ Goto("colon1", states, Key(dom, t))
    BY <1>4, <2>3, GoodKey DEF Goto
  <2> QED
    BY <1>4, <2>1, <2>2, <2>3 DEF First
<1>5. CASE pc = "colon1" /\ ~Fail
  <2>1. Colon1(t)
    BY <1>5 DEF Token
  <2>2. Goto("value", Append(states, FALSE), dom)
    BY <1>5, <2>1 DEF Colon1
  <2>3. Good("value", Append(states, "colon1" = "element"), dom)
    BY <1>5, GoodPush
  <2>4. ("colon1" = "element") = FALSE
    OBVIOUS
  <2>5. Good("value", Append(states, FALSE), dom)
    BY <2>3, <2>4
  <2> QED
    BY <2>2, <2>5 DEF Goto
<1>6. CASE pc = "element" /\ ~Fail
  <2>1. Element(t)
    BY <1>6 DEF Token
  <2>2. CASE t = "]" /\ Goto("next", states, End(dom))
    BY <1>6, <2>2, GoodEmpty DEF Goto
  <2>3. CASE t # "]" /\ Value(t, Append(states, TRUE))
    <3>1. Good("value", Append(states, "element" = "element"), dom)
      BY <1>6, GoodPush
    <3>2. ("element" = "element") = TRUE
      OBVIOUS
    <3>3. Good("value", Append(states, TRUE), dom)
      BY <3>1, <3>2
    <3> QED
      BY <1>1, <2>3, <3>3, ValueKeeps
  <2> QED
    BY <2>1, <2>2, <2>3 DEF Element
<1>7. CASE pc = "colon" /\ ~Fail
  <2>1. Colon(t)
    BY <1>7 DEF Token
  <2> QED
    BY <1>7, <2>1, GoodElsewhere DEF Colon, Goto
<1>8. CASE pc = "key" /\ ~Fail
  <2>1. NextKey(t)
    BY <1>8 DEF Token
  <2> QED
    BY <1>8, <2>1, GoodKey DEF NextKey, Goto
<1>9. CASE pc = "next" /\ states = <<>>
  <2>1. AtEnd(t)
    BY <1>9 DEF Token
  <2> QED
    BY <1>1, <1>9, <2>1, GoodElsewhere DEF AtEnd, Goto
<1>10. CASE pc = "next" /\ states # <<>> /\ ~Fail
  <2>1. CASE Last(states)
    <3>1. InArray(t)
      BY <1>10, <2>1 DEF Token
    <3> QED
      BY <1>10, <2>1, <3>1, GoodElsewhere, GoodClose DEF InArray, Close, Goto
  <2>2. CASE ~Last(states)
    <3>1. InObject(t)
      BY <1>10, <2>2 DEF Token
    <3> QED
      BY <1>10, <2>2, <3>1, GoodElsewhere, GoodClose DEF InObject, Close, Goto
  <2> QED
    BY <2>1, <2>2
<1>11. pc \in Places \ {"accepted", "rejected"}
  BY DEF Good, Parsing
<1> QED
  BY <1>2, <1>3, <1>4, <1>5, <1>6, <1>7, <1>8, <1>9, <1>10, <1>11 DEF Places

\* Nothing is parsed yet.
LEMMA GoodStartOver == Good("value", <<>>, NoDom)
<1>1. /\ NoDom.heap = <<>> /\ NoDom.refs = <<>> /\ NoDom.element = 0
      /\ DOMAIN <<>> = {} /\ <<>> \in Seq(Node) /\ <<>> \in Seq(Nat) /\ <<>> \in Seq(BOOLEAN)
      /\ Len(<<>>) = 0
  BY DEF NoDom
<1>2. NoDom \in [heap : Seq(Node), refs : Seq(Nat), element : Nat]
  BY <1>1 DEF NoDom
<1>3. IsForest(NoDom.heap)
  BY <1>1 DEF IsForest
<1>4. IsPath(NoDom) /\ Grows(NoDom.refs)
  BY <1>1 DEF IsPath, Grows
<1> QED
  BY <1>1, <1>2, <1>3, <1>4 DEF Good, DomInv, Matches, InPlaceAt, OpenedAt, Places

LEMMA InvAligned == ParserInv => Aligned
<1> SUFFICES ASSUME ParserInv PROVE Aligned
  OBVIOUS
<1>1. IsForest(dom.heap) /\ IsPath(dom)
  BY DEF ParserInv
<1>2. ASSUME Parsing
      PROVE  Mirrors /\ (pc = "value" /\ states # <<>> /\ ~Last(states) => ElementIsIn(dom))
  BY <1>2 DEF ParserInv, Parsing, InPlace
<1> QED
  BY <1>1, <1>2 DEF Aligned

LEMMA ParserStep ==
  ASSUME ParserInv, ParseNext \/ \E tokens \in TokenSeq : ParseAgain(tokens)
  PROVE  ParserInv'
<1>1. Good(pc, states, dom)
  BY GoodIsInv
<1> SUFFICES Good(pc', states', dom')
  BY GoodIsInv
<1>2. CASE \E tokens \in TokenSeq : ParseAgain(tokens)
  BY <1>2, GoodStartOver DEF ParseAgain, Goto
<1>3. ASSUME NEW tokens, Parsing, FirstToken(tokens) PROVE Good(pc', states', dom')
  <2>1. CASE UNCHANGED <<pc, states, dom, text>>
    BY <1>1, <2>1
  <2>2. CASE \E t \in tokens : Token(t) /\ text' = <<t>>
    BY <1>1, <1>3, <2>2, TokenKeeps
  <2> QED
    BY <1>3, <2>1, <2>2 DEF FirstToken
<1>4. CASE \E t \in Vocabulary : TakeAny(t)
  BY <1>1, <1>4, TokenKeeps DEF TakeAny
<1>5. CASE TakeGiven
  BY <1>1, <1>5, TokenKeeps DEF TakeGiven
<1>6. CASE ScanFirst
  BY <1>3, <1>6 DEF ScanFirst
<1>7. CASE NumberFirst
  BY <1>3, <1>7 DEF NumberFirst
<1> QED
  BY <1>2, <1>4, <1>5, <1>6, <1>7 DEF ParseNext

\* What holds at every token, whatever the tokens are.
THEOREM ParserInvariance == ParserSpec => []ParserInv
<1>1. ParserInit => ParserInv
  BY GoodStartOver, GoodIsInv DEF ParserInit
<1>2. ParserInv /\ UNCHANGED <<parseVars, lexerVars>> => ParserInv'
  <2> SUFFICES ASSUME ParserInv, UNCHANGED parseVars PROVE ParserInv'
    OBVIOUS
  <2> QED
    BY GoodIsInv DEF parseVars
<1> QED
  BY <1>1, <1>2, ParserStep, PTL DEF ParserSpec

\* The asserts of handle_value hold and none of its pointers dangles, at any depth
\* and for texts of any length.
THEOREM ParserAligned == ParserSpec => []Aligned
BY ParserInvariance, InvAligned, PTL

=============================================================================
