------------------------------ MODULE JsonDump ------------------------------
(***************************************************************************)
(* json::dump (json.hpp) of what json::parse has built: the tokens that    *)
(* serializer::dump writes for each value of a heap.                       *)
(*                                                                         *)
(* A tree is a value with the members of its objects in an order, as they  *)
(* stand in a text: a heap, in which an object is a sequence of pairs of a *)
(* key and the place of its value.                                         *)
(***************************************************************************)
EXTENDS JsonParser

CONSTANT KeyOrder  \* the strings in the order of std::map

\* KeyOrder has every string, and the lexer tells a string from the other tokens.
ASSUME DumpAssumption ==
  /\ KeyOrder \in Seq(Str)
  /\ \A k \in Str : \E i \in DOMAIN KeyOrder : KeyOrder[i] = k
  /\ Str \cap NonString = {} /\ Free \notin TokenSeq

\* Parts come after what they are a part of.
IsTree(tree) ==
  /\ tree # <<>> /\ tree \in Seq(Range(tree))
  /\ \A n \in DOMAIN tree :
       \/ tree[n] \in ({"string"} \X Str) \cup {<<"null", "null">>, <<"number", "number">>}
       \/ tree[n] \in {"array"} \X Seq(n + 1 .. Len(tree))
       \/ tree[n] \in {"object"} \X Seq(Str \X (n + 1 .. Len(tree)))

-----------------------------------------------------------------------------

\* The place of the i-th element, and what stands before it.
Kid(node, i) == IF node[1] = "object" THEN node[2][i][2] ELSE node[2][i]
Before(node, i) ==
  (IF i = 1 THEN <<>> ELSE <<",">>) \o (IF node[1] = "object" THEN <<node[2][i][1], ":">> ELSE <<>>)

Opening(node) == IF node[1] = "object" THEN "{" ELSE "["
Closing(node) == IF node[1] = "object" THEN "}" ELSE "]"

\* A container from each element on, given the texts of the elements.
Rest(node, texts) ==
  LET rest[i \in 1 .. Len(node[2]) + 1] ==
        IF i = Len(node[2]) + 1 THEN <<Closing(node)>>
        ELSE Before(node, i) \o (texts[i] \o rest[i + 1])
  IN rest

\* The text of each value of a tree.
Spelled(tree) ==
  LET spelled[n \in DOMAIN tree] ==
        LET node == tree[n] IN
        IF node[1] \in {"object", "array"}
        THEN <<Opening(node)>> \o Rest(node, [i \in DOMAIN node[2] |-> spelled[Kid(node, i)]])[1]
        ELSE <<node[2]>>
  IN spelled

\* The members of an object in the order of the map.
Ordered(kids) ==
  LET upto[i \in 0 .. Len(KeyOrder)] ==
        IF i = 0 THEN <<>>
        ELSE IF KeyOrder[i] \in DOMAIN kids THEN Append(upto[i - 1], <<KeyOrder[i], kids[KeyOrder[i]]>>)
        ELSE upto[i - 1]
  IN upto[Len(KeyOrder)]

\* What an iterator goes through in each value of a heap.
Listed(heap) ==
  [n \in DOMAIN heap |->
     IF heap[n][1] = "object" THEN <<"object", Ordered(heap[n][2])>> ELSE heap[n]]

\* serializer::dump: the text of each value.
Dump(heap) == Spelled(Listed(heap))

=============================================================================
