----------------------------- MODULE JsonParser -----------------------------
(***************************************************************************)
(* json::parse (json.hpp) on tokens: sax_parse_internal drives a            *)
(* json_sax_dom_parser, which builds the value in place.  Every step takes *)
(* one token.                                                              *)
(*                                                                         *)
(* The value is a heap of nodes, as it is in memory: ref_stack and         *)
(* object_element point into it.  A string or a number at the start of a    *)
(* free text is scanned byte by byte (JsonString, JsonNumber); elsewhere   *)
(* it is one token.                                                        *)
(***************************************************************************)
EXTENDS JsonString, JsonNumber

CONSTANTS
  Str,       \* strings, keys or values
  Word,      \* those in free texts
  MaxTokens  \* bound: the length of a free text, the end of it included

ASSUME ParserAssumption == Word \subseteq Str /\ MaxTokens \in Nat

VARIABLES
  pc,      \* where sax_parse_internal stands, see Token
  states,  \* its stack: TRUE for an array, FALSE for an object
  dom,     \* the json_sax_dom_parser: heap, refs (ref_stack), element
  text,    \* history: the tokens taken so far
  todo     \* the tokens to come, or Free: any

parseVars == <<pc, states, dom, text, todo>>
lexerVars == <<scanVars, number>>
LexerInit == ScanInit /\ NumberInit

Free == <<"free">>
Scalar == Str \cup {"null", "number"}
NonString == {"null", "number", "{", "}", "[", "]", ",", ":", "error", "end"}
Vocabulary == Word \cup NonString

-----------------------------------------------------------------------------
(* json_sax_dom_parser.  A node is a pair of a type and its content.       *)

Leaf(t) == IF t \in Str THEN <<"string", t>> ELSE <<t, t>>
IsArray(d) == d.heap[Last(d.refs)][1] = "array"

NoDom == [heap |-> <<>>, refs |-> <<>>, element |-> 0]

\* The node a value goes to.
Place(d) == IF d.refs = <<>> THEN 1 ELSE IF IsArray(d) THEN Len(d.heap) + 1 ELSE d.element

\* handle_value
HandleValue(d, node) ==
  CASE d.refs = <<>> -> [d EXCEPT !.heap = <<node>>]
    [] d.refs # <<>> /\ IsArray(d) ->
         [d EXCEPT !.heap =
            Append([d.heap EXCEPT ![Last(d.refs)][2] = Append(@, Place(d))], node)]
    [] OTHER -> [d EXCEPT !.heap[d.element] = node]

\* start_object, start_array
StartContainer(d, type) == [HandleValue(d, <<type, <<>> >>) EXCEPT !.refs = Append(@, Place(d))]

\* key: operator[] adds a null unless the key is there.  Mutant: a key that is
\* there once more gets an element of its own, which nothing reads.
NewElement(d, k) ==
  LET back == Last(d.refs)
      n == Len(d.heap) + 1
      kids == d.heap[back][2] IN
  [d EXCEPT !.element = n,
            !.heap = Append([d.heap EXCEPT ![back][2] =
                               [j \in DOMAIN kids \cup {k} |->
                                  IF j \in DOMAIN kids THEN kids[j] ELSE n]], Leaf("null"))]
Key(d, k) ==
  LET kids == d.heap[Last(d.refs)][2] IN
  IF k \in DOMAIN kids THEN [d EXCEPT !.element = kids[k]] ELSE NewElement(d, k)

\* end_object and end_array
End(d) == [d EXCEPT !.refs = Front(@)]

-----------------------------------------------------------------------------
(* sax_parse_internal: what it does with the next token t.                 *)

Goto(to, st, d) == pc' = to /\ states' = st /\ dom' = d

Fail == Goto("rejected", states, dom)

\* A value, with st on the stack.
Value(t, st) ==
  \/ t = "{" /\ Goto("first", st, StartContainer(dom, "object"))
  \/ t = "[" /\ Goto("element", st, StartContainer(dom, "array"))
  \/ t \in Scalar /\ Goto("next", st, HandleValue(dom, Leaf(t)))
  \/ t \notin Scalar \cup {"{", "["} /\ Fail

\* After {: the object is empty, or its first key comes.
First(t) ==
  \/ t = "}" /\ Goto("next", states, End(dom))
  \/ t \in Str /\ Goto("colon1", states, Key(dom, t))
  \/ t \notin Str \cup {"}"} /\ Fail

\* After the first key the object goes on the stack.
Colon1(t) ==
  \/ t = ":" /\ Goto("value", Append(states, FALSE), dom)
  \/ t # ":" /\ Fail

\* After [: the array is empty, or goes on the stack before its first value.
\* Mutant: no array is empty.
ValueOnly(t) == Value(t, Append(states, TRUE))
Element(t) ==
  \/ t = "]" /\ Goto("next", states, End(dom))
  \/ t # "]" /\ Value(t, Append(states, TRUE))

\* After a further key.  Mutant: the object goes on the stack again.
EveryColon(t) == Colon1(t)
Colon(t) ==
  \/ t = ":" /\ Goto("value", states, dom)
  \/ t # ":" /\ Fail

\* After the comma in an object.
NextKey(t) ==
  \/ t \in Str /\ Goto("colon", states, Key(dom, t))
  \/ t \notin Str /\ Fail

\* After a value inside an array or an object.
Close == Goto("next", Front(states), End(dom))
InArray(t) ==
  \/ t = "," /\ Goto("value", states, dom)
  \/ t = "]" /\ Close
  \/ t \notin {",", "]"} /\ Fail
InObject(t) ==
  \/ t = "," /\ Goto("key", states, dom)
  \/ t = "}" /\ Close
  \/ t \notin {",", "}"} /\ Fail

\* parse, strict: nothing may follow.
AtEnd(t) == Goto(IF t = "end" THEN "accepted" ELSE "rejected", states, dom)

\* get_token and what follows it.
Token(t) ==
  CASE pc = "value"   -> Value(t, states)
    [] pc = "first"   -> First(t)
    [] pc = "colon1"  -> Colon1(t)
    [] pc = "element" -> Element(t)
    [] pc = "colon"   -> Colon(t)
    [] pc = "key"     -> NextKey(t)
    [] pc = "next" /\ states = <<>> -> AtEnd(t)
    [] pc = "next" /\ states # <<>> ->
         IF Last(states) THEN InArray(t) ELSE InObject(t)

-----------------------------------------------------------------------------

Parsing == pc \notin {"accepted", "rejected"}

ParserInit == LexerInit /\ pc = "value" /\ states = <<>> /\ dom = NoDom /\ text = <<>>

\* What was parsed holds a text: a payload.
ParseAgain(tokens) ==
  /\ pc = "accepted"
  /\ Goto("value", <<>>, NoDom) /\ text' = <<>> /\ todo' = tokens
  /\ UNCHANGED lexerVars

\* The next token of a free text, or of a given one.
TakeAny(t) ==
  /\ Parsing /\ todo = Free /\ Len(text) < MaxTokens
  /\ text # <<>> \/ LexerInit
  /\ Token(t) /\ text' = Append(text, t)
  /\ UNCHANGED <<todo, lexerVars>>

TakeGiven ==
  /\ Parsing /\ todo # Free
  /\ LET t == IF todo = <<>> THEN "end" ELSE Head(todo) IN
       Token(t) /\ text' = Append(text, t)
  /\ todo' = IF todo = <<>> THEN <<>> ELSE Tail(todo)
  /\ UNCHANGED lexerVars

\* Scanning of the first token of a free text, and what the parser does with it.
FirstToken(tokens) ==
  /\ IF tokens = {} THEN UNCHANGED <<pc, states, dom, text>>
     ELSE \E t \in tokens : Token(t) /\ text' = <<t>>
  /\ UNCHANGED todo

ScanFirst ==
  /\ Parsing /\ todo = Free /\ text = <<>> /\ NumberInit
  /\ ScanNext
  /\ FirstToken(CASE scan' = "open" -> {} [] scan' = "closed" -> Word
                  [] scan' = "rejected" -> {"error"})
  /\ UNCHANGED number

\* scan_number is through: the token is forgotten with the number's text.  A
\* float with an exponent may be infinite, which sax_parse_internal refuses.
NumberFirst ==
  /\ Parsing /\ todo = Free /\ text = <<>> /\ ScanInit
  /\ \/ NumberNext /\ FirstToken({})
     \/ /\ ~Scanning
        /\ number' = [at |-> "init", type |-> "unsigned", token |-> <<>>]
        /\ FirstToken(IF number.at = "error" THEN {"error"}
                      ELSE IF Contains(number.token, Exp) THEN {"number", "error"}
                      ELSE {"number"})
  /\ UNCHANGED scanVars

ParseNext == (\E t \in Vocabulary : TakeAny(t)) \/ TakeGiven \/ ScanFirst \/ NumberFirst

\* Any texts, and after each that was accepted another.
TokenSeq == Seq(Str \cup Vocabulary)

ParserSpec ==
  /\ ParserInit /\ todo \in {Free} \cup TokenSeq
  /\ [][ParseNext \/ \E tokens \in TokenSeq : ParseAgain(tokens)]_<<parseVars, lexerVars>>

-----------------------------------------------------------------------------
(* Properties.                                                             *)

\* What the value at n holds, at each index or key.
Content(heap, n) == IF heap[n][1] \in {"object", "array"} THEN heap[n][2] ELSE <<>>

\* object_element is an element of the object that ref_stack ends with.
ElementIsIn(d) ==
  LET kids == Content(d.heap, Last(d.refs)) IN
  \E k \in DOMAIN kids : kids[k] = d.element

\* Every value is in one place, and newer than its container.
IsForest(heap) ==
  \A n \in DOMAIN heap : \A k \in DOMAIN Content(heap, n) :
    LET x == Content(heap, n)[k] IN
    /\ x \in n + 1 .. Len(heap)
    /\ \A m \in DOMAIN heap : \A l \in DOMAIN Content(heap, m) :
         Content(heap, m)[l] = x => m = n /\ l = k

\* ref_stack leads from the root down through containers, each inside the one before.
IsPath(d) ==
  \A i \in DOMAIN d.refs :
    /\ d.refs[i] \in DOMAIN d.heap /\ d.heap[d.refs[i]][1] \in {"object", "array"}
    /\ IF i = 1 THEN d.refs[i] = 1
       ELSE LET kids == Content(d.heap, d.refs[i - 1]) IN
            \E k \in DOMAIN kids : kids[k] = d.refs[i]

\* The two stacks, kept by two classes, agree: states mirrors ref_stack.
Opened == IF pc \in {"first", "colon1", "element"} THEN 1 ELSE 0
Mirrors ==
  /\ Len(dom.refs) = Len(states) + Opened
  /\ \A i \in DOMAIN states : states[i] <=> dom.heap[dom.refs[i]][1] = "array"

\* The two stacks agree at every token, and a value inside an object goes to an
\* element of that object: the asserts of handle_value and sax_parse_internal
\* rest on it.  No pointer is left dangling: the vector that grows with a value
\* is at the end of ref_stack, which leads down to it, so it holds nothing that
\* ref_stack points to, and every value is in one place.
Aligned ==
  /\ IsForest(dom.heap) /\ IsPath(dom)
  /\ Parsing =>
       /\ Mirrors
       /\ pc = "value" /\ states # <<>> /\ ~Last(states) => ElementIsIn(dom)

-----------------------------------------------------------------------------
(* The inductive invariant behind it.                                      *)

Node ==
  ({"string"} \X Str) \cup {<<"null", "null">>, <<"number", "number">>}
    \cup ({"array"} \X Seq(Nat)) \cup ({"object"} \X UNION {[K -> Nat] : K \in SUBSET Str})

ParserTypeOK ==
  /\ pc \in {"value", "first", "colon1", "element", "colon", "key", "next",
             "accepted", "rejected"}
  /\ states \in Seq(BOOLEAN)
  /\ dom \in [heap : Seq(Node), refs : Seq(Nat), element : Nat]

\* What else holds at each place in sax_parse_internal.
InPlace ==
  /\ pc \in {"first", "colon1"} => ~IsArray(dom)
  /\ pc = "element" => IsArray(dom)
  /\ pc \in {"key", "colon"} => states # <<>> /\ ~Last(states)
  /\ pc \in {"colon1", "colon"} \/ (pc = "value" /\ states # <<>> /\ ~Last(states))
       => ElementIsIn(dom)
  /\ pc \in {"next", "accepted"} => dom.heap # <<>>
  /\ pc = "accepted" => states = <<>>

ParserInv ==
  /\ ParserTypeOK
  /\ IsForest(dom.heap) /\ IsPath(dom)
  /\ \A i, j \in DOMAIN dom.refs : i < j => dom.refs[i] < dom.refs[j]
  /\ pc # "rejected" => Mirrors /\ InPlace

=============================================================================
