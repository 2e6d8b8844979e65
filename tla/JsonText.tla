------------------------------ MODULE JsonText ------------------------------
(***************************************************************************)
(* A text on its way to the parser (json.hpp): the input adapters make     *)
(* bytes of a buffer or of a wide string, the lexer reads them one by one, *)
(* can take one back, counts lines and columns and makes tokens of them.   *)
(*                                                                         *)
(* Escapes and the checks of UTF-8 are JsonString's: the texts have no      *)
(* backslash.  Values of numbers are JsonNumber's.  An error ends the text, *)
(* as it does with an exception.                                           *)
(***************************************************************************)
EXTENDS Integers, Sequences, SequencesExt, FiniteSetsExt

CONSTANTS
  Kinds,     \* what the text is given as: "buffer", "utf16" or "utf32"
  Items,     \* what it is made of: the chars of a token, space, mark or mistake, and the type
  MaxItems   \* bound: items of a text

Backslash == 92
TextAssumption ==
  /\ Kinds \subseteq {"buffer", "utf16", "utf32"}
  /\ \A t \in Items : t.chars \in Seq(Nat \ {Backslash})
  /\ MaxItems \in Nat

VARIABLES
  items,     \* history: what the text was made of
  lexer,     \* current, next_unget, position, and the adapter it reads from
  at,        \* the loop that calls get() next
  token,     \* the token so far: its type, bytes, and the label or literal
  taken      \* history: the tokens that scan() has returned
vars == <<items, lexer, at, token, taken>>

Eof == -1
Outside == -2    \* what lies behind the end of a string
LF == 10
Quote == 34
BomByte == <<\hEF, \hBB, \hBF>>
Space == {32, 9, LF, 13}
Scanner == INSTANCE JsonNumber WITH
  Digit <- \h30 .. \h39, SignBit <- 2 ^ 63, MaxChars <- 0, number <- token

-----------------------------------------------------------------------------
(* The adapters: what is left to read, and the bytes of a wide character.  *)

WithBits(lead, w, unit) == lead + ((w \div unit) % 64)
Two(w) == <<WithBits(\hC0, w, 64), WithBits(\h80, w, 1)>>
Three(w) == <<\hE0 + (w \div 4096), WithBits(\h80, w, 64), WithBits(\h80, w, 1)>>
Four(w) == <<\hF0 + (w \div 262144), WithBits(\h80, w, 4096), WithBits(\h80, w, 64), WithBits(\h80, w, 1)>>

\* Two units of UTF-16.
Paired(w, v) == Four(\h10000 + ((w % 1024) * 1024) + (v % 1024))

Filled(a, bytes, n) == [a EXCEPT !.ready = bytes, !.read = @ + n]

\* fill_buffer, of a wide string that is not at its end.
FillUtf32(a) ==
  LET w == a.units[a.read + 1] IN
  CASE w < \h80 -> Filled(a, <<w>>, 1)
    [] w >= \h80 /\ w <= \h7FF -> Filled(a, Two(w), 1)
    [] w >= \h800 /\ w <= \hFFFF -> Filled(a, Three(w), 1)
    [] w >= \h10000 /\ w <= \h10FFFF -> Filled(a, Four(w), 1)
    [] OTHER -> Filled(a, <<w>>, 1)

FillUtf16(a) ==
  LET w == a.units[a.read + 1] IN
  CASE w < \h80 -> Filled(a, <<w>>, 1)
    [] w >= \h80 /\ w <= \h7FF -> Filled(a, Two(w), 1)
    [] w >= \h800 /\ (w < \hD800 \/ w >= \hE000) -> Filled(a, Three(w), 1)
    [] OTHER -> IF a.read + 1 < Len(a.units)
                THEN Filled(a, Paired(w, a.units[a.read + 2]), 2)
                ELSE Filled(a, <<w>>, 2)

fill_buffer(a) ==
  CASE a.read = Len(a.units) -> Filled(a, <<Eof>>, 0)
    [] a.read > Len(a.units) -> Filled(a, <<Outside>>, 1)
    [] a.read < Len(a.units) /\ a.kind = "utf32" -> FillUtf32(a)
    [] OTHER -> FillUtf16(a)

\* The adapter with the character at the head of ready.
get_character(a) ==
  CASE a.kind # "buffer" -> IF Tail(a.ready) = <<>> THEN fill_buffer(a) ELSE [a EXCEPT !.ready = Tail(@)]
    [] a.kind = "buffer" /\ a.read < Len(a.units) -> Filled(a, <<a.units[a.read + 1]>>, 1)
    [] OTHER -> Filled(a, <<Eof>>, 0)

-----------------------------------------------------------------------------
(* The lexer.                                                              *)

Read(l, a) ==
  LET newline == Head(a.ready) = LF IN
  [current |-> Head(a.ready), next_unget |-> FALSE, adapter |-> a,
   total |-> l.total + 1,
   lines |-> IF newline THEN l.lines + 1 ELSE l.lines,
   column |-> IF newline THEN 0 ELSE l.column + 1]
get(l) == Read(l, IF l.next_unget THEN l.adapter ELSE get_character(l.adapter))

\* Mutant: the line is not taken back.
UngetColumn(l) ==
  [l EXCEPT !.next_unget = TRUE, !.total = @ - 1, !.column = IF @ = 0 THEN 0 ELSE @ - 1]
unget(l) ==
  [l EXCEPT !.next_unget = TRUE, !.total = @ - 1,
            !.lines = IF l.column = 0 /\ @ > 0 THEN @ - 1 ELSE @,
            !.column = IF @ = 0 THEN 0 ELSE @ - 1]

NoToken == [type |-> "none", bytes |-> <<>>, at |-> "init", want |-> <<>>]
Goto(to, l, t) == at' = to /\ lexer' = l /\ token' = t /\ UNCHANGED <<items, taken>>
Take(l, type, bytes) ==
  /\ at' = IF type = "end_of_input" THEN "ended" ELSE "idle"
  /\ lexer' = l /\ token' = NoToken
  /\ taken' = Append(taken, [type |-> type, bytes |-> bytes])
  /\ UNCHANGED items
Error(l) == Goto("error", l, NoToken)

\* scan, the first time: skip_bom.
SkipBom ==
  /\ at = "idle" /\ lexer.total = 0
  /\ LET l == get(lexer) IN
     IF l.current = BomByte[1] THEN Goto("bom2", l, NoToken) ELSE Goto("space", unget(l), NoToken)
BomNext(from, c, to) ==
  /\ at = from
  /\ LET l == get(lexer) IN IF l.current = c THEN Goto(to, l, NoToken) ELSE Error(l)
SkipBom2 == BomNext("bom2", BomByte[2], "bom3")
SkipBom3 == BomNext("bom3", BomByte[3], "space")

Structural ==
  [c \in {91, 93, 123, 125, 58, 44} |->
     CASE c = 91 -> "begin_array" [] c = 93 -> "end_array" [] c = 123 -> "begin_object"
       [] c = 125 -> "end_object" [] c = 58 -> "name_separator" [] c = 44 -> "value_separator"]
True == <<116, 114, 117, 101>>
False == <<102, 97, 108, 115, 101>>
Null == <<110, 117, 108, 108>>
LiteralType(s) ==
  CASE s = True -> "literal_true" [] s = False -> "literal_false" [] s = Null -> "literal_null"

\* The switch over the first character that is no space.
Switch(l, c) ==
  CASE c \in Space -> Goto("space", l, NoToken)
    [] c \in DOMAIN Structural -> Take(l, Structural[c], <<>>)
    [] c \in {Head(s) : s \in {True, False, Null}} ->
         LET s == CHOOSE s \in {True, False, Null} : Head(s) = c IN
         Goto("literal", l, [NoToken EXCEPT !.type = LiteralType(s), !.want = Tail(s)])
    [] c = Quote -> Goto("string", l, NoToken)
    [] c \in {Scanner!Minus} \cup \h30 .. \h39 ->
         Goto("number", l, [NoToken EXCEPT !.bytes = <<c>>, !.at = Scanner!Label("init", c)])
    [] c \in {0, Eof} -> Take(l, "end_of_input", <<>>)
    [] OTHER -> Error(l)
ScanSpace ==
  /\ at = "space" \/ (at = "idle" /\ lexer.total # 0)
  /\ LET l == get(lexer) IN Switch(l, l.current)

ScanLiteral ==
  /\ at = "literal"
  /\ LET l == get(lexer)
         rest == Tail(token.want) IN
     CASE l.current # Head(token.want) -> Error(l)
       [] l.current = Head(token.want) /\ rest # <<>> -> Goto("literal", l, [token EXCEPT !.want = rest])
       [] OTHER -> Take(l, token.type, <<>>)

ScanString ==
  /\ at = "string"
  /\ LET l == get(lexer) IN
     CASE l.current = Quote -> Take(l, "value_string", token.bytes)
       [] l.current \in 32 .. 255 \ {Quote} ->
            Goto("string", l, [token EXCEPT !.bytes = Append(@, l.current)])
       [] OTHER -> Error(l)

\* The character after a number is left to the next token.
ScanNumber ==
  /\ at = "number"
  /\ LET l == get(lexer)
         to == Scanner!Label(token.at, l.current) IN
     CASE to = "done" -> Take(unget(l), "value_number", token.bytes)
       [] to = "error" -> Error(l)
       [] OTHER -> Goto("number", l, [token EXCEPT !.at = to, !.bytes = Append(@, l.current)])

-----------------------------------------------------------------------------

\* UTF-8 and UTF-16 as Unicode has them, for whoever writes the text.
Lead(mark, c, unit) == mark + (c \div unit)
Trail(c, unit) == 128 + ((c \div unit) % 64)
Utf8(c) ==
  CASE c < \h80 -> <<c>>
    [] c >= \h80 /\ c <= \h7FF -> <<Lead(192, c, 64), Trail(c, 1)>>
    [] c >= \h800 /\ c <= \hFFFF -> <<Lead(224, c, 4096), Trail(c, 64), Trail(c, 1)>>
    [] OTHER -> <<Lead(240, c, 262144), Trail(c, 4096), Trail(c, 64), Trail(c, 1)>>
Utf16(c) ==
  IF c < \h10000 THEN <<c>>
  ELSE <<\hD800 + ((c - \h10000) \div 1024), \hDC00 + ((c - \h10000) % 1024)>>

Chars == FlattenSeq([i \in DOMAIN items |-> items[i].chars])
Mapped(s, Op(_)) == FlattenSeq([i \in DOMAIN s |-> Op(s[i])])
Units(kind, s) ==
  CASE kind = "buffer" -> Mapped(s, Utf8) [] kind = "utf16" -> Mapped(s, Utf16) [] kind = "utf32" -> s

Init ==
  /\ items \in {s \in BoundedSeq(Items, MaxItems) :
                  \A i \in 1 .. Len(s) - 1 : {s[i].type, s[i + 1].type} # {"value_number"}}
  /\ \E kind \in Kinds :
       lexer = [current |-> Eof, next_unget |-> FALSE, total |-> 0, lines |-> 0, column |-> 0,
                adapter |-> [kind |-> kind, units |-> Units(kind, Chars), read |-> 0, ready |-> <<Eof>>]]
  /\ at = "idle" /\ token = NoToken /\ taken = <<>>

Next ==
  \/ SkipBom \/ SkipBom2 \/ SkipBom3
  \/ ScanSpace \/ ScanLiteral \/ ScanString \/ ScanNumber

Spec == Init /\ [][Next]_vars

-----------------------------------------------------------------------------
(* Properties.                                                             *)

\* The items that count: a mark at the start is skipped, and nothing is said of what
\* follows a mistake or a NUL.
IsBad(i) == items[i].type \in {"mistake", "broken", "end_of_input"} \/ (items[i].type = "mark" /\ i > 1)
BadAt == IF \E i \in DOMAIN items : IsBad(i) THEN Min({i \in DOMAIN items : IsBad(i)}) ELSE Len(items) + 1
IsToken(t) == t.type \notin {"space", "mark"}
Inner(s) == SubSeq(s, 2, Len(s) - 1)
AsToken(t) ==
  [type |-> t.type,
   bytes |-> CASE t.type = "value_string" -> Mapped(Inner(t.chars), Utf8)
               [] t.type = "value_number" -> t.chars
               [] OTHER -> <<>>]
Wanted ==
  LET s == SelectSeq(SubSeq(items, 1, BadAt - 1), IsToken) IN [i \in DOMAIN s |-> AsToken(s[i])]

\* Space and a mark leave no trace, every token is found with its bytes whatever the text is
\* given as, and only a mistake is refused.
TokensAsWritten ==
  /\ \A i \in DOMAIN taken \cap DOMAIN Wanted : taken[i] = Wanted[i]
  /\ at \in {"error", "ended"} => Len(taken) >= Len(Wanted)
  /\ at = "error" => BadAt <= Len(items) /\ items[BadAt].type # "end_of_input"
  /\ at = "ended" => BadAt > Len(items) \/ items[BadAt].type \notin {"mistake", "mark"}

\* The position between two tokens is that of the last token's last byte, whatever was
\* read ahead and taken back: all bytes so far, the lines among them, and the bytes of the
\* last line, for which unget has no value when it takes back a line feed.
PositionTrue ==
  at = "idle" /\ Len(taken) <= Len(Wanted) =>
    LET ends == {i \in 1 .. BadAt - 1 : Len(SelectSeq(SubSeq(items, 1, i), IsToken)) = Len(taken)}
        last == IF taken = <<>> THEN 0 ELSE Min(ends)
        bytes == Mapped(FlattenSeq([i \in 1 .. last |-> items[i].chars]), Utf8)
        feeds == {i \in DOMAIN bytes : bytes[i] = LF} IN
    /\ lexer.total = Len(bytes)
    /\ lexer.lines = Cardinality(feeds)
    /\ ~(lexer.next_unget /\ lexer.current = LF) =>
         lexer.column = Len(bytes) - (IF feeds = {} THEN 0 ELSE Max(feeds))

\* No adapter reads behind the end of its string, also after a surrogate at the end: what
\* fill_buffer makes of it ends the text.
ReadsInside == lexer.current # Outside

\* All together: the lexer finds the tokens that were written, at the position where they are.
TextAsWritten == TokensAsWritten /\ PositionTrue /\ ReadsInside

=============================================================================
