--------------------------- MODULE JsonTextProofs ---------------------------
(* Theorems about JsonText: no adapter reads behind the end of the string it *)
(* was given, whatever the text is and in whatever form, and the counters of *)
(* the position do not go below zero.                                        *)
EXTENDS JsonText, TLAPS, SequenceTheorems, WellFoundedInduction

\* What an adapter may hand to the lexer.
Char == Nat \cup {Eof}
Surrogate == {w \in Nat : w >= \hD800 /\ w < \hE000}

Adapter == [kind : {"buffer", "utf16", "utf32"}, units : Seq(Nat), read : Nat, ready : Seq(Char)]
LexerRecord ==
  [current : Char, next_unget : BOOLEAN, total : Nat, lines : Nat, column : Nat, adapter : Adapter]

\* fill_buffer steps behind the end only for a surrogate that ends the string.
Overshot(a) == a.read > Len(a.units)
OnlySurrogate(a) == Overshot(a) => a.kind = "utf16" /\ Head(a.ready) \in Surrogate

\* The lexer has the character that the adapter handed to it.
Holds(l) ==
  /\ l \in LexerRecord /\ l.adapter.ready # <<>>
  /\ l.current = Head(l.adapter.ready)
  /\ OnlySurrogate(l.adapter)

\* Behind the end, the text is refused, or the surrogate has been taken back and comes again.
ReadInv == Holds(lexer) /\ (Overshot(lexer.adapter) => at = "error" \/ lexer.next_unget)

\* What is left of a literal are letters.
Letter == 97 .. 122
LiteralToken ==
  [type : {"literal_true", "literal_false", "literal_null"}, bytes : {<<>>}, at : {"init"}, want : Seq(Letter)]
WantsLetters == at = "literal" => token \in LiteralToken /\ token.want # <<>>

\* The inductive invariant.
TextInv == ReadInv /\ WantsLetters

-----------------------------------------------------------------------------
(* Sequences put together.                                                 *)

\* The numbers are well-founded, and so the least of some of them is there.
LEMMA NatOrder ==
  \E R : IsWellFoundedOn(R, Nat) /\ \A x, y \in Nat : y < x => <<y, x>> \in R
<1> DEFINE R == OpToRel(<, Nat)
<1>1. IsWellFoundedOn(R, Nat)
  BY NatLessThanWellFounded
<1>2. \A x, y \in Nat : y < x => <<y, x>> \in R
  BY DEF OpToRel
<1> HIDE DEF R
<1> QED
  BY <1>1, <1>2

\* Among some numbers there is a least one.
LEMMA LeastNat ==
  ASSUME NEW T, T \subseteq Nat, T # {}
  PROVE  \E x \in T : \A y \in T : x <= y
<1>1. PICK R : IsWellFoundedOn(R, Nat) /\ \A x, y \in Nat : y < x => <<y, x>> \in R
  BY NatOrder
<1>2. PICK x \in T : \A y \in T : ~(<<y, x>> \in R)
  BY <1>1, WFMin
<1>3. ASSUME NEW y \in T PROVE x <= y
  <2>1. x \in Nat /\ y \in Nat
    OBVIOUS
  <2>2. ~(y < x)
    <3> SUFFICES ASSUME y < x PROVE FALSE
      OBVIOUS
    <3>1. <<y, x>> \in R
      BY <1>1, <2>1
    <3> QED
      BY <1>2, <3>1
  <2> QED
    BY <2>1, <2>2
<1> QED
  BY <1>3

\* A set of numbers with 0 and with the successor of each member holds them all.
LEMMA Induction ==
  ASSUME NEW T, 0 \in T, \A n \in Nat : n \in T => n + 1 \in T
  PROVE  Nat \subseteq T
<1> SUFFICES ASSUME Nat \ T # {} PROVE FALSE
  OBVIOUS
<1>1. PICK x \in Nat \ T : \A y \in Nat \ T : x <= y
  BY LeastNat
<1>2. x # 0 /\ x - 1 \in Nat
  BY <1>1
<1>3. x - 1 \in T
  BY <1>1, <1>2
<1> QED
  BY <1>1, <1>2, <1>3

\* The recursive function in FlattenSeq.
Flattens(f, s) ==
  f = [i \in 1 .. Len(s) |-> IF i = 1 THEN s[i] ELSE f[i - 1] \o s[i]]

\* There is one, for any sequences.
LEMMA FlattenExists ==
  ASSUME NEW T, NEW s \in Seq(Seq(T))
  PROVE  \E f : Flattens(f, s)
<1> DEFINE Up(f, n) == f = [i \in 1 .. n |-> IF i = 1 THEN s[i] ELSE f[i - 1] \o s[i]]
           Reached == {n \in Nat : \E f : Up(f, n)}
<1>1. 0 \in Reached
  <2>1. Up([i \in 1 .. 0 |-> 0], 0)
    OBVIOUS
  <2> QED
    BY <2>1
<1>2. ASSUME NEW n \in Nat, n \in Reached PROVE n + 1 \in Reached
  <2>1. PICK f : Up(f, n)
    BY <1>2
  <2> DEFINE e == IF n + 1 = 1 THEN s[n + 1] ELSE f[n] \o s[n + 1]
             g == [i \in 1 .. n + 1 |-> IF i = n + 1 THEN e ELSE f[i]]
  <2>2. ASSUME NEW i \in 1 .. n + 1
        PROVE  g[i] = IF i = 1 THEN s[i] ELSE g[i - 1] \o s[i]
    <3>1. CASE i = n + 1
      BY <3>1
    <3>2. CASE i # n + 1
      <4>1. i \in 1 .. n /\ (i # 1 => i - 1 \in 1 .. n)
        BY <3>2
      <4>2. f[i] = IF i = 1 THEN s[i] ELSE f[i - 1] \o s[i]
        BY <2>1, <4>1, Zenon
      <4>3. g[i] = f[i] /\ (i # 1 => g[i - 1] = f[i - 1])
        BY <3>2, <4>1
      <4> QED
        BY <4>2, <4>3
    <3> QED
      BY <3>1, <3>2
  <2> HIDE DEF e
  <2>3. Up(g, n + 1)
    <3> DEFINE h == [i \in 1 .. n + 1 |-> IF i = 1 THEN s[i] ELSE g[i - 1] \o s[i]]
    <3>1. \A i \in 1 .. n + 1 : g[i] = h[i]
      BY <2>2
    <3>2. g = h
      BY <3>1
    <3> QED
      BY <3>2
  <2>4. n + 1 \in Nat /\ \E f1 : Up(f1, n + 1)
    <3> HIDE DEF Up, g
    <3> QED
      BY <2>3
  <2> HIDE DEF Up
  <2> QED
    BY <2>4
<1>3. Len(s) \in Reached
  <2> HIDE DEF Reached
  <2> QED
    BY <1>1, <1>2, Induction
<1> QED
  BY <1>3 DEF Flattens

\* Sequences of Ts put together are a sequence of Ts.
LEMMA FlattenType ==
  ASSUME NEW T, NEW s \in Seq(Seq(T))
  PROVE  FlattenSeq(s) \in Seq(T)
<1> DEFINE f == CHOOSE f : Flattens(f, s)
<1>1. Flattens(f, s)
  BY FlattenExists
<1>2. FlattenSeq(s) = IF Len(s) = 0 THEN s ELSE f[Len(s)]
  BY DEF FlattenSeq, Flattens
<1> DEFINE Typed == {n \in Nat : n \in 1 .. Len(s) => f[n] \in Seq(T)}
<1> HIDE DEF f
<1>3. \A i \in 1 .. Len(s) : f[i] = IF i = 1 THEN s[i] ELSE f[i - 1] \o s[i]
  BY <1>1, Zenon DEF Flattens
<1>4. ASSUME NEW n \in Nat, n \in Typed PROVE n + 1 \in Typed
  <2> SUFFICES ASSUME n + 1 \in 1 .. Len(s) PROVE f[n + 1] \in Seq(T)
    OBVIOUS
  <2>1. s[n + 1] \in Seq(T)
    OBVIOUS
  <2>2. CASE n = 0
    BY <1>3, <2>1, <2>2
  <2>3. CASE n # 0
    <3>1. f[n] \in Seq(T)
      BY <1>4, <2>3
    <3>2. n + 1 # 1 /\ (n + 1) - 1 = n
      BY <2>3
    <3>3. f[n + 1] = f[(n + 1) - 1] \o s[n + 1]
      BY <1>3, <3>2, Zenon
    <3> QED
      BY <2>1, <3>1, <3>2, <3>3
  <2> QED
    BY <2>2, <2>3
<1>5. 0 \in Typed
  OBVIOUS
<1>6. Len(s) \in Typed
  <2> HIDE DEF Typed
  <2> QED
    BY <1>4, <1>5, Induction
<1>7. CASE Len(s) = 0
  BY <1>2, <1>7
<1>8. CASE Len(s) # 0
  BY <1>2, <1>6, <1>8
<1> QED
  BY <1>7, <1>8

-----------------------------------------------------------------------------
(* The text, as it is given to the adapter.                                *)

\* A text in UTF-8 or in UTF-16 is a string of numbers.
LEMMA MappedType ==
  ASSUME NEW s \in Seq(Nat)
  PROVE  /\ Mapped(s, Utf8) \in Seq(Nat)
         /\ Mapped(s, Utf16) \in Seq(Nat)
<1>1. ASSUME NEW c \in Nat PROVE Utf8(c) \in Seq(Nat)
  <2>1. \A mark \in {192, 224, 240}, unit \in {64, 4096, 262144} : Lead(mark, c, unit) \in Nat
    BY DEF Lead
  <2>2. \A unit \in {1, 64, 4096} : Trail(c, unit) \in Nat
    BY DEF Trail
  <2> QED
    BY <2>1, <2>2 DEF Utf8
<1>2. \A c \in Nat : Utf16(c) \in Seq(Nat)
  BY DEF Utf16
<1>3. DOMAIN s = 1 .. Len(s) /\ \A i \in 1 .. Len(s) : s[i] \in Nat
  OBVIOUS
<1>4. [i \in 1 .. Len(s) |-> Utf8(s[i])] \in Seq(Seq(Nat))
  <2>1. \A i \in 1 .. Len(s) : Utf8(s[i]) \in Seq(Nat)
    BY <1>1, <1>3
  <2> QED
    BY <2>1
<1>5. [i \in 1 .. Len(s) |-> Utf16(s[i])] \in Seq(Seq(Nat))
  <2>1. \A i \in 1 .. Len(s) : Utf16(s[i]) \in Seq(Nat)
    BY <1>2, <1>3
  <2> QED
    BY <2>1
<1> QED
  BY <1>3, <1>4, <1>5, FlattenType DEF Mapped

\* So is a text in whatever form it is given.
LEMMA UnitsType ==
  ASSUME TextAssumption, items \in BoundedSeq(Items, MaxItems), NEW kind \in Kinds
  PROVE  Units(kind, Chars) \in Seq(Nat)
<1>1. items \in Seq(Items)
  BY DEF BoundedSeq, SeqOf, TextAssumption
<1>2. \A i \in DOMAIN items : items[i].chars \in Seq(Nat)
  <2>1. \A t \in Items : t.chars \in Seq(Nat)
    BY DEF TextAssumption
  <2> QED
    BY <1>1, <2>1
<1>3. [i \in DOMAIN items |-> items[i].chars] \in Seq(Seq(Nat))
  BY <1>1, <1>2
<1>4. Chars \in Seq(Nat)
  BY <1>3, FlattenType DEF Chars
<1> QED
  BY <1>4, MappedType DEF Units, TextAssumption

-----------------------------------------------------------------------------
(* The adapters.                                                           *)

\* What wide characters are turned into is what an adapter may hand on.
LEMMA BytesType ==
  ASSUME NEW w \in Nat
  PROVE  /\ Two(w) \in Seq(Char) /\ Two(w) # <<>>
         /\ Three(w) \in Seq(Char) /\ Three(w) # <<>>
         /\ Four(w) \in Seq(Char) /\ Four(w) # <<>>
<1>1. \A lead \in Nat, unit \in {1, 64, 4096} : WithBits(lead, w, unit) \in Nat
  BY DEF WithBits
<1>2. w \div 4096 \in Nat /\ w \div 262144 \in Nat
  OBVIOUS
<1> QED
  BY <1>1, <1>2 DEF Two, Three, Four, Char

\* An adapter that is filled with the bytes of n units.
LEMMA FilledType ==
  ASSUME NEW a \in Adapter, NEW bytes \in Seq(Char), NEW n \in Nat
  PROVE  /\ Filled(a, bytes, n) \in Adapter
         /\ Filled(a, bytes, n).ready = bytes
         /\ Filled(a, bytes, n).read = a.read + n
         /\ Filled(a, bytes, n).units = a.units
         /\ Filled(a, bytes, n).kind = a.kind
<1>1. a.read + n \in Nat
  BY DEF Adapter
<1> DEFINE r == a.read + n
<1>2. Filled(a, bytes, n) = [[a EXCEPT !.ready = bytes] EXCEPT !.read = r]
  BY DEF Filled
<1> HIDE DEF r
<1>3. Filled(a, bytes, n) \in Adapter
  BY <1>1, <1>2 DEF Adapter, r
<1>4. Filled(a, bytes, n).read = r
  BY <1>2 DEF Adapter
<1> QED
  BY <1>2, <1>3, <1>4 DEF Adapter, r

\* An adapter after a step of fill_buffer or get_character from inside the string.
Stepped(b) == b \in Adapter /\ b.ready # <<>> /\ OnlySurrogate(b)

\* A fill that stays inside the string is a step, and so is one to behind a surrogate.
LEMMA FilledStep ==
  ASSUME NEW a \in Adapter, NEW bytes \in Seq(Char), bytes # <<>>, NEW n \in Nat,
         a.read + n <= Len(a.units) \/ (a.kind = "utf16" /\ Head(bytes) \in Surrogate)
  PROVE  Stepped(Filled(a, bytes, n))
<1> DEFINE b == Filled(a, bytes, n)
<1>1. b \in Adapter /\ b.ready = bytes /\ b.read = a.read + n /\ b.units = a.units /\ b.kind = a.kind
  BY FilledType
<1>2. a.read + n \in Nat /\ Len(a.units) \in Nat
  BY DEF Adapter
<1>3. OnlySurrogate(b)
  <2> HIDE DEF b
  <2>1. CASE a.read + n <= Len(a.units)
    BY <1>1, <1>2, <2>1 DEF OnlySurrogate, Overshot
  <2>2. CASE a.kind = "utf16" /\ Head(bytes) \in Surrogate
    BY <1>1, <2>2 DEF OnlySurrogate
  <2> QED
    BY <2>1, <2>2
<1> HIDE DEF b
<1>4. Stepped(b)
  BY <1>1, <1>3 DEF Stepped
<1> QED
  BY <1>4 DEF b

\* What fill_buffer makes of the next unit.
Unit(a) == a.units[a.read + 1]

\* A surrogate takes the unit after it, or a place behind the end.
LEMMA Utf16Surrogate ==
  ASSUME NEW a, Unit(a) \in Surrogate
  PROVE  FillUtf16(a) = IF a.read + 1 < Len(a.units)
                        THEN Filled(a, Paired(Unit(a), a.units[a.read + 2]), 2)
                        ELSE Filled(a, <<Unit(a)>>, 2)
BY DEF FillUtf16, Unit, Surrogate

\* Of a unit that is no surrogate, fill_buffer takes just this unit.
LEMMA Utf16Other ==
  ASSUME NEW a, Unit(a) \in Nat \ Surrogate
  PROVE  FillUtf16(a) \in {Filled(a, <<Unit(a)>>, 1), Filled(a, Two(Unit(a)), 1),
                           Filled(a, Three(Unit(a)), 1)}
BY DEF FillUtf16, Unit, Surrogate

\* Of UTF-32 it takes one unit in any case.
LEMMA Utf32Any ==
  ASSUME NEW a, Unit(a) \in Nat
  PROVE  FillUtf32(a) \in {Filled(a, <<Unit(a)>>, 1), Filled(a, Two(Unit(a)), 1),
                           Filled(a, Three(Unit(a)), 1), Filled(a, Four(Unit(a)), 1)}
BY DEF FillUtf32, Unit

\* fill_buffer leaves the string only for a surrogate at its end.
LEMMA FillStep ==
  ASSUME NEW a \in Adapter, a.kind # "buffer", ~Overshot(a)
  PROVE  Stepped(fill_buffer(a))
<1> DEFINE w == Unit(a)
<1>1. a.read \in Nat /\ Len(a.units) \in Nat /\ a.read <= Len(a.units)
  BY DEF Adapter, Overshot
<1>2. CASE a.read = Len(a.units)
  <2>1. <<Eof>> \in Seq(Char) /\ <<Eof>> # <<>>
    BY DEF Char
  <2>2. fill_buffer(a) = Filled(a, <<Eof>>, 0)
    BY <1>2 DEF fill_buffer
  <2>3. 0 \in Nat /\ a.read + 0 <= Len(a.units)
    BY <1>1
  <2> QED
    BY <2>1, <2>2, <2>3, FilledStep
<1>3. CASE a.read # Len(a.units)
  <2>1. a.read < Len(a.units) /\ a.read + 1 <= Len(a.units) /\ w \in Nat
    BY <1>1, <1>3 DEF Adapter, Unit
  <2>2. <<w>> \in Seq(Char) /\ <<w>> # <<>> /\ Head(<<w>>) = w
    BY <2>1 DEF Char
  <2>3. CASE a.kind = "utf32"
    <3>1. fill_buffer(a) = FillUtf32(a)
      BY <1>3, <2>1, <2>3 DEF fill_buffer
    <3>2. \E bytes \in Seq(Char) : bytes # <<>> /\ fill_buffer(a) = Filled(a, bytes, 1)
      <4>1. fill_buffer(a) \in {Filled(a, <<w>>, 1), Filled(a, Two(w), 1), Filled(a, Three(w), 1),
                                Filled(a, Four(w), 1)}
        BY <2>1, <3>1, Utf32Any
      <4> HIDE DEF w
      <4> QED
        BY <2>1, <2>2, <4>1, BytesType
    <3> QED
      BY <2>1, <3>2, FilledStep
  <2>4. CASE a.kind # "utf32"
    <3>1. fill_buffer(a) = FillUtf16(a) /\ a.kind = "utf16"
      BY <1>3, <2>1, <2>4 DEF fill_buffer, Adapter
    <3>2. CASE w \notin Surrogate
      <4>1. \E bytes \in Seq(Char) : bytes # <<>> /\ fill_buffer(a) = Filled(a, bytes, 1)
        <5>1. fill_buffer(a) \in {Filled(a, <<w>>, 1), Filled(a, Two(w), 1), Filled(a, Three(w), 1)}
          BY <2>1, <3>1, <3>2, Utf16Other
        <5> HIDE DEF w
        <5> QED
          BY <2>1, <2>2, <5>1, BytesType
      <4> QED
        BY <2>1, <4>1, FilledStep
    <3>3. CASE w \in Surrogate /\ a.read + 1 < Len(a.units)
      <4> DEFINE v == a.units[a.read + 2]
      <4>1. v \in Nat /\ a.read + 2 <= Len(a.units)
        BY <1>1, <3>3 DEF Adapter
      <4>2. fill_buffer(a) = Filled(a, Paired(w, v), 2)
        BY <3>1, <3>3, Utf16Surrogate
      <4>3. Paired(w, v) \in Seq(Char) /\ Paired(w, v) # <<>>
        <5> HIDE DEF v, w
        <5>1. \h10000 + ((w % 1024) * 1024) + (v % 1024) \in Nat
          BY <2>1, <4>1
        <5> QED
          BY <5>1, BytesType DEF Paired
      <4> HIDE DEF v, w
      <4> QED
        BY <4>1, <4>2, <4>3, FilledStep
    <3>4. CASE w \in Surrogate /\ ~(a.read + 1 < Len(a.units))
      <4>1. fill_buffer(a) = Filled(a, <<w>>, 2)
        BY <3>1, <3>4, Utf16Surrogate
      <4> HIDE DEF w
      <4> QED
        BY <2>2, <3>1, <3>4, <4>1, FilledStep
    <3> QED
      BY <3>2, <3>3, <3>4
  <2> QED
    BY <2>3, <2>4
<1> QED
  BY <1>2, <1>3

\* And so does get_character, of whatever kind the adapter is.
LEMMA CharacterStep ==
  ASSUME NEW a \in Adapter, a.ready # <<>>, ~Overshot(a)
  PROVE  Stepped(get_character(a))
<1>0. a.read \in Nat /\ Len(a.units) \in Nat /\ a.read <= Len(a.units)
  BY DEF Adapter, Overshot
<1>1. CASE a.kind # "buffer" /\ Tail(a.ready) = <<>>
  BY <1>1, FillStep DEF get_character
<1>2. CASE a.kind # "buffer" /\ Tail(a.ready) # <<>>
  <2>1. get_character(a) = [a EXCEPT !.ready = Tail(a.ready)]
    BY <1>2 DEF get_character
  <2>2. Tail(a.ready) \in Seq(Char)
    BY DEF Adapter
  <2> QED
    BY <1>2, <2>1, <2>2 DEF Stepped, OnlySurrogate, Overshot, Adapter
<1>3. CASE a.kind = "buffer" /\ a.read < Len(a.units)
  <2> DEFINE c == a.units[a.read + 1]
  <2>1. c \in Nat /\ a.read + 1 <= Len(a.units)
    BY <1>0, <1>3 DEF Adapter
  <2>2. get_character(a) = Filled(a, <<c>>, 1)
    BY <1>3 DEF get_character
  <2> HIDE DEF c
  <2>3. <<c>> \in Seq(Char) /\ <<c>> # <<>>
    BY <2>1 DEF Char
  <2> QED
    BY <2>1, <2>2, <2>3, FilledStep
<1>4. CASE a.kind = "buffer" /\ ~(a.read < Len(a.units))
  <2>1. get_character(a) = Filled(a, <<Eof>>, 0)
    BY <1>4 DEF get_character
  <2>2. <<Eof>> \in Seq(Char) /\ <<Eof>> # <<>>
    BY DEF Char
  <2>3. 0 \in Nat /\ a.read + 0 <= Len(a.units)
    BY <1>0
  <2> QED
    BY <2>1, <2>2, <2>3, FilledStep
<1> QED
  BY <1>1, <1>2, <1>3, <1>4


-----------------------------------------------------------------------------
(* The lexer.                                                              *)

\* get() has a character from the adapter, or the one that was taken back.
LEMMA GetStep ==
  ASSUME ReadInv, at # "error"
  PROVE  Holds(get(lexer)) /\ get(lexer).total > 0
<1> DEFINE a == IF lexer.next_unget THEN lexer.adapter ELSE get_character(lexer.adapter)
<1>1. Stepped(a)
  <2>1. lexer.adapter \in Adapter /\ lexer.adapter.ready # <<>> /\ OnlySurrogate(lexer.adapter)
    BY DEF ReadInv, Holds, LexerRecord
  <2>2. CASE lexer.next_unget
    BY <2>1, <2>2 DEF Stepped
  <2>3. CASE ~lexer.next_unget
    <3>1. ~Overshot(lexer.adapter)
      BY <2>3 DEF ReadInv
    <3> QED
      BY <2>1, <2>3, <3>1, CharacterStep
  <2> QED
    BY <2>2, <2>3
<1>2. get(lexer) = Read(lexer, a)
  BY DEF get
<1> HIDE DEF a
<1>3. a \in Adapter /\ a.ready # <<>> /\ OnlySurrogate(a)
  BY <1>1 DEF Stepped
<1>4. Head(a.ready) \in Char
  BY <1>3 DEF Adapter
<1>5. lexer.total \in Nat /\ lexer.lines \in Nat /\ lexer.column \in Nat
  BY DEF ReadInv, Holds, LexerRecord
<1>6. Read(lexer, a) \in LexerRecord
  BY <1>3, <1>4, <1>5 DEF Read, LexerRecord
<1>7. /\ Read(lexer, a).adapter = a /\ Read(lexer, a).current = Head(a.ready)
      /\ Read(lexer, a).total = lexer.total + 1
  BY DEF Read
<1> QED
  BY <1>2, <1>3, <1>5, <1>6, <1>7 DEF Holds

\* No counter goes below zero when a character is taken back.
LEMMA UngetStep ==
  ASSUME NEW l, Holds(l), l.total > 0
  PROVE  Holds(unget(l)) /\ unget(l).next_unget
<1>1. l \in LexerRecord /\ l.total \in Nat /\ l.lines \in Nat /\ l.column \in Nat
  BY DEF Holds, LexerRecord
<1> DEFINE total == l.total - 1
           lines == IF l.column = 0 /\ l.lines > 0 THEN l.lines - 1 ELSE l.lines
           column == IF l.column = 0 THEN 0 ELSE l.column - 1
<1>2. total \in Nat /\ lines \in Nat /\ column \in Nat
  BY <1>1
<1>3. unget(l) = [l EXCEPT !.next_unget = TRUE, !.total = total, !.lines = lines, !.column = column]
  BY DEF unget
<1> HIDE DEF total, lines, column
<1>4. unget(l) \in LexerRecord
  BY <1>1, <1>2, <1>3 DEF LexerRecord
<1>5. unget(l).adapter = l.adapter /\ unget(l).current = l.current /\ unget(l).next_unget = TRUE
  BY <1>1, <1>3 DEF LexerRecord
<1> QED
  BY <1>4, <1>5 DEF Holds

\* A step that takes a character back.
LEMMA Reread ==
  ASSUME NEW l, Holds(l), l.total > 0, lexer' = unget(l)
  PROVE  ReadInv'
BY UngetStep DEF ReadInv

\* A step that goes on with a character, or refuses it.
LEMMA GoneOn ==
  ASSUME NEW l, Holds(l), lexer' = l, at' = "error" \/ l.current \notin Surrogate
  PROVE  ReadInv'
BY DEF ReadInv, Holds, OnlySurrogate

\* Before a token, a surrogate is refused.
LEMMA SwitchRefuses ==
  ASSUME NEW l, NEW c \in Char, Switch(l, c)
  PROVE  lexer' = l /\ (at' = "error" \/ c \notin Surrogate) /\ WantsLetters'
<1> DEFINE Letters == {Head(s) : s \in {True, False, Null}}
           Digits == {Scanner!Minus} \cup \h30 .. \h39
<1>1. Letters = {116, 102, 110}
  BY DEF True, False, Null
<1>2. DOMAIN Structural = {91, 93, 123, 125, 58, 44}
  BY DEF Structural
<1>3. Digits = {45} \cup 48 .. 57
  BY DEF Scanner!Minus
<1> DEFINE Ends == {0, Eof}
           Structures == DOMAIN Structural
           InLiteral == LET s == CHOOSE s \in {True, False, Null} : Head(s) = c IN
                        Goto("literal", l, [NoToken EXCEPT !.type = LiteralType(s), !.want = Tail(s)])
           InNumber == Goto("number", l, [NoToken EXCEPT !.bytes = <<c>>, !.at = Scanner!Label("init", c)])
           Structure == Take(l, Structural[c], <<>>)
           End == Take(l, "end_of_input", <<>>)
<1>4. Switch(l, c) = CASE c \in Space -> Goto("space", l, NoToken)
                       [] c \in Structures -> Structure
                       [] c \in Letters -> InLiteral
                       [] c = Quote -> Goto("string", l, NoToken)
                       [] c \in Digits -> InNumber
                       [] c \in Ends -> End
                       [] OTHER -> Error(l)
  BY Zenon DEF Switch
<1>5. \A to, t : Goto(to, l, t) => lexer' = l /\ at' = to /\ token' = t
  BY DEF Goto
<1>6. \A type, bytes : Take(l, type, bytes) => lexer' = l /\ at' # "literal"
  BY DEF Take
<1>7. Error(l) => lexer' = l /\ at' = "error"
  BY DEF Error, Goto
<1>8. InLiteral /\ c \in Letters => lexer' = l /\ WantsLetters'
  <2> SUFFICES ASSUME InLiteral, c \in Letters PROVE lexer' = l /\ WantsLetters'
    OBVIOUS
  <2> DEFINE s == CHOOSE s \in {True, False, Null} : Head(s) = c
             t == [NoToken EXCEPT !.type = LiteralType(s), !.want = Tail(s)]
  <2>1. s \in {True, False, Null}
    <3>1. \E r \in {True, False, Null} : Head(r) = c
      OBVIOUS
    <3> QED
      BY <3>1, Zenon
  <2>2. \A r \in {True, False, Null} : Tail(r) \in Seq(Letter) /\ Tail(r) # <<>>
    <3>1. {97, 101, 108, 114, 115, 117} \subseteq Letter
      BY DEF Letter
    <3>2. Tail(True) = <<114, 117, 101>> /\ Tail(False) = <<97, 108, 115, 101>> /\ Tail(Null) = <<117, 108, 108>>
      BY DEF True, False, Null
    <3>3. <<114, 117, 101>> \in Seq(Letter) /\ <<97, 108, 115, 101>> \in Seq(Letter)
          /\ <<117, 108, 108>> \in Seq(Letter)
      BY <3>1
    <3>4. Tail(True) # <<>> /\ Tail(False) # <<>> /\ Tail(Null) # <<>>
      BY <3>2
    <3>5. Tail(True) \in Seq(Letter) /\ Tail(False) \in Seq(Letter) /\ Tail(Null) \in Seq(Letter)
      BY <3>2, <3>3, Zenon
    <3> QED
      BY <3>4, <3>5, Zenon
  <2>3. Goto("literal", l, t)
    OBVIOUS
  <2>4. t \in LiteralToken /\ t.want = Tail(s)
    <3>1. \A r \in {True, False, Null} : LiteralType(r) \in {"literal_true", "literal_false", "literal_null"}
      BY DEF LiteralType, True, False, Null
    <3>2. LiteralType(s) \in {"literal_true", "literal_false", "literal_null"} /\ Tail(s) \in Seq(Letter)
      BY <2>1, <2>2, <3>1
    <3> HIDE DEF s
    <3> QED
      BY <3>2 DEF NoToken, LiteralToken
  <2> HIDE DEF s, t
  <2>5. lexer' = l /\ token' = t
    BY <1>5, <2>3
  <2> QED
    BY <2>1, <2>2, <2>4, <2>5 DEF WantsLetters
<1>9. (Structure => lexer' = l /\ at' # "literal") /\ (End => lexer' = l /\ at' # "literal")
  BY <1>6, Zenon
<1>0. InNumber => lexer' = l /\ at' # "literal"
  <2>1. InNumber => lexer' = l /\ at' = "number"
    BY <1>5, Zenon
  <2> QED
    BY <2>1
<1>10. Space = {32, 9, 10, 13} /\ Quote = 34 /\ Ends = {0, -1}
  BY DEF Space, LF, Quote, Eof
<1> HIDE DEF Letters, Digits, Structures, Ends, InLiteral, InNumber, Structure, End
<1>11. CASE c \in Surrogate
  <2>1. /\ c \notin Space /\ c \notin Structures /\ c \notin Letters
        /\ c # Quote /\ c \notin Digits /\ c \notin Ends
    BY <1>1, <1>2, <1>3, <1>10, <1>11 DEF Surrogate, Structures
  <2>2. Error(l)
    BY <1>4, <2>1
  <2> QED
    BY <1>7, <2>2 DEF WantsLetters
<1>12. CASE c \notin Surrogate
  <2>1. /\ c \in Space => c \notin Structures \cup Letters \cup {Quote} \cup Digits \cup Ends
        /\ c \in Structures => c \notin Letters \cup {Quote} \cup Digits \cup Ends
        /\ c \in Letters => c \notin {Quote} \cup Digits \cup Ends
        /\ c = Quote => c \notin Digits \cup Ends
        /\ c \in Digits => c \notin Ends
    BY <1>1, <1>2, <1>3, <1>10 DEF Structures
  <2>2. \/ c \in Letters /\ InLiteral
        \/ Structure \/ End \/ InNumber \/ Error(l)
        \/ Goto("space", l, NoToken) \/ Goto("string", l, NoToken)
    BY <1>4, <2>1
  <2>3. lexer' = l /\ (WantsLetters' \/ at' # "literal")
    BY <1>0, <1>5, <1>7, <1>8, <1>9, <2>2
  <2> QED
    BY <1>12, <2>3 DEF WantsLetters
<1> QED
  BY <1>11, <1>12

\* No number goes on with a surrogate.
LEMMA LabelRefuses ==
  ASSUME NEW from, NEW c \in Surrogate
  PROVE  Scanner!Label(from, c) \in {"done", "error"}
<1>1. /\ c \notin \h30 .. \h39 /\ c # Scanner!Minus /\ c # Scanner!Plus
      /\ c # Scanner!Zero /\ c # Scanner!Exp /\ c # Scanner!Point
  BY DEF Surrogate, Scanner!Minus, Scanner!Plus, Scanner!Zero, Scanner!Exp, Scanner!Point
<1>2. Scanner!Stop(from) \in {"done", "error"}
  BY DEF Scanner!Stop
<1> QED
  BY <1>1, <1>2 DEF Scanner!Label, Scanner!InInteger, Scanner!InFraction, Scanner!InExponent


\* The text is not over for the lexer, and it holds the next character.
LEMMA Gotten ==
  ASSUME ReadInv, at # "error"
  PROVE  LET l == get(lexer) IN Holds(l) /\ l.total > 0 /\ l.current \in Char
BY GetStep DEF Holds, LexerRecord

\* At first the adapter is at the start of the string.
LEMMA TextInit ==
  ASSUME TextAssumption, Init
  PROVE  ReadInv
<1>1. PICK kind \in Kinds :
        lexer = [current |-> Eof, next_unget |-> FALSE, total |-> 0, lines |-> 0, column |-> 0,
                 adapter |-> [kind |-> kind, units |-> Units(kind, Chars), read |-> 0, ready |-> <<Eof>>]]
  BY DEF Init
<1>2. items \in BoundedSeq(Items, MaxItems)
  BY DEF Init
<1>3. Units(kind, Chars) \in Seq(Nat) /\ kind \in {"buffer", "utf16", "utf32"}
  BY <1>2, UnitsType DEF TextAssumption
<1> DEFINE units == Units(kind, Chars)
           a == [kind |-> kind, units |-> units, read |-> 0, ready |-> <<Eof>>]
<1> HIDE DEF units
<1>4. units \in Seq(Nat) /\ Len(units) \in Nat
  BY <1>3 DEF units
<1>5. <<Eof>> \in Seq(Char) /\ <<Eof>> # <<>> /\ Head(<<Eof>>) = Eof /\ Eof \in Char
  BY DEF Char
<1>6. a \in Adapter /\ ~Overshot(a) /\ a.ready = <<Eof>>
  BY <1>3, <1>4, <1>5 DEF Adapter, Overshot
<1>7. lexer = [current |-> Eof, next_unget |-> FALSE, total |-> 0, lines |-> 0, column |-> 0, adapter |-> a]
  BY <1>1 DEF units
<1> HIDE DEF a
<1>8. lexer \in LexerRecord /\ lexer.adapter = a /\ lexer.current = Eof
  BY <1>5, <1>6, <1>7 DEF LexerRecord
<1> QED
  BY <1>5, <1>6, <1>8 DEF ReadInv, Holds, OnlySurrogate

\* No loop asks for more when the string is over.
LEMMA ReadStep ==
  ASSUME TextInv, [Next]_vars
  PROVE  ReadInv'
<1> DEFINE l == get(lexer)
<1>1. at # "error" => Holds(l) /\ l.total > 0 /\ l.current \in Char
  BY Gotten DEF TextInv
<1> HIDE DEF l
<1>2. CASE SkipBom
  <2>1. at # "error" /\ ((l.current = BomByte[1] /\ lexer' = l) \/ lexer' = unget(l))
    BY <1>2 DEF SkipBom, Goto, l
  <2>2. BomByte[1] \notin Surrogate
    BY DEF BomByte, Surrogate
  <2> QED
    BY <1>1, <2>1, <2>2, GoneOn, Reread
<1>3. ASSUME NEW from \in {"bom2", "bom3"}, NEW c \in {\hBB, \hBF}, NEW to, BomNext(from, c, to)
      PROVE  ReadInv'
  <2>1. at # "error" /\ lexer' = l /\ (l.current = c \/ at' = "error")
    BY <1>3 DEF BomNext, Goto, Error, l
  <2>2. c \notin Surrogate
    BY DEF Surrogate
  <2> QED
    BY <1>1, <2>1, <2>2, GoneOn
<1>4. CASE SkipBom2
  BY <1>3, <1>4 DEF SkipBom2, BomByte
<1>5. CASE SkipBom3
  BY <1>3, <1>5 DEF SkipBom3, BomByte
<1>6. CASE ScanSpace
  <2>1. at # "error" /\ Switch(l, l.current)
    BY <1>6 DEF ScanSpace, l
  <2> QED
    BY <1>1, <2>1, SwitchRefuses, GoneOn
<1>7. CASE ScanLiteral
  <2>1. at = "literal" /\ lexer' = l /\ (at' = "error" \/ l.current = Head(token.want))
    BY <1>7 DEF ScanLiteral, Goto, Take, Error, l
  <2>2. Head(token.want) \in Letter
    BY <2>1 DEF TextInv, WantsLetters, LiteralToken
  <2>3. Head(token.want) \notin Surrogate
    BY <2>2 DEF Letter, Surrogate
  <2> QED
    BY <1>1, <2>1, <2>3, GoneOn
<1>8. CASE ScanString
  <2>1. at = "string" /\ lexer' = l /\ (at' = "error" \/ l.current \in 32 .. 255)
    BY <1>1, <1>8 DEF ScanString, Goto, Take, Error, Quote, l
  <2>2. l.current \in 32 .. 255 => l.current \notin Surrogate
    BY DEF Surrogate
  <2> QED
    BY <1>1, <2>1, <2>2, GoneOn
<1>9. CASE ScanNumber
  <2> DEFINE to == Scanner!Label(token.at, l.current)
  <2>1. /\ at = "number"
        /\ \/ to = "done" /\ lexer' = unget(l)
           \/ to = "error" /\ lexer' = l /\ at' = "error"
           \/ to \notin {"done", "error"} /\ lexer' = l
    <3> HIDE DEF to
    <3> QED
      BY <1>9 DEF ScanNumber, Goto, Take, Error, l, to
  <2>2. l.current \in Surrogate => to \in {"done", "error"}
    BY LabelRefuses
  <2> HIDE DEF to
  <2> QED
    BY <1>1, <2>1, <2>2, GoneOn, Reread
<1>10. CASE UNCHANGED vars
  BY <1>10 DEF vars, TextInv, ReadInv, Holds, OnlySurrogate, Overshot
<1> QED
  BY <1>2, <1>4, <1>5, <1>6, <1>7, <1>8, <1>9, <1>10 DEF Next

\* A literal is left at its end, and no other loop goes to one.
LEMMA WantsStep ==
  ASSUME TextInv, [Next]_vars
  PROVE  WantsLetters'
<1> SUFFICES ASSUME at' = "literal" PROVE token' \in LiteralToken /\ token'.want # <<>>
  BY DEF WantsLetters
<1>1. CASE SkipBom
  BY <1>1 DEF SkipBom, Goto
<1>2. CASE SkipBom2
  BY <1>2 DEF SkipBom2, BomNext, Goto, Error
<1>3. CASE SkipBom3
  BY <1>3 DEF SkipBom3, BomNext, Goto, Error
<1>4. CASE ScanSpace
  <2> DEFINE l == get(lexer)
  <2>1. at # "error" /\ Switch(l, l.current)
    BY <1>4 DEF ScanSpace
  <2>2. l.current \in Char
    BY <2>1, Gotten DEF TextInv
  <2> HIDE DEF l
  <2> QED
    BY <2>1, <2>2, SwitchRefuses DEF WantsLetters
<1>5. CASE ScanLiteral
  <2> DEFINE l == get(lexer)
             rest == Tail(token.want)
  <2>1. at = "literal" /\ token \in LiteralToken /\ token.want # <<>>
    BY <1>5 DEF ScanLiteral, TextInv, WantsLetters
  <2>2. rest \in Seq(Letter)
    BY <2>1 DEF LiteralToken
  <2>3. rest # <<>> /\ token' = [token EXCEPT !.want = rest]
    <3> HIDE DEF l, rest
    <3> QED
      BY <1>5 DEF ScanLiteral, Goto, Take, Error, l, rest
  <2> HIDE DEF rest
  <2> QED
    BY <2>1, <2>2, <2>3 DEF LiteralToken
<1>6. CASE ScanString
  BY <1>6 DEF ScanString, Goto, Take, Error
<1>7. CASE ScanNumber
  BY <1>7 DEF ScanNumber, Goto, Take, Error
<1>8. CASE UNCHANGED vars
  BY <1>8 DEF vars, TextInv, WantsLetters
<1> QED
  BY <1>1, <1>2, <1>3, <1>4, <1>5, <1>6, <1>7, <1>8 DEF Next

\* The text is read from its start to its end: a buffer by get_character, a wide string by
\* fill_buffer, which steps two units on when a surrogate is the last; then no loop asks for more.
THEOREM TextInvariance == TextAssumption => (Spec => []TextInv)
<1> SUFFICES ASSUME TextAssumption PROVE Spec => []TextInv
  OBVIOUS
<1>1. Init => TextInv
  BY TextInit DEF TextInv, WantsLetters, Init
<1>2. TextInv /\ [Next]_vars => TextInv'
  BY ReadStep, WantsStep DEF TextInv
<1> QED
  BY <1>1, <1>2, PTL DEF Spec

\* No character comes from behind the end of the string that was given to parse().
THEOREM NothingBehind == TextAssumption => (Spec => []ReadsInside)
<1> SUFFICES ASSUME TextAssumption PROVE Spec => []ReadsInside
  OBVIOUS
<1>1. TextInv => ReadsInside
  BY DEF TextInv, ReadInv, Holds, LexerRecord, ReadsInside, Char, Eof, Outside
<1> QED
  BY <1>1, TextInvariance, PTL

=============================================================================
