-------------------------- MODULE JsonLexerProofs ---------------------------
(***************************************************************************)
(* Theorems about JsonString and JsonNumber: every string that scan_string *)
(* takes survives decode, dump_escaped and a second scan_string, for texts *)
(* of any bytes and any \u escapes; scan_number takes the numbers of JSON  *)
(* and nothing else, and dump_integer writes an integer as it was read,    *)
(* for numbers of any length.                                              *)
(***************************************************************************)
EXTENDS JsonString, JsonNumber, TLAPS, WellFoundedInduction, SequenceTheorems

-----------------------------------------------------------------------------
(* Strings.                                                                *)

\* The states of decode that wait for what the scan waits for.
LEMMA WaitsFor ==
  /\ Waits(Boundary) = 0
  /\ Waits(<<\h80, \hBF, 1>>) = 2
  /\ Waits(<<\h80, \hBF, 2>>) = 3
  /\ Waits(<<\hA0, \hBF, 2>>) = 4
  /\ Waits(<<\h80, \h9F, 2>>) = 5
  /\ Waits(<<\h90, \hBF, 3>>) = 6
  /\ Waits(<<\h80, \hBF, 3>>) = 7
  /\ Waits(<<\h80, \h8F, 3>>) = 8
  /\ \A a \in Expected : Waits(a) # Reject
BY DEF Waits, Boundary, Accept, Expected, Reject

\* What they have put together by then.
LEMMA Leasts ==
  /\ Least(Boundary) = 0
  /\ Least(<<\h80, \hBF, 1>>) = 2
  /\ Least(<<\h80, \hBF, 2>>) = 1
  /\ Least(<<\hA0, \hBF, 2>>) = 0
  /\ Least(<<\h80, \h9F, 2>>) = 1
  /\ Least(<<\h90, \hBF, 3>>) = 0
  /\ Least(<<\h80, \hBF, 3>>) = 1
  /\ Least(<<\h80, \h8F, 3>>) = 1
BY DEF Least, Boundary

\* The types of the bytes that begin a character, and of those that go on.
LEMMA Types ==
  ASSUME NEW b \in 0 .. 255
  PROVE  /\ b <= \h7F => Type(b) = 0
         /\ b \in \hC2 .. \hDF => Type(b) = 2
         /\ b = \hE0 => Type(b) = 10
         /\ b = \hED => Type(b) = 4
         /\ b \in (\hE1 .. \hEF) \ {\hED} => Type(b) = 3
         /\ b = \hF0 => Type(b) = 11
         /\ b \in \hF1 .. \hF3 => Type(b) = 6
         /\ b = \hF4 => Type(b) = 5
         /\ b \in \h80 .. \h8F => Type(b) = 1
         /\ b \in \h90 .. \h9F => Type(b) = 9
         /\ b \in \hA0 .. \hBF => Type(b) = 7
<1>1. b <= \h7F => Type(b) = 0
  BY DEF Type
<1>2. b \in \hC2 .. \hDF => Type(b) = 2
  BY DEF Type
<1>3. b = \hE0 => Type(b) = 10
  BY DEF Type
<1>4. b = \hED => Type(b) = 4
  BY DEF Type
<1>5. b \in (\hE1 .. \hEF) \ {\hED} => Type(b) = 3
  BY DEF Type
<1>6. b = \hF0 => Type(b) = 11
  BY DEF Type
<1>7. b \in \hF1 .. \hF3 => Type(b) = 6
  BY DEF Type
<1>8. b = \hF4 => Type(b) = 5
  BY DEF Type
<1>9. b \in \h80 .. \h8F => Type(b) = 1
  BY DEF Type
<1>10. b \in \h90 .. \h9F => Type(b) = 9
  BY DEF Type
<1>11. b \in \hA0 .. \hBF => Type(b) = 7
  BY DEF Type
<1> QED
  BY <1>1, <1>2, <1>3, <1>4, <1>5, <1>6, <1>7, <1>8, <1>9, <1>10, <1>11

\* The first byte of a character.
LEMMA FirstByte ==
  ASSUME NEW b \in 0 .. 255, Next1(Boundary, b) # Bad
  PROVE  /\ Next1(Boundary, b) \in Expected
         /\ State(Accept, Type(b)) = Waits(Next1(Boundary, b))
         /\ b % Mask(Type(b)) \in Nat
         /\ b % Mask(Type(b)) >= Least(Next1(Boundary, b))
         /\ Next1(Boundary, b) = Boundary => ~Escaped(b % Mask(Type(b)))
<1> USE DEF Accept
<1>1. b \in Unescaped \/ b \in \hC2 .. \hF4
  BY DEF Next1, Boundary, Bad
<1>2. CASE b \in Unescaped
  <2>1. Next1(Boundary, b) = Boundary
    BY <1>2 DEF Next1, Unescaped, Boundary
  <2>2. Type(b) = 0
    BY <1>2, Types DEF Unescaped
  <2>3. State(0, 0) = 0
    BY DEF State, Start
  <2>4. b % Mask(Type(b)) = b
    BY <2>2 DEF Mask
  <2>5. QED
    BY <1>2, <2>1, <2>2, <2>3, <2>4, WaitsFor, Leasts DEF Expected, Escaped, Unescaped
<1>3. CASE b \in \hC2 .. \hF4
  <2>1. Next1(Boundary, b) = Follow(b)
    BY <1>3 DEF Next1, Unescaped, Boundary
  <2>2. CASE b \in \hC2 .. \hDF
    BY <2>1, <2>2, Types, WaitsFor, Leasts
    DEF Follow, State, Start, Expected, Mask, Boundary
  <2>3. CASE b = \hE0
    BY <2>1, <2>3, Types, WaitsFor, Leasts
    DEF Follow, State, Start, Expected, Mask, Boundary
  <2>4. CASE b = \hED
    BY <2>1, <2>4, Types, WaitsFor, Leasts
    DEF Follow, State, Start, Expected, Mask, Boundary
  <2>5. CASE b \in (\hE1 .. \hEF) \ {\hED}
    BY <2>1, <2>5, Types, WaitsFor, Leasts
    DEF Follow, State, Start, Expected, Mask, Boundary
  <2>6. CASE b = \hF0
    BY <2>1, <2>6, Types, WaitsFor, Leasts
    DEF Follow, State, Start, Expected, Mask, Boundary
  <2>7. CASE b \in \hF1 .. \hF3
    BY <2>1, <2>7, Types, WaitsFor, Leasts
    DEF Follow, State, Start, Expected, Mask, Boundary
  <2>8. CASE b = \hF4
    BY <2>1, <2>8, Types, WaitsFor, Leasts
    DEF Follow, State, Start, Expected, Mask, Boundary
  <2> QED
    BY <1>3, <2>2, <2>3, <2>4, <2>5, <2>6, <2>7, <2>8
<1> QED
  BY <1>1, <1>2, <1>3

\* Every further byte.
LEMMA NextByte ==
  ASSUME NEW b \in 0 .. 255, NEW a \in Expected \ {Boundary}, Next1(a, b) # Bad
  PROVE  /\ Next1(a, b) \in Expected
         /\ State(Waits(a), Type(b)) = Waits(Next1(a, b))
         /\ \A n \in Nat : n >= Least(a) =>
              /\ (n * 64) + (b % 64) \in Nat
              /\ (n * 64) + (b % 64) >= Least(Next1(a, b))
              /\ Next1(a, b) = Boundary => ~Escaped((n * 64) + (b % 64))
<1> USE DEF Accept
<1>1. b \in a[1] .. a[2]
  BY DEF Next1, Bad
<1>2. /\ a[3] = 1 => Next1(a, b) = Boundary
      /\ a[3] > 1 => Next1(a, b) = <<\h80, \hBF, a[3] - 1>>
  BY <1>1 DEF Next1, Expected, Boundary
<1>3. CASE a = <<\h80, \hBF, 1>>
  BY <1>1, <1>2, <1>3, Types, WaitsFor, Leasts DEF State, Expected, Escaped, Boundary
<1>4. CASE a = <<\h80, \hBF, 2>>
  BY <1>1, <1>2, <1>4, Types, WaitsFor, Leasts DEF State, Expected, Escaped, Boundary
<1>5. CASE a = <<\hA0, \hBF, 2>>
  BY <1>1, <1>2, <1>5, Types, WaitsFor, Leasts DEF State, Expected, Escaped, Boundary
<1>6. CASE a = <<\h80, \h9F, 2>>
  BY <1>1, <1>2, <1>6, Types, WaitsFor, Leasts DEF State, Expected, Escaped, Boundary
<1>7. CASE a = <<\h90, \hBF, 3>>
  BY <1>1, <1>2, <1>7, Types, WaitsFor, Leasts DEF State, Expected, Escaped, Boundary
<1>8. CASE a = <<\h80, \hBF, 3>>
  BY <1>1, <1>2, <1>8, Types, WaitsFor, Leasts DEF State, Expected, Escaped, Boundary
<1>9. CASE a = <<\h80, \h8F, 3>>
  BY <1>1, <1>2, <1>9, Types, WaitsFor, Leasts DEF State, Expected, Escaped, Boundary
<1> QED
  BY <1>3, <1>4, <1>5, <1>6, <1>7, <1>8, <1>9 DEF Expected

\* The room after a character, and after a byte within one.
LEMMA FlushRoom ==
  ASSUME NEW n \in Nat
  PROVE  Room(Flush(n), Boundary)
BY StringAssumption DEF Room, Flush

LEMMA NextRoom ==
  ASSUME NEW b \in 0 .. 255, NEW a \in Expected, NEW n, Room(n, a),
         Next1(a, b) # Bad, Next1(a, b) # Boundary
  PROVE  Room(n + 1, Next1(a, b))
<1>1. CASE a = Boundary
  <2>1. Next1(a, b) = Follow(b) /\ b \in \hC2 .. \hF4
    BY <1>1 DEF Next1, Boundary, Bad, Unescaped
  <2>2. Next1(a, b)[3] \in 1 .. 3
    BY <2>1 DEF Follow
  <2>3. QED
    BY <1>1, <2>2, StringAssumption DEF Room
<1>2. CASE a # Boundary
  <2>1. Next1(a, b) = <<\h80, \hBF, a[3] - 1>> /\ a[3] \in 2 .. 3
    BY <1>2 DEF Next1, Bad, Boundary, Expected
  <2>2. QED
    BY <1>2, <2>1, StringAssumption DEF Room
<1>3. QED
  BY <1>1, <1>2

\* decode and the second scan stay in step over a byte the scan takes.
LEMMA FeedByte ==
  ASSUME NEW b \in 0 .. 255, NEW a \in Expected, NEW d, InStep(d, a), Next1(a, b) # Bad
  PROVE  Next1(a, b) \in Expected /\ InStep(Feed(d, b), Next1(a, b))
<1> DEFINE s == State(d.state, Type(b))
           code == CodePoint(d.state, d.codepoint, b)
           bytes == IF s = Accept THEN Flush(d.bytes + Written(code)) ELSE d.bytes + 1
<1>1. Feed(d, b) = [state |-> s, codepoint |-> code, bytes |-> bytes,
                    again |-> IF s = Accept /\ Escaped(code)
                              THEN IF d.again = Boundary THEN Boundary ELSE Bad
                              ELSE Next1(d.again, b)]
  BY DEF Feed
<1>2. /\ Next1(a, b) \in Expected
      /\ s = Waits(Next1(a, b))
      /\ code \in Nat /\ code >= Least(Next1(a, b))
      /\ Next1(a, b) = Boundary => ~Escaped(code)
  <2>1. CASE a = Boundary
    <3>1. d.state = Accept
      BY <2>1, WaitsFor DEF InStep, Accept
    <3>2. code = b % Mask(Type(b))
      BY <3>1 DEF CodePoint
    <3>3. QED
      BY <2>1, <3>1, <3>2, FirstByte
  <2>2. CASE a # Boundary
    <3>1. d.state = Waits(a) /\ d.state # Accept
      BY <2>2, WaitsFor DEF InStep, Accept, Expected
    <3>2. code = (d.codepoint * 64) + (b % 64)
      BY <3>1 DEF CodePoint
    <3>3. QED
      BY <2>2, <3>1, <3>2, NextByte DEF InStep
  <2>3. QED
    BY <2>1, <2>2
<1>3. s = Accept <=> Next1(a, b) = Boundary
  <2> HIDE DEF s
  <2>1. CASE Next1(a, b) = Boundary
    BY <1>2, <2>1, WaitsFor DEF Accept
  <2>2. CASE Next1(a, b) # Boundary
    BY <1>2, <2>2, WaitsFor DEF Expected, Accept
  <2>3. QED
    BY <2>1, <2>2
<1>4. Room(bytes, Next1(a, b))
  <2> HIDE DEF s, code
  <2>1. Room(d.bytes, a) /\ d.bytes \in Nat
    BY DEF InStep, Room
  <2>2. CASE s = Accept
    BY <1>3, <2>1, <2>2, FlushRoom DEF Written
  <2>3. CASE s # Accept
    BY <1>3, <2>1, <2>3, NextRoom
  <2>4. QED
    BY <2>2, <2>3
<1>5. QED
  <2> HIDE DEF bytes
  <2>1. QED
    BY <1>1, <1>2, <1>3, <1>4 DEF InStep

\* One byte that is written as an escape leaves both between characters.
LEMMA FeedEscaped ==
  ASSUME NEW c \in 0 .. \h7F, NEW d, InStep(d, Boundary), Escaped(c)
  PROVE  InStep(Feed(d, c), Boundary)
<1>1. d.state = Accept /\ d.again = Boundary
  BY WaitsFor DEF InStep, Accept
<1>2. Type(c) = 0
  BY Types
<1>3. State(d.state, Type(c)) = Accept /\ CodePoint(d.state, d.codepoint, c) = c
  BY <1>1, <1>2 DEF State, Start, Accept, CodePoint, Mask
<1> DEFINE bytes == Flush(d.bytes + Written(c))
<1>4. Feed(d, c) = [state |-> Accept, codepoint |-> c, bytes |-> bytes, again |-> Boundary]
  BY <1>1, <1>3 DEF Feed
<1>5. Room(bytes, Boundary)
  BY FlushRoom DEF InStep, Room, Written
<1> HIDE DEF bytes
<1>6. QED
  BY <1>4, <1>5, WaitsFor, Leasts DEF InStep, Accept

\* Between is for the ranges of single bytes.
Between(b, first, last) == b \in Nat /\ first <= b /\ b <= last

\* The bytes of the code points of two bytes and more, as the ranges ask.
LEMMA TwoBytes ==
  ASSUME NEW c \in Nat, c >= \h80, c < \h800
  PROVE  Between(\hC0 + (c \div 64), \hC2, \hDF)
BY DEF Tail6, Between

LEMMA TailByte ==
  ASSUME NEW c \in Nat
  PROVE  Between(Tail6(c), \h80, \hBF)
BY DEF Tail6, Between

LEMMA ThreeBytes ==
  ASSUME NEW c \in Nat, c >= \h800, c < \h10000, c < \hD800 \/ c > \hDFFF
  PROVE  /\ Between(\hE0 + (c \div 4096), \hE0, \hEF)
         /\ \hE0 + (c \div 4096) = \hE0 => Between(Tail6(c \div 64), \hA0, \hBF)
         /\ \hE0 + (c \div 4096) = \hED => Between(Tail6(c \div 64), \h80, \h9F)
<1>1. c \div 4096 \in 0 .. 15
  OBVIOUS
<1>2. ASSUME c \div 4096 = 0 PROVE Between(Tail6(c \div 64), \hA0, \hBF)
  <2>1. c \div 64 \in 32 .. 63
    BY <1>2
  <2>2. (c \div 64) % 64 = c \div 64
    BY <2>1
  <2>3. QED
    BY <2>1, <2>2 DEF Tail6, Between
<1>3. ASSUME c \div 4096 = 13 PROVE Between(Tail6(c \div 64), \h80, \h9F)
  <2>1. c >= 53248 /\ c < 55296
    BY <1>3
  <2>2. c \div 64 \in 832 .. 863
    BY <2>1
  <2>3. (c \div 64) % 64 \in 0 .. 31
    BY <2>2
  <2>4. QED
    BY <2>3 DEF Tail6, Between
<1>4. QED
  BY <1>1, <1>2, <1>3 DEF Between

LEMMA FourBytes ==
  ASSUME NEW c \in Nat, c >= \h10000, c < 17 * 65536
  PROVE  /\ Between(\hF0 + (c \div 262144), \hF0, \hF4)
         /\ \hF0 + (c \div 262144) = \hF0 => Between(Tail6(c \div 4096), \h90, \hBF)
         /\ \hF0 + (c \div 262144) = \hF4 => Between(Tail6(c \div 4096), \h80, \h8F)
<1>1. c \div 262144 \in 0 .. 4
  OBVIOUS
<1>2. ASSUME c \div 262144 = 0 PROVE Between(Tail6(c \div 4096), \h90, \hBF)
  <2>1. c \div 4096 \in 16 .. 63
    BY <1>2
  <2>2. QED
    BY <2>1 DEF Tail6, Between
<1>3. ASSUME c \div 262144 = 4 PROVE Between(Tail6(c \div 4096), \h80, \h8F)
  <2>1. c >= 1048576
    BY <1>3
  <2>2. c \div 4096 \in 256 .. 271
    BY <2>1
  <2>3. (c \div 4096) % 64 \in 0 .. 15
    BY <2>2
  <2>4. QED
    BY <2>3 DEF Tail6, Between
<1>4. QED
  BY <1>1, <1>2, <1>3 DEF Between


\* The last byte, and the last two, are to come.
OneToCome == <<\h80, \hBF, 1>>
TwoToCome == <<\h80, \hBF, 2>>

\* What the scan expects after each byte of a stored character.
LEMMA Ranges ==
  /\ \A b : Between(b, \hC2, \hDF) => Next1(Boundary, b) = OneToCome
  /\ Next1(Boundary, \hE0) = <<\hA0, \hBF, 2>>
  /\ Next1(Boundary, \hED) = <<\h80, \h9F, 2>>
  /\ \A b : Between(b, \hE1, \hEF) /\ b # \hED => Next1(Boundary, b) = TwoToCome
  /\ Next1(Boundary, \hF0) = <<\h90, \hBF, 3>>
  /\ \A b : Between(b, \hF1, \hF3) => Next1(Boundary, b) = <<\h80, \hBF, 3>>
  /\ Next1(Boundary, \hF4) = <<\h80, \h8F, 3>>
  /\ \A b : Between(b, \h80, \hBF) => Next1(OneToCome, b) = Boundary
  /\ \A b : Between(b, \h80, \hBF) => Next1(TwoToCome, b) = OneToCome
  /\ \A b : Between(b, \hA0, \hBF) => Next1(<<\hA0, \hBF, 2>>, b) = OneToCome
  /\ \A b : Between(b, \h80, \h9F) => Next1(<<\h80, \h9F, 2>>, b) = OneToCome
  /\ \A b : Between(b, \h90, \hBF) => Next1(<<\h90, \hBF, 3>>, b) = TwoToCome
  /\ \A b : Between(b, \h80, \hBF) => Next1(<<\h80, \hBF, 3>>, b) = TwoToCome
  /\ \A b : Between(b, \h80, \h8F) => Next1(<<\h80, \h8F, 3>>, b) = TwoToCome
BY DEF Next1, Boundary, Unescaped, Follow, OneToCome, TwoToCome, Between

\* A byte after which the scan goes on is one it does not refuse.
LEMMA Members ==
  /\ Boundary \in Expected /\ Boundary # Bad
  /\ OneToCome \in Expected /\ TwoToCome \in Expected
  /\ \A a \in Expected : a # Bad
BY DEF Expected, Bad, Boundary, OneToCome, TwoToCome

LEMMA FeedTo ==
  ASSUME NEW b, Between(b, 0, 255), NEW a \in Expected, NEW to \in Expected, NEW d,
         InStep(d, a), Next1(a, b) = to
  PROVE  InStep(Feed(d, b), to)
<1>1. Next1(a, b) # Bad
  BY Members
<1>2. QED
  BY <1>1, FeedByte DEF Between

\* What decode puts together with the first byte and with a further one.
LEMMA FirstCode ==
  ASSUME NEW b, NEW d, InStep(d, Boundary)
  PROVE  Feed(d, b).codepoint = b % Mask(Type(b))
<1>1. d.state = Accept
  BY WaitsFor DEF InStep, Accept
<1>2. QED
  BY <1>1 DEF Feed, CodePoint

LEMMA NextCode ==
  ASSUME NEW b, NEW d, NEW a \in Expected \ {Boundary}, InStep(d, a)
  PROVE  Feed(d, b).codepoint = (d.codepoint * 64) + (b % 64)
<1>1. d.state # Accept
  BY WaitsFor DEF InStep, Accept, Expected
<1>2. QED
  BY <1>1 DEF Feed, CodePoint

\* The last one, two and three bytes of a character.
LEMMA LastByte ==
  ASSUME NEW b, Between(b, \h80, \hBF), NEW d, InStep(d, OneToCome)
  PROVE  /\ InStep(Feed(d, b), Boundary)
         /\ Feed(d, b).codepoint = (d.codepoint * 64) + (b % 64)
<1>1. Next1(OneToCome, b) = Boundary /\ Between(b, 0, 255)
  BY Ranges DEF Between
<1>2. OneToCome \in Expected \ {Boundary}
  BY Members DEF OneToCome, Boundary
<1>3. QED
  BY <1>1, <1>2, FeedTo, NextCode, Members

LEMMA LastTwoBytes ==
  ASSUME NEW b, Between(b, \h80, \hBF), NEW e, Between(e, \h80, \hBF), NEW d,
         NEW a \in Expected \ {Boundary}, InStep(d, a), Next1(a, b) = OneToCome
  PROVE  /\ InStep(Feed(Feed(d, b), e), Boundary)
         /\ Feed(Feed(d, b), e).codepoint = (((d.codepoint * 64) + (b % 64)) * 64) + (e % 64)
<1>1. Between(b, 0, 255)
  BY DEF Between
<1>2. InStep(Feed(d, b), OneToCome)
  BY <1>1, FeedTo, Members
<1>3. Feed(d, b).codepoint = (d.codepoint * 64) + (b % 64)
  BY NextCode
<1>4. QED
  BY <1>2, <1>3, LastByte

LEMMA LastThreeBytes ==
  ASSUME NEW b, Between(b, \h80, \hBF), NEW e, Between(e, \h80, \hBF),
         NEW f, Between(f, \h80, \hBF), NEW d,
         NEW a \in Expected \ {Boundary}, InStep(d, a), Next1(a, b) = TwoToCome
  PROVE  /\ InStep(Feed(Feed(Feed(d, b), e), f), Boundary)
         /\ Feed(Feed(Feed(d, b), e), f).codepoint =
              (((((d.codepoint * 64) + (b % 64)) * 64) + (e % 64)) * 64) + (f % 64)
<1>1. Between(b, 0, 255)
  BY DEF Between
<1>2. InStep(Feed(d, b), TwoToCome)
  BY <1>1, FeedTo, Members
<1>3. Feed(d, b).codepoint = (d.codepoint * 64) + (b % 64)
  BY NextCode
<1>4. Next1(TwoToCome, e) = OneToCome /\ TwoToCome \in Expected \ {Boundary}
  BY Ranges, Members DEF TwoToCome, Boundary
<1>5. QED
  BY <1>2, <1>3, <1>4, LastTwoBytes

\* All the bytes of a character of two, three and four.
LEMMA TwoByteStep ==
  ASSUME NEW b, Between(b, \hC2, \hDF), NEW e, Between(e, \h80, \hBF),
         NEW d, InStep(d, Boundary)
  PROVE  /\ InStep(Feed(Feed(d, b), e), Boundary)
         /\ Feed(Feed(d, b), e).codepoint = ((b - \hC0) * 64) + (e % 64)
<1>1. Between(b, 0, 255)
  BY DEF Between
<1>2. InStep(Feed(d, b), OneToCome)
  BY <1>1, Ranges, FeedTo, Members
<1>3. Feed(d, b).codepoint = b - \hC0
  <2>1. Type(b) = 2
    BY DEF Type, Between
  <2>2. b % 64 = b - \hC0
    BY DEF Between
  <2>3. QED
    BY <2>1, <2>2, FirstCode DEF Mask
<1>4. QED
  BY <1>2, <1>3, LastByte

LEMMA ThreeByteStep ==
  ASSUME NEW b, Between(b, \hE0, \hEF), NEW e, Between(e, \h80, \hBF),
         NEW f, Between(f, \h80, \hBF),
         b = \hE0 => Between(e, \hA0, \hBF), b = \hED => Between(e, \h80, \h9F),
         NEW d, InStep(d, Boundary)
  PROVE  /\ InStep(Feed(Feed(Feed(d, b), e), f), Boundary)
         /\ Feed(Feed(Feed(d, b), e), f).codepoint =
              ((((b - \hE0) * 64) + (e % 64)) * 64) + (f % 64)
<1> DEFINE a == Next1(Boundary, b)
           fed == Feed(d, b)
<1>1. a \in Expected \ {Boundary} /\ Next1(a, e) = OneToCome
  BY Ranges, Members DEF Expected, OneToCome, TwoToCome, Between, Boundary
<1>2. Between(b, 0, 255)
  BY DEF Between
<1>3. InStep(fed, a)
  BY <1>1, <1>2, FeedTo, Members
<1>4. fed.codepoint = b - \hE0
  <2>1. Type(b) = (IF b = \hE0 THEN 10 ELSE IF b = \hED THEN 4 ELSE 3)
    BY DEF Type, Between
  <2>2. b % Mask(Type(b)) = b - \hE0
    BY <2>1 DEF Mask, Between
  <2>3. QED
    BY <2>2, FirstCode
<1> HIDE DEF a, fed
<1>5. /\ InStep(Feed(Feed(fed, e), f), Boundary)
      /\ Feed(Feed(fed, e), f).codepoint = ((((b - \hE0) * 64) + (e % 64)) * 64) + (f % 64)
  BY <1>1, <1>3, <1>4, LastTwoBytes
<1>6. QED
  BY <1>5 DEF fed

LEMMA FourByteStep ==
  ASSUME NEW b, Between(b, \hF0, \hF4), NEW e, Between(e, \h80, \hBF),
         NEW f, Between(f, \h80, \hBF), NEW g, Between(g, \h80, \hBF),
         b = \hF0 => Between(e, \h90, \hBF), b = \hF4 => Between(e, \h80, \h8F),
         NEW d, InStep(d, Boundary)
  PROVE  /\ InStep(Feed(Feed(Feed(Feed(d, b), e), f), g), Boundary)
         /\ Feed(Feed(Feed(Feed(d, b), e), f), g).codepoint =
              ((((((b - \hF0) * 64) + (e % 64)) * 64) + (f % 64)) * 64) + (g % 64)
<1> DEFINE a == Next1(Boundary, b)
           fed == Feed(d, b)
<1>1. a \in Expected \ {Boundary} /\ Next1(a, e) = TwoToCome
  BY Ranges, Members DEF Expected, OneToCome, TwoToCome, Between, Boundary
<1>2. Between(b, 0, 255)
  BY DEF Between
<1>3. InStep(fed, a)
  BY <1>1, <1>2, FeedTo, Members
<1>4. fed.codepoint = b - \hF0
  <2>1. Type(b) = (IF b = \hF0 THEN 11 ELSE IF b = \hF4 THEN 5 ELSE 6)
    BY DEF Type, Between
  <2>2. b % Mask(Type(b)) = b - \hF0
    BY <2>1 DEF Mask, Between
  <2>3. QED
    BY <2>2, FirstCode
<1> HIDE DEF a, fed
<1>5. /\ InStep(Feed(Feed(Feed(fed, e), f), g), Boundary)
      /\ Feed(Feed(Feed(fed, e), f), g).codepoint =
           ((((((b - \hF0) * 64) + (e % 64)) * 64) + (f % 64)) * 64) + (g % 64)
  BY <1>1, <1>3, <1>4, LastThreeBytes
<1>6. QED
  BY <1>5 DEF fed

\* A stored code point, surrogates apart, brings both back between characters,
\* and is the one that decode puts together.
LEMMA StoreStep ==
  ASSUME NEW c \in Nat, c < 17 * 65536, c < \hD800 \/ c > \hDFFF, InStep(dump, Boundary)
  PROVE  InStep(Store(c), Boundary) /\ Store(c).codepoint = c
<1>1. CASE c < \h80
  <2>1. Store(c) = Feed(dump, c)
    BY <1>1 DEF Store
  <2>2. Between(c, 0, 255) /\ Type(c) = 0
    BY <1>1 DEF Between, Type
  <2>3. Feed(dump, c).codepoint = c
    BY <1>1, <2>2, FirstCode DEF Mask
  <2>4. CASE Escaped(c)
    BY <1>1, <2>1, <2>3, <2>4, FeedEscaped
  <2>5. CASE ~Escaped(c)
    <3>1. c \in Unescaped
      BY <1>1, <2>5 DEF Escaped, Unescaped
    <3>2. Next1(Boundary, c) = Boundary
      BY <3>1 DEF Next1, Boundary, Unescaped
    <3>3. QED
      BY <2>1, <2>2, <2>3, <3>2, FeedTo, Members
  <2>6. QED
    BY <2>4, <2>5
<1>2. CASE c >= \h80 /\ c < \h800
  <2> DEFINE b == \hC0 + (c \div 64)
             e == Tail6(c)
  <2>1. Store(c) = Feed(Feed(dump, b), e)
    BY <1>2 DEF Store
  <2>2. Between(b, \hC2, \hDF) /\ Between(e, \h80, \hBF)
    BY <1>2, TwoBytes, TailByte
  <2>3. ((b - \hC0) * 64) + (e % 64) = c
    BY DEF Tail6
  <2> HIDE DEF b, e
  <2>4. QED
    BY <2>1, <2>2, <2>3, TwoByteStep
<1>3. CASE c >= \h800 /\ c < \h10000
  <2> DEFINE b == \hE0 + (c \div 4096)
             e == Tail6(c \div 64)
             f == Tail6(c)
  <2>1. Store(c) = Feed(Feed(Feed(dump, b), e), f)
    BY <1>3 DEF Store
  <2>2. /\ Between(b, \hE0, \hEF) /\ Between(e, \h80, \hBF) /\ Between(f, \h80, \hBF)
        /\ b = \hE0 => Between(e, \hA0, \hBF)
        /\ b = \hED => Between(e, \h80, \h9F)
    BY <1>3, ThreeBytes, TailByte
  <2>3. ((((b - \hE0) * 64) + (e % 64)) * 64) + (f % 64) = c
    BY DEF Tail6
  <2> HIDE DEF b, e, f
  <2>4. QED
    BY <2>1, <2>2, <2>3, ThreeByteStep
<1>4. CASE c >= \h10000
  <2> DEFINE b == \hF0 + (c \div 262144)
             e == Tail6(c \div 4096)
             f == Tail6(c \div 64)
             g == Tail6(c)
  <2>1. Store(c) = Feed(Feed(Feed(Feed(dump, b), e), f), g)
    BY <1>4 DEF Store
  <2>2. /\ Between(b, \hF0, \hF4) /\ Between(e, \h80, \hBF)
        /\ Between(f, \h80, \hBF) /\ Between(g, \h80, \hBF)
        /\ b = \hF0 => Between(e, \h90, \hBF)
        /\ b = \hF4 => Between(e, \h80, \h8F)
    BY <1>4, FourBytes, TailByte
  <2>3. ((((((b - \hF0) * 64) + (e % 64)) * 64) + (f % 64)) * 64) + (g % 64) = c
    BY DEF Tail6
  <2> HIDE DEF b, e, f, g
  <2>4. QED
    BY <2>1, <2>2, <2>3, FourByteStep
<1>5. QED
  BY <1>1, <1>2, <1>3, <1>4

\* A surrogate pair names a code point above FFFF.
LEMMA PairRange ==
  ASSUME NEW u \in High, NEW v \in Low
  PROVE  /\ Pair(u, v) \in Nat /\ Pair(u, v) >= \h10000 /\ Pair(u, v) < 17 * 65536
         /\ Named(u, v) = Pair(u, v)
<1>1. u \in Nat /\ v \in Nat /\ u >= \hD800 /\ u < \hDC00 /\ v >= \hDC00 /\ v < \hE000
  BY StringAssumption DEF High, Low
<1>2. QED
  BY <1>1 DEF Pair, Named

-----------------------------------------------------------------------------
(* The scan as a whole.                                                    *)

\* An escape of any kind.
LEMMA EscapeStep ==
  ASSUME ScanInv, ShortEscape \/ UnicodeEscape
  PROVE  ScanInv' /\ CodePointKept'
<1>1. ASSUME NEW c \in Nat, c < 17 * 65536, c < \hD800 \/ c > \hDFFF, Escape(c, c)
      PROVE  ScanInv' /\ CodePointKept'
  BY <1>1, StoreStep DEF Escape, ScanInv, InStep, CodePointKept
<1>2. ASSUME NEW c \in Short \cup {\h2F}, Escape(c, c) PROVE ScanInv' /\ CodePointKept'
  BY <1>1, <1>2 DEF Short
<1>3. ASSUME NEW u \in CodeUnit \ (High \cup Low), Escape(u, u)
      PROVE  ScanInv' /\ CodePointKept'
  BY <1>1, <1>3, StringAssumption DEF High, Low
<1>4. ASSUME NEW u \in High, NEW v \in Low,
             Escape(Pair(u, v), Named(u, v))
      PROVE  ScanInv' /\ CodePointKept'
  <2>1. /\ Pair(u, v) \in Nat /\ Pair(u, v) >= \h10000 /\ Pair(u, v) < 17 * 65536
        /\ Named(u, v) = Pair(u, v)
    BY PairRange
  <2>2. QED
    BY <1>1, <1>4, <2>1
<1>5. QED
  BY <1>2, <1>3, <1>4 DEF ShortEscape, UnicodeEscape

\* A byte as it is.
LEMMA RawStep ==
  ASSUME ScanInv, NEW b \in Byte, Raw(b)
  PROVE  ScanInv' /\ CodePointKept'
<1>1. b \in 0 .. 255
  BY StringAssumption
<1>2. ahead' \in Expected /\ InStep(dump', ahead')
  BY <1>1, FeedByte DEF Raw, ScanInv
<1>3. scan' # "closed"
  BY DEF Raw
<1>4. ASSUME meant' # NoCode PROVE dump'.codepoint = meant'
  <2>1. ahead = Boundary /\ b < \h80 /\ meant' = b
    BY <1>4 DEF Raw
  <2>2. Type(b) = 0
    BY <1>1, <2>1 DEF Type
  <2>3. dump'.codepoint = b % 256
    BY <2>1, <2>2, FirstCode DEF Raw, ScanInv, Mask
  <2>4. QED
    BY <1>1, <2>1, <2>3
<1>5. QED
  BY <1>2, <1>3, <1>4 DEF ScanInv, InStep, CodePointKept

\* decode and the second scan stay in step with the first scan, whatever the
\* text is.
THEOREM ScanInvariance == ScanSpec => [](ScanInv /\ CodePointKept)
<1>1. ScanInit => ScanInv /\ CodePointKept
  BY WaitsFor, Leasts, Members, StringAssumption
  DEF ScanInit, ScanInv, InStep, Room, Accept, CodePointKept
<1>2. ScanInv /\ CodePointKept /\ [ScanNext]_scanVars => (ScanInv /\ CodePointKept)'
  <2> SUFFICES ASSUME ScanInv, CodePointKept, [ScanNext]_scanVars
               PROVE  ScanInv' /\ CodePointKept'
    OBVIOUS
  <2>1. CASE \E b \in Byte : Raw(b)
    BY <2>1, RawStep
  <2>2. CASE ShortEscape \/ UnicodeEscape
    BY <2>2, EscapeStep
  <2>3. CASE Quote
    BY <2>3 DEF Quote, ScanInv, InStep, CodePointKept
  <2>4. CASE Refuse
    BY <2>4 DEF Refuse, ScanInv, InStep, CodePointKept
  <2>5. CASE UNCHANGED scanVars
    BY <2>5 DEF scanVars, ScanInv, InStep, CodePointKept
  <2>6. QED
    BY <2>1, <2>2, <2>3, <2>4, <2>5 DEF ScanNext
<1>3. QED
  BY <1>1, <1>2, PTL DEF ScanSpec

\* Every character arrives as the text names it, through escapes, surrogate
\* pairs and the bytes of any length.
THEOREM SameCharacter == ScanSpec => []CodePointKept
BY ScanInvariance, PTL

\* What scan_string accepts, dump_escaped takes: from_json's dump() of a parsed
\* payload never throws for its strings.
THEOREM NeverThrows == ScanSpec => []RelayNeverThrows
<1>1. ScanInv => RelayNeverThrows
  BY WaitsFor, Members DEF ScanInv, InStep, RelayNeverThrows, Accept, Reject
<1>2. QED
  BY <1>1, ScanInvariance, PTL

\* And what dump_escaped writes, the scan of invokeCallbacks takes.
THEOREM Readable == ScanSpec => []ReadableAgain
<1>1. ScanInv => ReadableAgain
  BY Members DEF ScanInv, InStep, ReadableAgain
<1>2. QED
  BY <1>1, ScanInvariance, PTL

\* string_buffer is never overrun, of whatever size from 13 up.
THEOREM BufferNeverOverrun == ScanSpec => []BufferFits
<1>1. ScanInv => BufferFits
  <2> SUFFICES ASSUME ScanInv PROVE BufferFits
    OBVIOUS
  <2>1. ahead = Boundary \/ ahead[3] \in 1 .. 3
    BY DEF ScanInv, Expected
  <2>2. QED
    BY <2>1, StringAssumption DEF ScanInv, InStep, Room, BufferFits
<1>2. QED
  BY <1>1, ScanInvariance, PTL

-----------------------------------------------------------------------------
(* Induction and recursion on the natural numbers.                         *)

LEMMA NatOrder ==
  \E R : IsWellFoundedOn(R, Nat) /\ \A x, y \in Nat : y < x => <<y, x>> \in R
<1> DEFINE R == OpToRel(<, Nat)
<1>1. IsWellFoundedOn(R, Nat)
  BY NatLessThanWellFounded
<1>2. \A x, y \in Nat : y < x => <<y, x>> \in R
  BY DEF OpToRel
<1> HIDE DEF R
<1> QED
  BY <1>1, <1>2

LEMMA LeastNat ==
  ASSUME NEW T, T \subseteq Nat, T # {}
  PROVE  \E x \in T : \A y \in T : x <= y
<1>1. PICK R : IsWellFoundedOn(R, Nat) /\ \A x, y \in Nat : y < x => <<y, x>> \in R
  BY NatOrder
<1>2. PICK x \in T : \A y \in T : ~(<<y, x>> \in R)
  BY <1>1, WFMin
<1>3. ASSUME NEW y \in T PROVE x <= y
  <2>1. x \in Nat /\ y \in Nat
    OBVIOUS
  <2>2. ~(y < x)
    <3> SUFFICES ASSUME y < x PROVE FALSE
      OBVIOUS
    <3>1. <<y, x>> \in R
      BY <1>1, <2>1
    <3> QED
      BY <1>2, <3>1
  <2> QED
    BY <2>1, <2>2
<1> QED
  BY <1>3

\* A set of numbers with 0 and with the successor of each member holds them all.
LEMMA Induction ==
  ASSUME NEW T, 0 \in T, \A n \in Nat : n \in T => n + 1 \in T
  PROVE  Nat \subseteq T
<1> SUFFICES ASSUME Nat \ T # {} PROVE FALSE
  OBVIOUS
<1>1. PICK x \in Nat \ T : \A y \in Nat \ T : x <= y
  BY LeastNat
<1>2. x # 0 /\ x - 1 \in Nat
  BY <1>1
<1>3. x - 1 \in T
  BY <1>1, <1>2
<1> QED
  BY <1>1, <1>2, <1>3

\* The same where the step may use all smaller numbers.
LEMMA StrongInduction ==
  ASSUME NEW T, \A n \in Nat : (\A k \in Nat : k < n => k \in T) => n \in T
  PROVE  Nat \subseteq T
<1> SUFFICES ASSUME Nat \ T # {} PROVE FALSE
  OBVIOUS
<1>1. PICK x \in Nat \ T : \A y \in Nat \ T : x <= y
  BY LeastNat
<1>2. \A k \in Nat : k < x => k \in T
  BY <1>1
<1> QED
  BY <1>1, <1>2

\* A recursion in which f[x] depends on f[D[x]], with D[x] smaller than x, except
\* in Small, where B gives the value.
IsRecursion(V, Small, B, D, C) ==
  /\ B \in [Nat -> V] /\ D \in [Nat -> Nat] /\ C \in [Nat -> [V -> V]]
  /\ \A x \in Nat : x \notin Small => D[x] < x

Solves(f, V, Small, B, D, C) ==
  /\ f \in [Nat -> V]
  /\ \A x \in Nat : f[x] = IF x \in Small THEN B[x] ELSE C[x][f[D[x]]]

\* It has a solution.
LEMMA Recursion ==
  ASSUME NEW V, NEW Small, NEW B, NEW D, NEW C, IsRecursion(V, Small, B, D, C)
  PROVE  \E f : Solves(f, V, Small, B, D, C)
<1> USE DEF IsRecursion
<1> DEFINE Up(g, n) == /\ g \in [0 .. n -> V]
                       /\ \A x \in 0 .. n :
                            g[x] = IF x \in Small THEN B[x] ELSE C[x][g[D[x]]]
           Reached == {n \in Nat : \E g : Up(g, n)}
<1>1. ASSUME NEW n \in Nat, n \in Reached PROVE n + 1 \in Reached
  <2>1. PICK g : Up(g, n)
    BY <1>1
  <2> DEFINE y == n + 1
             last == IF y \in Small THEN B[y] ELSE C[y][g[D[y]]]
             h == [x \in 0 .. y |-> IF x = y THEN last ELSE g[x]]
  <2>2. last \in V
    BY <2>1
  <2>3. h \in [0 .. y -> V]
    BY <2>1, <2>2
  <2>4. ASSUME NEW x \in 0 .. y
        PROVE  h[x] = IF x \in Small THEN B[x] ELSE C[x][h[D[x]]]
    <3>1. x \in Nat
      OBVIOUS
    <3>2. CASE x \in Small
      BY <2>1, <3>2
    <3>3. CASE x \notin Small
      <4>1. D[x] \in 0 .. n
        BY <3>1, <3>3
      <4>2. h[D[x]] = g[D[x]]
        BY <4>1
      <4> QED
        BY <2>1, <3>3, <4>2
    <3> QED
      BY <3>2, <3>3
  <2>5. Up(h, n + 1)
    <3> HIDE DEF last, h
    <3> QED
      BY <2>3, <2>4
  <2> HIDE DEF Up, h
  <2> QED
    BY <2>5
<1>2. 0 \in Reached
  <2> DEFINE g == [x \in 0 .. 0 |-> B[0]]
  <2>1. 0 \in Small
    OBVIOUS
  <2>2. Up(g, 0)
    BY <2>1
  <2> QED
    BY <2>2
<1>3. \A n \in Nat : \E g : Up(g, n)
  <2> HIDE DEF Up
  <2>1. Nat \subseteq Reached
    <3> HIDE DEF Reached
    <3> QED
      BY <1>1, <1>2, Induction
  <2> QED
    BY <2>1
<1>4. ASSUME NEW n \in Nat, NEW m \in Nat, NEW g, NEW h, Up(g, n), Up(h, m)
      PROVE  \A x \in Nat : x <= n /\ x <= m => g[x] = h[x]
  <2> DEFINE Same == {x \in Nat : x <= n /\ x <= m => g[x] = h[x]}
  <2>1. ASSUME NEW x \in Nat, \A k \in Nat : k < x => k \in Same PROVE x \in Same
    <3> SUFFICES ASSUME x <= n, x <= m PROVE g[x] = h[x]
      OBVIOUS
    <3>1. x \in 0 .. n /\ x \in 0 .. m
      OBVIOUS
    <3>2. CASE x \in Small
      BY <1>4, <3>1, <3>2
    <3>3. CASE x \notin Small
      <4>1. D[x] \in Nat /\ D[x] < x
        BY <3>3
      <4>2. g[D[x]] = h[D[x]]
        BY <2>1, <4>1
      <4> QED
        BY <1>4, <3>1, <3>3, <4>2
    <3> QED
      BY <3>2, <3>3
  <2>2. Nat \subseteq Same
    <3> HIDE DEF Same, Up
    <3> QED
      BY <2>1, StrongInduction
  <2> QED
    BY <2>2
<1> DEFINE G(x) == CHOOSE g : Up(g, x)
           f == [x \in Nat |-> G(x)[x]]
<1>5. \A x \in Nat : Up(G(x), x)
  <2> HIDE DEF Up
  <2> QED
    BY <1>3
<1> HIDE DEF G
<1>6. f \in [Nat -> V]
  BY <1>5
<1>7. ASSUME NEW x \in Nat
      PROVE  f[x] = IF x \in Small THEN B[x] ELSE C[x][f[D[x]]]
  <2>1. CASE x \in Small
    BY <1>5, <2>1
  <2>2. CASE x \notin Small
    <3>1. D[x] \in Nat /\ D[x] < x
      BY <2>2
    <3>2. G(x)[D[x]] = G(D[x])[D[x]]
      <4>1. Up(G(x), x) /\ Up(G(D[x]), D[x])
        BY <1>5, <3>1
      <4> HIDE DEF Up
      <4> QED
        BY <1>4, <3>1, <4>1
    <3> QED
      BY <1>5, <2>2, <3>1, <3>2
  <2> QED
    BY <2>1, <2>2
<1> QED
  BY <1>6, <1>7 DEF Solves

-----------------------------------------------------------------------------
(* The recursive functions of JsonNumber do what their definitions say.    *)

LEMMA CountDigits ==
  /\ count_digits \in [Nat -> Nat]
  /\ \A x \in Nat : count_digits[x] =
       IF x < 10 THEN 1 ELSE IF x < 100 THEN 2 ELSE IF x < 1000 THEN 3
       ELSE IF x < 10000 THEN 4 ELSE 4 + count_digits[x \div 10000]
<1> DEFINE Small == {x \in Nat : x < 10000}
           First(x) == IF x < 10 THEN 1 ELSE IF x < 100 THEN 2
                       ELSE IF x < 1000 THEN 3 ELSE 4
           B == [x \in Nat |-> First(x)]
           D == [x \in Nat |-> x \div 10000]
           C == [x \in Nat |-> [v \in Nat |-> 4 + v]]
           Rhs(f, x) ==
             IF x < 10 THEN 1 ELSE IF x < 100 THEN 2 ELSE IF x < 1000 THEN 3
             ELSE IF x < 10000 THEN 4 ELSE 4 + f[x \div 10000]
<1>1. IsRecursion(Nat, Small, B, D, C)
  BY DEF IsRecursion
<1> HIDE DEF Small, First, B, D, C
<1>2. PICK f : Solves(f, Nat, Small, B, D, C)
  BY <1>1, Recursion
<1>3. /\ f \in [Nat -> Nat]
      /\ \A x \in Nat : f[x] = IF x \in Small THEN B[x] ELSE C[x][f[D[x]]]
  BY <1>2 DEF Solves
<1>4. ASSUME NEW x \in Nat PROVE f[x] = Rhs(f, x)
  <2>1. CASE x < 10000
    <3>1. x \in Small /\ B[x] = First(x)
      BY <2>1 DEF Small, B
    <3>2. Rhs(f, x) = First(x)
      BY <2>1 DEF First
    <3> HIDE DEF Rhs
    <3> QED
      BY <1>3, <3>1, <3>2
  <2>2. CASE x >= 10000
    <3>1. x \notin Small
      BY <2>2 DEF Small
    <3>5. D[x] = x \div 10000
      BY DEF D
    <3>2. f[D[x]] \in Nat
      BY <1>1, <1>3 DEF IsRecursion
    <3>3. C[x][f[D[x]]] = 4 + f[D[x]]
      BY <3>2 DEF C
    <3>4. Rhs(f, x) = 4 + f[x \div 10000]
      BY <2>2
    <3> HIDE DEF Rhs
    <3> QED
      BY <1>3, <3>1, <3>3, <3>4, <3>5
  <2> QED
    BY <2>1, <2>2
<1>5. f = [x \in Nat |-> Rhs(f, x)]
  <2> HIDE DEF Rhs
  <2> QED
    BY <1>3, <1>4
<1>6. count_digits = CHOOSE g : g = [x \in Nat |-> Rhs(g, x)]
  BY DEF count_digits
<1>7. count_digits = [x \in Nat |-> Rhs(count_digits, x)]
  <2> HIDE DEF Rhs
  <2> QED
    BY <1>5, <1>6
<1>8. \A x \in Nat : count_digits[x] = Rhs(count_digits, x)
  <2> HIDE DEF Rhs
  <2> QED
    BY <1>7
<1>9. \A x \in Nat : count_digits[x] \in Nat
  <2> DEFINE T == {x \in Nat : count_digits[x] \in Nat}
  <2>1. ASSUME NEW x \in Nat, \A k \in Nat : k < x => k \in T PROVE x \in T
    <3>1. CASE x < 10000
      BY <1>8, <3>1
    <3>2. CASE x >= 10000
      <4>1. x \div 10000 \in Nat /\ x \div 10000 < x
        BY <3>2
      <4>2. count_digits[x \div 10000] \in Nat
        BY <2>1, <4>1
      <4> QED
        BY <1>8, <3>2, <4>2
    <3> QED
      BY <3>1, <3>2
  <2>2. Nat \subseteq T
    <3> HIDE DEF T
    <3> QED
      BY <2>1, StrongInduction
  <2> QED
    BY <2>2
<1>10. count_digits \in [Nat -> Nat]
  <2> HIDE DEF Rhs
  <2> QED
    BY <1>7, <1>9
<1> QED
  BY <1>8, <1>10

\* What is left after two digits, and the two digits.
LEMMA Hundred ==
  ASSUME NEW x \in Nat
  PROVE  /\ x \div 100 \in Nat /\ x % 100 \in Nat /\ x % 100 < 100
         /\ x = 100 * (x \div 100) + (x % 100)
         /\ x >= 100 => x \div 100 < x
OBVIOUS

LEMMA TwoDigitsType ==
  ASSUME NEW x \in Nat PROVE TwoDigits(x) \in Seq(Nat) /\ Len(TwoDigits(x)) = 2
<1>1. x \div 10 \in Nat /\ x % 10 \in Nat
  OBVIOUS
<1> QED
  BY <1>1 DEF TwoDigits, Zero

LEMMA WriteType ==
  \A x \in Nat :
    /\ Write(x) \in Seq(Nat)
    /\ Write(x) = IF x >= 100 THEN Write(x \div 100) \o TwoDigits(x % 100)
                  ELSE IF x >= 10 THEN TwoDigits(x) ELSE <<Zero + x>>
<1> DEFINE Small == {x \in Nat : x < 100}
           First(x) == IF x >= 10 THEN TwoDigits(x) ELSE <<Zero + x>>
           B == [x \in Nat |-> First(x)]
           D == [x \in Nat |-> x \div 100]
           C == [x \in Nat |-> [v \in Seq(Nat) |-> v \o TwoDigits(x % 100)]]
           Rhs(f, x) ==
             IF x >= 100 THEN f[x \div 100] \o TwoDigits(x % 100)
             ELSE IF x >= 10 THEN TwoDigits(x) ELSE <<Zero + x>>
<1>1. IsRecursion(Seq(Nat), Small, B, D, C)
  <2>1. B \in [Nat -> Seq(Nat)]
    BY TwoDigitsType DEF Zero
  <2>2. D \in [Nat -> Nat] /\ \A x \in Nat : x \notin Small => D[x] < x
    BY Hundred
  <2>3. C \in [Nat -> [Seq(Nat) -> Seq(Nat)]]
    <3>1. \A x \in Nat, v \in Seq(Nat) : v \o TwoDigits(x % 100) \in Seq(Nat)
      BY TwoDigitsType, Hundred
    <3> QED
      BY <3>1
  <2> HIDE DEF Small, B, C, D
  <2> QED
    BY <2>1, <2>2, <2>3 DEF IsRecursion
<1> HIDE DEF Small, First, B, D, C
<1>2. PICK f : Solves(f, Seq(Nat), Small, B, D, C)
  BY <1>1, Recursion
<1>3. /\ f \in [Nat -> Seq(Nat)]
      /\ \A x \in Nat : f[x] = IF x \in Small THEN B[x] ELSE C[x][f[D[x]]]
  BY <1>2 DEF Solves
<1>4. ASSUME NEW x \in Nat PROVE f[x] = Rhs(f, x)
  <2>1. CASE x < 100
    <3>1. x \in Small /\ B[x] = First(x)
      BY <2>1 DEF Small, B
    <3>2. Rhs(f, x) = First(x)
      BY <2>1 DEF First
    <3> HIDE DEF Rhs
    <3> QED
      BY <1>3, <3>1, <3>2
  <2>2. CASE x >= 100
    <3>1. x \notin Small
      BY <2>2 DEF Small
    <3>2. D[x] = x \div 100
      BY DEF D
    <3>3. f[D[x]] \in Seq(Nat)
      BY <1>1, <1>3 DEF IsRecursion
    <3>4. C[x][f[D[x]]] = f[D[x]] \o TwoDigits(x % 100)
      BY <3>3 DEF C
    <3>5. Rhs(f, x) = f[x \div 100] \o TwoDigits(x % 100)
      BY <2>2
    <3> HIDE DEF Rhs
    <3> QED
      BY <1>3, <3>1, <3>2, <3>4, <3>5
  <2> QED
    BY <2>1, <2>2
<1>5. f = [x \in Nat |-> Rhs(f, x)]
  <2> HIDE DEF Rhs
  <2> QED
    BY <1>3, <1>4
<1> DEFINE write == CHOOSE g : g = [x \in Nat |-> Rhs(g, x)]
<1>6. \A x \in Nat : Write(x) = write[x]
  BY DEF Write
<1>7. write = [x \in Nat |-> Rhs(write, x)]
  <2> HIDE DEF Rhs
  <2> QED
    BY <1>5
<1> HIDE DEF write
<1>8. \A x \in Nat : write[x] = Rhs(write, x)
  <2> HIDE DEF Rhs
  <2> QED
    BY <1>7
<1>9. \A x \in Nat : write[x] \in Seq(Nat)
  <2> DEFINE T == {x \in Nat : write[x] \in Seq(Nat)}
  <2>1. ASSUME NEW x \in Nat, \A k \in Nat : k < x => k \in T PROVE x \in T
    <3>1. CASE x < 100
      <4>1. write[x] = IF x >= 10 THEN TwoDigits(x) ELSE <<Zero + x>>
        BY <1>8, <3>1
      <4>2. TwoDigits(x) \in Seq(Nat) /\ <<Zero + x>> \in Seq(Nat)
        BY TwoDigitsType DEF Zero
      <4> QED
        BY <4>1, <4>2
    <3>2. CASE x >= 100
      <4>1. x \div 100 \in Nat /\ x \div 100 < x /\ x % 100 \in Nat
        BY <3>2, Hundred
      <4>2. write[x \div 100] \in Seq(Nat) /\ TwoDigits(x % 100) \in Seq(Nat)
        BY <2>1, <4>1, TwoDigitsType
      <4>3. write[x] = write[x \div 100] \o TwoDigits(x % 100)
        BY <1>8, <3>2
      <4>4. write[x] \in Seq(Nat)
        BY <4>2, <4>3
      <4> QED
        BY <4>4
    <3> QED
      BY <3>1, <3>2
  <2>2. Nat \subseteq T
    <3> HIDE DEF T
    <3> QED
      BY <2>1, StrongInduction
  <2> QED
    BY <2>2
<1>10. ASSUME NEW x \in Nat
       PROVE  Write(x) = IF x >= 100 THEN Write(x \div 100) \o TwoDigits(x % 100)
                         ELSE IF x >= 10 THEN TwoDigits(x) ELSE <<Zero + x>>
  <2>1. Write(x) = write[x] /\ Write(x \div 100) = write[x \div 100]
    BY <1>6, Hundred
  <2> QED
    BY <1>8, <2>1
<1> QED
  BY <1>6, <1>9, <1>10

LEMMA DigitRange ==
  \A c \in Digit : c \in Nat /\ c - Zero \in Nat /\ c - Zero < 10 /\ Zero + (c - Zero) = c
BY NumberAssumption DEF Zero

\* The value of a row of digits goes through the values of its beginnings.
LEMMA Values ==
  ASSUME NEW s \in Seq(Digit)
  PROVE  \E value :
           /\ value[0] = 0 /\ \A n \in 0 .. Len(s) : value[n] \in Nat
           /\ \A n \in 1 .. Len(s) : value[n] = (10 * value[n - 1]) + (s[n] - Zero)
           /\ Magnitude(s) = value[Len(s)]
<1> DEFINE digit(x) == IF x \in 1 .. Len(s) THEN s[x] - Zero ELSE 0
           B == [x \in Nat |-> 0]
           D == [x \in Nat |-> IF x = 0 THEN 0 ELSE x - 1]
           C == [x \in Nat |-> [v \in Nat |-> (10 * v) + digit(x)]]
           Rhs(f, n) == IF n = 0 THEN 0 ELSE (10 * f[n - 1]) + (s[n] - Zero)
<1>1. \A x \in Nat : digit(x) \in Nat
  BY DigitRange
<1> HIDE DEF digit
<1>2. IsRecursion(Nat, {0}, B, D, C)
  <2>1. B \in [Nat -> Nat] /\ D \in [Nat -> Nat]
    OBVIOUS
  <2>2. \A x, v \in Nat : (10 * v) + digit(x) \in Nat
    BY <1>1
  <2>3. C \in [Nat -> [Nat -> Nat]]
    BY <2>2
  <2>4. \A x \in Nat : x \notin {0} => D[x] < x
    OBVIOUS
  <2> QED
    BY <2>1, <2>3, <2>4 DEF IsRecursion
<1> HIDE DEF B, D, C
<1>3. PICK f : Solves(f, Nat, {0}, B, D, C)
  BY <1>2, Recursion
<1>4. f[0] = 0
  BY <1>3 DEF Solves, B
<1>5. ASSUME NEW n \in 1 .. Len(s) PROVE f[n] = (10 * f[n - 1]) + (s[n] - Zero)
  <2>1. n \in Nat /\ n # 0 /\ n - 1 \in Nat
    OBVIOUS
  <2>2. f[n] = C[n][f[D[n]]] /\ D[n] = n - 1
    BY <1>3, <2>1 DEF Solves, D
  <2>3. f[n - 1] \in Nat
    BY <1>3, <2>1 DEF Solves
  <2>4. f[n] = (10 * f[n - 1]) + digit(n)
    BY <2>1, <2>2, <2>3 DEF C
  <2> QED
    BY <2>4 DEF digit
<1> DEFINE g == [n \in 0 .. Len(s) |-> f[n]]
<1>6. g = [n \in 0 .. Len(s) |-> Rhs(g, n)]
  <2>1. ASSUME NEW n \in 0 .. Len(s) PROVE f[n] = Rhs(g, n)
    BY <1>4, <1>5
  <2> HIDE DEF Rhs
  <2> QED
    BY <2>1
<1> HIDE DEF g
<1> DEFINE value == CHOOSE h : h = [n \in 0 .. Len(s) |-> Rhs(h, n)]
<1>7. Magnitude(s) = value[Len(s)]
  BY DEF Magnitude
<1>8. value = [n \in 0 .. Len(s) |-> Rhs(value, n)]
  <2> HIDE DEF Rhs
  <2> QED
    BY <1>6
<1> HIDE DEF value
<1>9. \A n \in 0 .. Len(s) : value[n] = Rhs(value, n)
  <2> HIDE DEF Rhs
  <2> QED
    BY <1>8
<1>10. Len(s) \in Nat
  OBVIOUS
<1>11. \A n \in 0 .. Len(s) : value[n] \in Nat
  <2> DEFINE T == {n \in Nat : n <= Len(s) => value[n] \in Nat}
  <2>1. 0 \in T
    BY <1>9, <1>10
  <2>2. ASSUME NEW n \in Nat, n \in T PROVE n + 1 \in T
    <3> SUFFICES ASSUME n + 1 <= Len(s) PROVE value[n + 1] \in Nat
      OBVIOUS
    <3>1. n + 1 \in 1 .. Len(s) /\ (n + 1) - 1 = n /\ n + 1 # 0
      BY <1>10
    <3>2. digit(n + 1) \in Nat /\ digit(n + 1) = s[n + 1] - Zero
      BY <1>1, <3>1 DEF digit
    <3>3. value[n] \in Nat
      BY <1>10, <2>2
    <3>4. value[n + 1] = (10 * value[n]) + (s[n + 1] - Zero)
      BY <1>9, <1>10, <3>1
    <3> QED
      BY <3>2, <3>3, <3>4
  <2>3. Nat \subseteq T
    <3> HIDE DEF T
    <3> QED
      BY <2>1, <2>2, Induction
  <2> QED
    BY <1>10, <2>3
<1> QED
  BY <1>7, <1>9, <1>10, <1>11

\* One more digit.
Then(v, a) == (10 * v) + a

LEMMA ButTwo ==
  ASSUME NEW v \in Nat, NEW a \in Nat, NEW b \in Nat, a < 10, b < 10
  PROVE  Then(Then(v, a), b) \div 100 = v
<1>1. ((10 * ((10 * v) + a)) + b) \div 100 = v
  OBVIOUS
<1> QED
  BY <1>1 DEF Then

LEMMA LastTwo ==
  ASSUME NEW v \in Nat, NEW a \in Nat, NEW b \in Nat, a < 10, b < 10
  PROVE  /\ TwoDigits(Then(Then(v, a), b) % 100) = <<Zero + a, Zero + b>>
         /\ TwoDigits(Then(a, b)) = <<Zero + a, Zero + b>>
<1>1. ((10 * ((10 * v) + a)) + b) % 100 = (10 * a) + b
  OBVIOUS
<1>2. ((10 * a) + b) \div 10 = a /\ ((10 * a) + b) % 10 = b
  OBVIOUS
<1> QED
  BY <1>1, <1>2 DEF TwoDigits, Then

LEMMA TwiceTwo ==
  ASSUME NEW x \in Nat PROVE x \div 10000 = (x \div 100) \div 100
OBVIOUS

\* One step of Write and of count_digits.
LEMMA WriteStep ==
  ASSUME NEW x \in Nat
  PROVE  /\ x < 10 => Write(x) = <<Zero + x>>
         /\ x >= 10 /\ x < 100 => Write(x) = TwoDigits(x)
         /\ x >= 100 => Write(x) = Write(x \div 100) \o TwoDigits(x % 100)
<1>1. Write(x) = IF x >= 100 THEN Write(x \div 100) \o TwoDigits(x % 100)
                 ELSE IF x >= 10 THEN TwoDigits(x) ELSE <<Zero + x>>
  BY WriteType
<1> QED
  BY <1>1

LEMMA CountStep ==
  ASSUME NEW x \in Nat
  PROVE  /\ x < 10 => count_digits[x] = 1
         /\ x >= 10 /\ x < 100 => count_digits[x] = 2
         /\ x >= 100 /\ x < 1000 => count_digits[x] = 3
         /\ x >= 1000 /\ x < 10000 => count_digits[x] = 4
         /\ x >= 10000 => count_digits[x] = 4 + count_digits[x \div 10000]
<1>1. count_digits[x] =
        IF x < 10 THEN 1 ELSE IF x < 100 THEN 2 ELSE IF x < 1000 THEN 3
        ELSE IF x < 10000 THEN 4 ELSE 4 + count_digits[x \div 10000]
  BY CountDigits
<1> QED
  BY <1>1

\* A row of digits is written as it was read, and has as many as count_digits
\* says, if no zero leads.
LEMMA Rewritten ==
  ASSUME NEW s \in Seq(Digit), s # <<>>, s[1] = Zero => Len(s) = 1
  PROVE  /\ Magnitude(s) \in Nat /\ Write(Magnitude(s)) = s
         /\ count_digits[Magnitude(s)] = Len(s)
         /\ Magnitude(s) = 0 => s = <<Zero>>
<1>1. PICK value :
        /\ value[0] = 0 /\ \A n \in 0 .. Len(s) : value[n] \in Nat
        /\ \A n \in 1 .. Len(s) : value[n] = (10 * value[n - 1]) + (s[n] - Zero)
        /\ Magnitude(s) = value[Len(s)]
  BY Values
<1>2. Len(s) \in Nat /\ Len(s) >= 1
  OBVIOUS
<1> DEFINE d == [n \in 1 .. Len(s) |-> s[n] - Zero]
<1>3. \A n \in 1 .. Len(s) : d[n] \in Nat /\ d[n] < 10 /\ s[n] = Zero + d[n]
  BY DigitRange
<1>4. \A n \in 1 .. Len(s) : value[n] = Then(value[n - 1], d[n])
  BY <1>1 DEF Then
<1> HIDE DEF d
<1>5. 1 \in 1 .. Len(s) /\ value[1] = d[1]
  BY <1>1, <1>2, <1>3, <1>4 DEF Then
<1>6. CASE Len(s) = 1
  <2>1. Magnitude(s) = d[1] /\ d[1] \in Nat /\ d[1] < 10 /\ s[1] = Zero + d[1]
    BY <1>1, <1>3, <1>5, <1>6
  <2>2. s = <<s[1]>>
    BY <1>6
  <2>3. Write(d[1]) = <<Zero + d[1]>> /\ count_digits[d[1]] = 1
    BY <2>1, WriteStep, CountStep
  <2> QED
    BY <1>6, <2>1, <2>2, <2>3 DEF Zero
<1>7. CASE Len(s) > 1
  <2>1. value[1] >= 1
    BY <1>3, <1>5, <1>7 DEF Zero
  <2> DEFINE P == {n \in Nat : n + 1 <= Len(s) => value[n + 1] >= 1}
  <2>2. ASSUME NEW n \in Nat, n \in P PROVE n + 1 \in P
    <3> SUFFICES ASSUME (n + 1) + 1 <= Len(s) PROVE value[(n + 1) + 1] >= 1
      OBVIOUS
    <3>1. (n + 1) + 1 \in 1 .. Len(s) /\ ((n + 1) + 1) - 1 = n + 1 /\ n + 1 <= Len(s)
      BY <1>2
    <3>2. value[n + 1] >= 1
      BY <1>2, <2>2, <3>1
    <3>3. value[n + 1] \in Nat /\ d[(n + 1) + 1] \in Nat
      BY <1>1, <1>2, <1>3, <3>1
    <3>4. value[(n + 1) + 1] = Then(value[n + 1], d[(n + 1) + 1])
      BY <1>4, <3>1
    <3>5. d[(n + 1) + 1] < 10
      BY <1>3, <3>1
    <3>6. Then(value[n + 1], d[(n + 1) + 1]) >= 1
      BY <3>2, <3>3, <3>5 DEF Then
    <3> QED
      BY <3>4, <3>6
  <2>3. Nat \subseteq P
    <3>1. 0 \in P
      BY <2>1
    <3> HIDE DEF P
    <3> QED
      BY <2>2, <3>1, Induction
  <2>4. ASSUME NEW n \in 1 .. Len(s) PROVE value[n] \in Nat /\ value[n] >= 1
    <3>1. n - 1 \in Nat /\ (n - 1) + 1 = n /\ n <= Len(s) /\ n \in 0 .. Len(s)
      BY <1>2
    <3>2. n - 1 \in P
      BY <2>3, <3>1
    <3> QED
      BY <1>1, <3>1, <3>2
  <2> DEFINE Out(n) == /\ Len(Write(value[n])) = n
                       /\ \A i \in 1 .. n : Write(value[n])[i] = s[i]
             Count(n) == count_digits[value[n]] = n
             T == {n \in Nat : n \in 1 .. Len(s) => Out(n) /\ Count(n)}
  <2>5. ASSUME NEW n \in Nat, \A k \in Nat : k < n => k \in T, n \in 1 .. Len(s)
        PROVE  Out(n)
    <3>1. CASE n = 1
      <4>1. Write(value[n]) = <<s[n]>>
        BY <1>3, <1>5, <3>1, WriteStep
      <4> QED
        BY <3>1, <4>1
    <3>2. CASE n = 2
      <4>1. 2 \in 1 .. Len(s) /\ value[2] = Then(d[1], d[2])
        BY <1>4, <1>5, <2>5, <3>2
      <4>2. /\ d[1] \in Nat /\ d[1] < 10 /\ d[1] >= 1 /\ s[1] = Zero + d[1]
            /\ d[2] \in Nat /\ d[2] < 10 /\ s[2] = Zero + d[2]
        BY <1>3, <1>5, <2>1, <4>1
      <4>3. TwoDigits(Then(d[1], d[2])) = <<s[1], s[2]>>
        <5> DEFINE a == d[1]
                   b == d[2]
        <5>1. a \in Nat /\ a < 10 /\ b \in Nat /\ b < 10 /\ s[1] = Zero + a /\ s[2] = Zero + b
          BY <4>2
        <5> HIDE DEF a, b
        <5>2. TwoDigits(Then(a, b)) = <<Zero + a, Zero + b>>
          BY <5>1, LastTwo
        <5> QED
          BY <5>1, <5>2 DEF a, b
      <4>4. /\ Then(d[1], d[2]) \in Nat
            /\ Then(d[1], d[2]) >= 10 /\ Then(d[1], d[2]) < 100
        BY <4>2 DEF Then
      <4>5. Write(Then(d[1], d[2])) = <<s[1], s[2]>>
        BY <4>3, <4>4, WriteStep
      <4> QED
        BY <3>2, <4>1, <4>5
    <3>3. CASE n >= 3
      <4> DEFINE m == n - 1
                 k == n - 2
      <4>1. /\ m \in 1 .. Len(s) /\ k \in 1 .. Len(s) /\ k \in Nat /\ k < n
            /\ n - 1 = m /\ m - 1 = k /\ n = k + 2 /\ m = k + 1
        BY <1>2, <2>5, <3>3
      <4> HIDE DEF m, k
      <4>2. value[n] = Then(Then(value[k], d[m]), d[n])
        BY <1>4, <2>5, <4>1
      <4>3. /\ d[m] \in Nat /\ d[m] < 10 /\ s[m] = Zero + d[m]
            /\ d[n] \in Nat /\ d[n] < 10 /\ s[n] = Zero + d[n]
        BY <1>3, <2>5, <4>1
      <4>4. value[k] \in Nat /\ value[k] >= 1 /\ value[n] \in Nat
        BY <2>4, <2>5, <4>1
      <4>5. value[n] >= 100
        <5>1. Then(value[k], d[m]) \in Nat /\ Then(value[k], d[m]) >= 10
          BY <4>3, <4>4 DEF Then
        <5> QED
          BY <4>2, <4>3, <5>1 DEF Then
      <4>6. value[n] \div 100 = value[k] /\ TwoDigits(value[n] % 100) = <<s[m], s[n]>>
        <5> DEFINE x == value[k]
                   a == d[m]
                   b == d[n]
        <5>1. x \in Nat /\ a \in Nat /\ b \in Nat /\ a < 10 /\ b < 10
          BY <4>3, <4>4
        <5> HIDE DEF x, a, b
        <5>2. Then(Then(x, a), b) \div 100 = x
          BY <5>1, ButTwo
        <5>3. TwoDigits(Then(Then(x, a), b) % 100) = <<Zero + a, Zero + b>>
          BY <5>1, LastTwo
        <5>4. value[n] = Then(Then(x, a), b) /\ s[m] = Zero + a /\ s[n] = Zero + b
          BY <4>2, <4>3 DEF x, a, b
        <5> QED
          BY <5>2, <5>3, <5>4 DEF x
      <4>7. Write(value[n]) = Write(value[k]) \o <<s[m], s[n]>>
        BY <4>4, <4>5, <4>6, WriteStep
      <4>8. Len(Write(value[k])) = k /\ \A i \in 1 .. k : Write(value[k])[i] = s[i]
        BY <2>5, <4>1
      <4>9. Write(value[k]) \in Seq(Nat) /\ <<s[m], s[n]>> \in Seq(Nat)
        <5>1. s[m] \in Digit /\ s[n] \in Digit
          BY <2>5, <4>1
        <5>2. s[m] \in Nat /\ s[n] \in Nat
          BY <5>1, DigitRange
        <5>3. Write(value[k]) \in Seq(Nat)
          BY <4>4, WriteType
        <5> QED
          BY <5>2, <5>3
      <4>10. /\ Len(Write(value[n])) = k + 2
             /\ \A i \in 1 .. k + 2 : Write(value[n])[i] =
                  IF i <= k THEN Write(value[k])[i] ELSE <<s[m], s[n]>>[i - k]
        BY <4>7, <4>8, <4>9, ConcatProperties
      <4> QED
        BY <4>1, <4>8, <4>10
    <3> QED
      BY <2>5, <3>1, <3>2, <3>3
  <2>6. ASSUME NEW n \in Nat, \A k \in Nat : k < n => k \in T, n \in 1 .. Len(s)
        PROVE  Count(n)
    <3>1. CASE n \in 1 .. 4
      <4>1. value[1] \in Nat /\ value[1] < 10 /\ value[1] >= 1
        BY <1>3, <1>5, <2>1
      <4>2. ASSUME NEW m \in 2 .. n
            PROVE  /\ value[m] = Then(value[m - 1], d[m])
                   /\ value[m - 1] \in Nat /\ d[m] \in Nat /\ d[m] < 10
        <5>1. m \in 1 .. Len(s) /\ m - 1 \in 1 .. Len(s)
          BY <1>2, <2>6
        <5> QED
          BY <1>3, <1>4, <2>4, <5>1
      <4>3. n >= 2 => value[2] \in Nat /\ value[2] < 100 /\ value[2] >= 10
        <5> SUFFICES ASSUME n >= 2 PROVE value[2] \in Nat /\ value[2] < 100 /\ value[2] >= 10
          OBVIOUS
        <5>1. 2 \in 2 .. n /\ 2 - 1 = 1
          BY <2>6
        <5>2. value[2] = Then(value[1], d[2]) /\ d[2] \in Nat /\ d[2] < 10
          BY <4>2, <5>1
        <5> QED
          BY <4>1, <5>2 DEF Then
      <4>4. n >= 3 => value[3] \in Nat /\ value[3] < 1000 /\ value[3] >= 100
        <5> SUFFICES ASSUME n >= 3 PROVE value[3] \in Nat /\ value[3] < 1000 /\ value[3] >= 100
          OBVIOUS
        <5>1. 3 \in 2 .. n /\ 3 - 1 = 2 /\ n >= 2
          BY <2>6
        <5>2. value[3] = Then(value[2], d[3]) /\ d[3] \in Nat /\ d[3] < 10
          BY <4>2, <5>1
        <5> QED
          BY <4>3, <5>1, <5>2 DEF Then
      <4>5. n = 4 => value[4] \in Nat /\ value[4] < 10000 /\ value[4] >= 1000
        <5> SUFFICES ASSUME n = 4 PROVE value[4] \in Nat /\ value[4] < 10000 /\ value[4] >= 1000
          OBVIOUS
        <5>1. 4 \in 2 .. n /\ 4 - 1 = 3 /\ n >= 3
          BY <2>6
        <5>2. value[4] = Then(value[3], d[4]) /\ d[4] \in Nat /\ d[4] < 10
          BY <4>2, <5>1
        <5> QED
          BY <4>4, <5>1, <5>2 DEF Then
      <4>6. n = 1 \/ n = 2 \/ n = 3 \/ n = 4
        BY <3>1
      <4> QED
        BY <4>1, <4>3, <4>4, <4>5, <4>6, CountStep
    <3>2. CASE n > 4
      <4> DEFINE k == n - 4
      <4>1. /\ k \in 1 .. Len(s) /\ k \in Nat /\ k < n /\ n = k + 4
            /\ k + 1 \in 1 .. Len(s) /\ k + 2 \in 1 .. Len(s) /\ k + 3 \in 1 .. Len(s)
            /\ n - 1 = k + 3 /\ (k + 3) - 1 = k + 2 /\ (k + 2) - 1 = k + 1 /\ (k + 1) - 1 = k
        BY <1>2, <2>6, <3>2
      <4> HIDE DEF k
      <4>2. /\ value[n] = Then(value[k + 3], d[n])
            /\ value[k + 3] = Then(value[k + 2], d[k + 3])
            /\ value[k + 2] = Then(value[k + 1], d[k + 2])
            /\ value[k + 1] = Then(value[k], d[k + 1])
        BY <1>4, <2>6, <4>1
      <4>3. /\ d[k + 1] \in Nat /\ d[k + 1] < 10 /\ d[k + 2] \in Nat /\ d[k + 2] < 10
            /\ d[k + 3] \in Nat /\ d[k + 3] < 10 /\ d[n] \in Nat /\ d[n] < 10
        BY <1>3, <2>6, <4>1
      <4>4. /\ value[k] \in Nat /\ value[k] >= 1 /\ value[n] \in Nat
            /\ value[k + 1] \in Nat /\ value[k + 2] \in Nat /\ value[k + 3] \in Nat
        BY <2>4, <2>6, <4>1
      <4>5. value[n] >= 10000
        <5>1. value[k + 1] >= 10
          <6>1. value[k] \in Nat /\ value[k] >= 1 /\ d[k + 1] \in Nat
            BY <4>3, <4>4
          <6>2. Then(value[k], d[k + 1]) >= 10
            BY <6>1 DEF Then
          <6> QED
            BY <4>2, <6>2
        <5>2. value[k + 2] >= 100
          <6>1. value[k + 1] \in Nat /\ d[k + 2] \in Nat
            BY <4>3, <4>4
          <6>2. Then(value[k + 1], d[k + 2]) >= 100
            BY <5>1, <6>1 DEF Then
          <6> QED
            BY <4>2, <6>2
        <5>3. value[k + 3] >= 1000
          <6>1. value[k + 2] \in Nat /\ d[k + 3] \in Nat
            BY <4>3, <4>4
          <6>2. Then(value[k + 2], d[k + 3]) >= 1000
            BY <5>2, <6>1 DEF Then
          <6> QED
            BY <4>2, <6>2
        <5>4. value[k + 3] \in Nat /\ d[n] \in Nat
          BY <4>3, <4>4
        <5>5. Then(value[k + 3], d[n]) >= 10000
          BY <5>3, <5>4 DEF Then
        <5> QED
          BY <4>2, <5>5
      <4>6. value[n] \div 10000 = value[k]
        <5>1. value[n] \div 100 = value[k + 2]
          <6>1. value[n] = Then(Then(value[k + 2], d[k + 3]), d[n])
            BY <4>2
          <6>2. /\ value[k + 2] \in Nat
                /\ d[k + 3] \in Nat /\ d[k + 3] < 10 /\ d[n] \in Nat /\ d[n] < 10
            BY <4>3, <4>4
          <6> QED
            BY <6>1, <6>2, ButTwo
        <5>2. value[k + 2] \div 100 = value[k]
          <6>1. value[k + 2] = Then(Then(value[k], d[k + 1]), d[k + 2])
            BY <4>2
          <6>2. /\ value[k] \in Nat /\ d[k + 1] \in Nat /\ d[k + 1] < 10
                /\ d[k + 2] \in Nat /\ d[k + 2] < 10
            BY <4>3, <4>4
          <6> QED
            BY <6>1, <6>2, ButTwo
        <5>3. value[n] \in Nat
          BY <4>4
        <5> QED
          BY <5>1, <5>2, <5>3, TwiceTwo
      <4>7. count_digits[value[n]] = 4 + count_digits[value[k]]
        BY <4>4, <4>5, <4>6, CountStep
      <4>8. count_digits[value[k]] = k
        BY <2>6, <4>1
      <4> QED
        BY <4>1, <4>7, <4>8
    <3> QED
      BY <2>6, <3>1, <3>2
  <2>7. Nat \subseteq T
    <3>1. ASSUME NEW n \in Nat, \A k \in Nat : k < n => k \in T PROVE n \in T
      <4> HIDE DEF Out, Count
      <4> QED
        BY <2>5, <2>6, <3>1
    <3> HIDE DEF T
    <3> QED
      BY <3>1, StrongInduction
  <2>8. Out(Len(s)) /\ Count(Len(s))
    <3> HIDE DEF Out, Count
    <3> QED
      BY <1>2, <2>7
  <2>9. Write(Magnitude(s)) \in Seq(Nat) /\ Magnitude(s) \in Nat /\ Magnitude(s) # 0
    <3>1. Len(s) \in 1 .. Len(s)
      BY <1>2
    <3>2. value[Len(s)] \in Nat /\ value[Len(s)] >= 1
      BY <2>4, <3>1
    <3>3. Magnitude(s) \in Nat /\ Magnitude(s) # 0
      BY <1>1, <3>2
    <3> QED
      BY <3>3, WriteType
  <2>10. Write(Magnitude(s)) = s
    <3>1. s \in Seq(Nat)
      BY DigitRange
    <3> QED
      BY <1>1, <2>8, <2>9, <3>1, SeqEqual
  <2> QED
    BY <1>1, <2>8, <2>9, <2>10
<1>8. \A n \in Nat : n >= 1 => n = 1 \/ n > 1
  OBVIOUS
<1> QED
  BY <1>2, <1>6, <1>7, <1>8

-----------------------------------------------------------------------------
(* What scan_number has read at each label.                                *)

Labels == {"init", "minus", "zero", "any1", "decimal1", "decimal2",
           "exponent", "sign", "any2"}

\* An integer part up to j and a fraction up to k.
DecimalTo(s, i, j, k) ==
  IntegerTo(s, i, j) /\ j <= k /\ k <= Len(s) /\ IsFraction(s, j + 1, k)

\* The texts that are read when a label is reached.
Shape(at, s) ==
  \/ at = "init" /\ s = <<>>
  \/ at = "minus" /\ Len(s) = 1 /\ s[1] = Minus
  \/ at = "zero" /\ \E i \in {0, 1} : IntegerTo(s, i, Len(s)) /\ s[i + 1] = Zero
  \/ at = "any1" /\ \E i \in {0, 1} : IntegerTo(s, i, Len(s)) /\ s[i + 1] # Zero
  \/ /\ at = "decimal1"
     /\ \E i \in {0, 1}, j \in 0 .. Len(s) :
          IntegerTo(s, i, j) /\ Len(s) = j + 1 /\ s[j + 1] = Point
  \/ /\ at = "decimal2"
     /\ \E i \in {0, 1}, j \in 0 .. Len(s) :
          IntegerTo(s, i, j) /\ j < Len(s) /\ IsFraction(s, j + 1, Len(s))
  \/ /\ at = "exponent"
     /\ \E i \in {0, 1}, j, k \in 0 .. Len(s) :
          DecimalTo(s, i, j, k) /\ Len(s) = k + 1 /\ s[k + 1] = Exp
  \/ /\ at = "sign"
     /\ \E i \in {0, 1}, j, k \in 0 .. Len(s) :
          /\ DecimalTo(s, i, j, k) /\ Len(s) = k + 2
          /\ s[k + 1] = Exp /\ s[k + 2] \in {Plus, Minus}
  \/ /\ at = "any2"
     /\ \E i \in {0, 1}, j, k \in 0 .. Len(s) :
          DecimalTo(s, i, j, k) /\ k < Len(s) /\ IsExponent(s, k + 1, Len(s))

\* No character plays two parts.
LEMMA CharsApart ==
  /\ Zero \in Digit /\ Digit \subseteq NumberChar
  /\ Plus \notin Digit /\ Minus \notin Digit /\ Point \notin Digit
  /\ Exp \notin Digit /\ Other \notin Digit
  /\ Plus # Minus /\ Plus # Point /\ Plus # Exp /\ Plus # Other
  /\ Minus # Point /\ Minus # Exp /\ Minus # Other
  /\ Point # Exp /\ Point # Other /\ Exp # Other
  /\ {Plus, Minus, Point, Exp, Other} \subseteq NumberChar
<1>1. Digit \subseteq 48 .. 57 /\ Zero \in Digit
  BY NumberAssumption DEF Zero
<1> QED
  BY <1>1 DEF NumberChar, Plus, Minus, Point, Exp, Other

\* The labels by which each label is reached.
LEMMA Transition ==
  ASSUME NEW at \in Labels, NEW c \in NumberChar, NEW to \in Labels
  PROVE  Label(at, c) = to <=>
    \/ to = "minus" /\ at = "init" /\ c = Minus
    \/ to = "zero" /\ at \in {"init", "minus"} /\ c = Zero
    \/ to = "any1" /\ at \in {"init", "minus"} /\ c \in Digit \ {Zero}
    \/ to = "any1" /\ at = "any1" /\ c \in Digit
    \/ to = "decimal1" /\ at \in {"zero", "any1"} /\ c = Point
    \/ to = "decimal2" /\ at \in {"decimal1", "decimal2"} /\ c \in Digit
    \/ to = "exponent" /\ at \in {"zero", "any1", "decimal2"} /\ c = Exp
    \/ to = "sign" /\ at = "exponent" /\ c \in {Plus, Minus}
    \/ to = "any2" /\ at \in {"exponent", "sign", "any2"} /\ c \in Digit
<1> USE CharsApart DEF Labels, Stop, Enough, MoreDigits
<1>1. CASE at \in {"decimal1", "decimal2"}
  <2>1. Label(at, c) = InFraction(at, c)
    BY <1>1 DEF Label
  <2> QED
    BY <1>1, <2>1 DEF InFraction
<1>2. CASE at \in {"exponent", "sign", "any2"}
  <2>1. Label(at, c) = InExponent(at, c)
    BY <1>2 DEF Label
  <2> QED
    BY <1>2, <2>1 DEF InExponent
<1>3. CASE at \in {"init", "minus", "zero", "any1"}
  <2>1. Label(at, c) = InInteger(at, c)
    BY <1>3 DEF Label
  <2> QED
    BY <1>3, <2>1 DEF InInteger
<1> QED
  BY <1>1, <1>2, <1>3

\* A character more changes nothing of what comes before it.
LEMMA Appended ==
  ASSUME NEW s \in Seq(NumberChar), NEW c \in NumberChar
  PROVE  LET t == Append(s, c) IN
         /\ t \in Seq(NumberChar) /\ Len(s) \in Nat /\ Len(t) = Len(s) + 1
         /\ t[Len(s) + 1] = c /\ \A i \in 1 .. Len(s) : t[i] = s[i]
OBVIOUS

LEMMA SamePart ==
  ASSUME NEW s, NEW t, NEW n \in Nat, \A i \in 1 .. n : t[i] = s[i],
         NEW m \in Nat \ {0}, NEW k \in Nat, k <= n
  PROVE  /\ AllDigits(t, m, k) <=> AllDigits(s, m, k)
         /\ IsInt(t, m, k) <=> IsInt(s, m, k)
         /\ IsFraction(t, m, k) <=> IsFraction(s, m, k)
<1>1. \A q \in Nat \ {0} : AllDigits(t, q, k) <=> AllDigits(s, q, k)
  BY DEF AllDigits
<1>2. IsInt(t, m, k) <=> IsInt(s, m, k)
  <2>1. CASE m <= k
    BY <1>1, <2>1 DEF IsInt
  <2>2. CASE ~(m <= k)
    BY <2>2 DEF IsInt, AllDigits
  <2> QED
    BY <2>1, <2>2
<1>3. IsFraction(t, m, k) <=> IsFraction(s, m, k)
  <2>1. CASE m <= k
    BY <1>1, <2>1 DEF IsFraction
  <2>2. CASE m > k
    BY <2>2 DEF IsFraction
  <2> QED
    BY <2>1, <2>2
<1> QED
  BY <1>1, <1>2, <1>3

LEMMA Extend ==
  ASSUME NEW s \in Seq(NumberChar), NEW c \in NumberChar,
         NEW i \in {0, 1}, NEW j \in Nat, NEW k \in Nat
  PROVE  /\ j <= Len(s) => (IntegerTo(Append(s, c), i, j) <=> IntegerTo(s, i, j))
         /\ k <= Len(s) => (DecimalTo(Append(s, c), i, j, k) <=> DecimalTo(s, i, j, k))
<1> DEFINE t == Append(s, c)
<1>1. /\ Len(s) \in Nat /\ Len(t) = Len(s) + 1
      /\ \A q \in 1 .. Len(s) : t[q] = s[q]
  BY Appended
<1> HIDE DEF t
<1>2. ASSUME j <= Len(s) PROVE IntegerTo(t, i, j) <=> IntegerTo(s, i, j)
  <2>1. IsInt(t, i + 1, j) <=> IsInt(s, i + 1, j)
    <3>1. i + 1 \in Nat \ {0}
      OBVIOUS
    <3> QED
      BY <1>1, <1>2, <3>1, SamePart
  <2>2. IsInt(s, i + 1, j) => j >= 1
    BY DEF IsInt, AllDigits
  <2>3. j >= 1 => t[1] = s[1] /\ t # <<>> /\ s # <<>>
    BY <1>1, <1>2
  <2> QED
    BY <1>1, <1>2, <2>1, <2>2, <2>3 DEF IntegerTo
<1>3. ASSUME k <= Len(s) PROVE DecimalTo(t, i, j, k) <=> DecimalTo(s, i, j, k)
  <2>1. IsFraction(t, j + 1, k) <=> IsFraction(s, j + 1, k)
    <3>1. j + 1 \in Nat \ {0}
      OBVIOUS
    <3> QED
      BY <1>1, <1>3, <3>1, SamePart
  <2> QED
    BY <1>1, <1>2, <1>3, <2>1 DEF DecimalTo
<1> QED
  BY <1>2, <1>3 DEF t

\* The digits of a part that ends with c.
LEMMA LastDigit ==
  ASSUME NEW s \in Seq(NumberChar), NEW c \in NumberChar, NEW m \in Nat \ {0}
  PROVE  AllDigits(Append(s, c), m, Len(s) + 1) <=>
           /\ c \in Digit
           /\ m = Len(s) + 1 \/ AllDigits(s, m, Len(s))
<1> DEFINE t == Append(s, c)
<1>1. /\ Len(s) \in Nat /\ t[Len(s) + 1] = c
      /\ \A q \in 1 .. Len(s) : t[q] = s[q]
  BY Appended
<1> HIDE DEF t
<1>2. AllDigits(t, m, Len(s)) <=> AllDigits(s, m, Len(s))
  BY <1>1, SamePart
<1>3. ASSUME AllDigits(t, m, Len(s) + 1), m # Len(s) + 1
      PROVE  c \in Digit /\ AllDigits(t, m, Len(s))
  BY <1>1, <1>3 DEF AllDigits
<1>4. ASSUME AllDigits(t, m, Len(s) + 1) PROVE c \in Digit
  BY <1>1, <1>4 DEF AllDigits
<1>5. ASSUME c \in Digit, m = Len(s) + 1 PROVE AllDigits(t, m, Len(s) + 1)
  BY <1>1, <1>5 DEF AllDigits
<1>6. ASSUME c \in Digit, AllDigits(t, m, Len(s)) PROVE AllDigits(t, m, Len(s) + 1)
  <2>1. m <= Len(s) + 1
    BY <1>1, <1>6 DEF AllDigits
  <2>2. ASSUME NEW q \in m .. Len(s) + 1 PROVE t[q] \in Digit
    <3>1. q = Len(s) + 1 \/ q \in m .. Len(s)
      BY <1>1
    <3> QED
      BY <1>1, <1>6, <3>1 DEF AllDigits
  <2> QED
    BY <2>1, <2>2 DEF AllDigits
<1> QED
  BY <1>2, <1>3, <1>4, <1>5, <1>6 DEF t

\* The integer part reaches the end of what was read.
LEMMA IntegerRead ==
  ASSUME NEW s \in Seq(NumberChar), NEW i \in {0, 1}, IntegerTo(s, i, Len(s))
  PROVE  (s[i + 1] = Zero /\ Shape("zero", s)) \/ (s[i + 1] # Zero /\ Shape("any1", s))
BY DEF Shape

\* So does a fraction.
LEMMA DecimalRead ==
  ASSUME NEW s \in Seq(NumberChar), NEW i \in {0, 1}, NEW j \in 0 .. Len(s),
         DecimalTo(s, i, j, Len(s))
  PROVE  Shape("zero", s) \/ Shape("any1", s) \/ Shape("decimal2", s)
<1>1. CASE j = Len(s)
  BY <1>1, IntegerRead DEF DecimalTo
<1>2. CASE j # Len(s)
  <2>1. IntegerTo(s, i, j) /\ j < Len(s) /\ IsFraction(s, j + 1, Len(s))
    BY <1>2 DEF DecimalTo
  <2> QED
    BY <2>1 DEF Shape
<1> QED
  BY <1>1, <1>2

LEMMA ReadDecimal ==
  ASSUME NEW s \in Seq(NumberChar),
         Shape("zero", s) \/ Shape("any1", s) \/ Shape("decimal2", s)
  PROVE  \E i \in {0, 1}, j \in 0 .. Len(s) : DecimalTo(s, i, j, Len(s))
<1>1. Len(s) \in Nat
  OBVIOUS
<1>2. CASE Shape("zero", s) \/ Shape("any1", s)
  <2>1. PICK i \in {0, 1} : IntegerTo(s, i, Len(s))
    BY <1>2 DEF Shape
  <2>2. IsFraction(s, Len(s) + 1, Len(s))
    BY <1>1 DEF IsFraction
  <2>3. DecimalTo(s, i, Len(s), Len(s))
    BY <1>1, <2>1, <2>2 DEF DecimalTo
  <2> QED
    BY <1>1, <2>3
<1>3. CASE Shape("decimal2", s)
  <2>1. PICK i \in {0, 1}, j \in 0 .. Len(s) :
          IntegerTo(s, i, j) /\ j < Len(s) /\ IsFraction(s, j + 1, Len(s))
    BY <1>3 DEF Shape
  <2>2. DecimalTo(s, i, j, Len(s))
    BY <1>1, <2>1 DEF DecimalTo
  <2> QED
    BY <2>2
<1> QED
  BY <1>2, <1>3

LEMMA NumberParts ==
  ASSUME NEW s \in Seq(NumberChar)
  PROVE  IsNumber(s) <=> \E i \in {0, 1}, j, k \in 0 .. Len(s) :
                           DecimalTo(s, i, j, k) /\ IsExponent(s, k + 1, Len(s))
<1>1. \A j, k \in 0 .. Len(s) : k \in j .. Len(s) <=> j <= k /\ k <= Len(s)
  OBVIOUS
<1>2. \A j \in 0 .. Len(s) : j .. Len(s) \subseteq 0 .. Len(s)
  OBVIOUS
<1> QED
  BY <1>1, <1>2 DEF IsNumber, DecimalTo

\* The numbers of JSON are what is read at the labels after which a number may end.
LEMMA NumberRead ==
  ASSUME NEW s \in Seq(NumberChar)
  PROVE  IsNumber(s) <=> \E at \in Enough : Shape(at, s)
<1>1. Len(s) \in Nat
  OBVIOUS
<1>2. ASSUME IsNumber(s) PROVE \E at \in Enough : Shape(at, s)
  <2>1. PICK i \in {0, 1}, j, k \in 0 .. Len(s) :
          DecimalTo(s, i, j, k) /\ IsExponent(s, k + 1, Len(s))
    BY <1>2, NumberParts
  <2>2. CASE k = Len(s)
    BY <2>1, <2>2, DecimalRead DEF Enough
  <2>3. CASE k # Len(s)
    <3>1. k < Len(s)
      BY <1>1, <2>3
    <3>2. Shape("any2", s)
      BY <2>1, <3>1 DEF Shape
    <3> QED
      BY <3>2 DEF Enough
  <2> QED
    BY <2>2, <2>3
<1>3. ASSUME NEW at \in Enough, Shape(at, s) PROVE IsNumber(s)
  <2>1. CASE at = "any2"
    BY <1>3, <2>1, NumberParts DEF Shape
  <2>2. CASE at # "any2"
    <3>1. PICK i \in {0, 1}, j \in 0 .. Len(s) : DecimalTo(s, i, j, Len(s))
      BY <1>3, <2>2, ReadDecimal DEF Enough
    <3>2. IsExponent(s, Len(s) + 1, Len(s))
      BY <1>1 DEF IsExponent
    <3> QED
      BY <1>1, <3>1, <3>2, NumberParts
  <2> QED
    BY <2>1, <2>2
<1> QED
  BY <1>2, <1>3

\* What has been read at a label is what was read at one of those before it, and
\* the character that led on; for each label in turn.
LEMMA ReadMinus ==
  ASSUME NEW s \in Seq(NumberChar), NEW c \in NumberChar
  PROVE  Shape("minus", Append(s, c)) <=> Shape("init", s) /\ c = Minus
<1>1. Len(s) \in Nat /\ Len(Append(s, c)) = Len(s) + 1 /\ Append(s, c)[Len(s) + 1] = c
  OBVIOUS
<1>2. s = <<>> <=> Len(s) = 0
  OBVIOUS
<1> QED
  BY <1>1, <1>2 DEF Shape

LEMMA ReadZero ==
  ASSUME NEW s \in Seq(NumberChar), NEW c \in NumberChar
  PROVE  Shape("zero", Append(s, c)) <=>
           (Shape("init", s) \/ Shape("minus", s)) /\ c = Zero
<1> DEFINE t == Append(s, c)
<1>1. /\ Len(s) \in Nat /\ Len(t) = Len(s) + 1 /\ t[Len(s) + 1] = c
      /\ \A q \in 1 .. Len(s) : t[q] = s[q]
  BY Appended
<1>2. s = <<>> <=> Len(s) = 0
  OBVIOUS
<1>3. t # <<>>
  <2>1. Len(t) # Len(<<>>)
    BY <1>1
  <2> QED
    BY <2>1
<1> HIDE DEF t
<1>4. ASSUME Shape("zero", t) PROVE (Shape("init", s) \/ Shape("minus", s)) /\ c = Zero
  <2>1. PICK i \in {0, 1} : IntegerTo(t, i, Len(t)) /\ t[i + 1] = Zero
    BY <1>4 DEF Shape
  <2>2. i + 1 = Len(t) /\ (i = 1 => t[1] = Minus)
    BY <2>1 DEF IntegerTo, IsInt
  <2>3. Len(s) = i /\ c = Zero
    BY <1>1, <2>1, <2>2
  <2>4. i = 1 => s[1] = Minus
    BY <1>1, <2>2, <2>3
  <2> QED
    BY <1>2, <2>3, <2>4 DEF Shape
<1>5. ASSUME Shape("init", s) \/ Shape("minus", s), c = Zero PROVE Shape("zero", t)
  <2>1. PICK i \in {0, 1} : Len(s) = i /\ (i = 1 => s[1] = Minus)
    BY <1>2, <1>5 DEF Shape
  <2>2. Len(t) = i + 1 /\ t[i + 1] = Zero /\ (i = 1 => t[1] = Minus)
    BY <1>1, <1>5, <2>1
  <2>3. AllDigits(t, i + 1, Len(t))
    BY <2>2, CharsApart DEF AllDigits
  <2>4. IntegerTo(t, i, Len(t))
    BY <1>1, <1>3, <2>2, <2>3 DEF IntegerTo, IsInt
  <2> QED
    BY <2>2, <2>4 DEF Shape
<1> QED
  BY <1>4, <1>5 DEF t

LEMMA ReadAny1 ==
  ASSUME NEW s \in Seq(NumberChar), NEW c \in NumberChar
  PROVE  Shape("any1", Append(s, c)) <=>
           \/ (Shape("init", s) \/ Shape("minus", s)) /\ c \in Digit \ {Zero}
           \/ Shape("any1", s) /\ c \in Digit
<1> DEFINE t == Append(s, c)
<1>1. /\ Len(s) \in Nat /\ Len(t) = Len(s) + 1 /\ t[Len(s) + 1] = c
      /\ \A q \in 1 .. Len(s) : t[q] = s[q]
  BY Appended
<1>2. s = <<>> <=> Len(s) = 0
  OBVIOUS
<1>3. t # <<>>
  <2>1. Len(t) # Len(<<>>)
    BY <1>1
  <2> QED
    BY <2>1
<1>4. \A m \in Nat \ {0} : AllDigits(t, m, Len(t)) <=>
        c \in Digit /\ (m = Len(t) \/ AllDigits(s, m, Len(s)))
  BY <1>1, LastDigit
<1> HIDE DEF t
<1>5. ASSUME Shape("any1", t)
      PROVE  \/ (Shape("init", s) \/ Shape("minus", s)) /\ c \in Digit \ {Zero}
             \/ Shape("any1", s) /\ c \in Digit
  <2>1. PICK i \in {0, 1} : IntegerTo(t, i, Len(t)) /\ t[i + 1] # Zero
    BY <1>5 DEF Shape
  <2>2. AllDigits(t, i + 1, Len(t)) /\ (i = 1 => t[1] = Minus)
    BY <2>1 DEF IntegerTo, IsInt
  <2>3. c \in Digit
    BY <1>4, <2>2
  <2>4. CASE i + 1 = Len(t)
    <3>1. Len(s) = i /\ c # Zero /\ (i = 1 => s[1] = Minus)
      BY <1>1, <2>1, <2>2, <2>4
    <3> QED
      BY <1>2, <2>3, <3>1 DEF Shape
  <2>5. CASE i + 1 # Len(t)
    <3>1. AllDigits(s, i + 1, Len(s))
      BY <1>4, <2>2, <2>5
    <3>2. i + 1 <= Len(s)
      BY <3>1 DEF AllDigits
    <3>3. s[i + 1] # Zero /\ (i = 1 => s[1] = Minus) /\ s # <<>>
      BY <1>1, <1>2, <2>1, <2>2, <3>2
    <3>4. IntegerTo(s, i, Len(s))
      BY <1>1, <3>1, <3>3 DEF IntegerTo, IsInt
    <3> QED
      BY <2>3, <3>3, <3>4 DEF Shape
  <2> QED
    BY <2>4, <2>5
<1>6. ASSUME Shape("init", s) \/ Shape("minus", s), c \in Digit \ {Zero}
      PROVE  Shape("any1", t)
  <2>1. PICK i \in {0, 1} : Len(s) = i /\ (i = 1 => s[1] = Minus)
    BY <1>2, <1>6 DEF Shape
  <2>2. Len(t) = i + 1 /\ t[i + 1] = c /\ (i = 1 => t[1] = Minus)
    BY <1>1, <2>1
  <2>3. AllDigits(t, i + 1, Len(t))
    BY <1>4, <1>6, <2>2
  <2>4. IntegerTo(t, i, Len(t))
    BY <1>1, <1>3, <2>2, <2>3 DEF IntegerTo, IsInt
  <2> QED
    BY <1>6, <2>2, <2>4 DEF Shape
<1>7. ASSUME Shape("any1", s), c \in Digit PROVE Shape("any1", t)
  <2>1. PICK i \in {0, 1} : IntegerTo(s, i, Len(s)) /\ s[i + 1] # Zero
    BY <1>7 DEF Shape
  <2>2. AllDigits(s, i + 1, Len(s)) /\ (i = 1 => s[1] = Minus) /\ i + 1 <= Len(s)
    BY <2>1 DEF IntegerTo, IsInt, AllDigits
  <2>3. AllDigits(t, i + 1, Len(t))
    BY <1>4, <1>7, <2>2
  <2>4. t[i + 1] # Zero /\ (i = 1 => t[1] = Minus)
    BY <1>1, <2>1, <2>2
  <2>5. IntegerTo(t, i, Len(t))
    BY <1>1, <1>3, <2>3, <2>4 DEF IntegerTo, IsInt
  <2> QED
    BY <2>4, <2>5 DEF Shape
<1> QED
  BY <1>5, <1>6, <1>7 DEF t

LEMMA ReadDecimal1 ==
  ASSUME NEW s \in Seq(NumberChar), NEW c \in NumberChar
  PROVE  Shape("decimal1", Append(s, c)) <=>
           (Shape("zero", s) \/ Shape("any1", s)) /\ c = Point
<1> DEFINE t == Append(s, c)
<1>1. /\ Len(s) \in Nat /\ Len(t) = Len(s) + 1 /\ t[Len(s) + 1] = c
  BY Appended
<1>2. \A i \in {0, 1} : IntegerTo(t, i, Len(s)) <=> IntegerTo(s, i, Len(s))
  BY <1>1, Extend
<1> HIDE DEF t
<1>3. ASSUME Shape("decimal1", t) PROVE (Shape("zero", s) \/ Shape("any1", s)) /\ c = Point
  <2>1. PICK i \in {0, 1}, j \in 0 .. Len(t) :
          IntegerTo(t, i, j) /\ Len(t) = j + 1 /\ t[j + 1] = Point
    BY <1>3 DEF Shape
  <2>2. j = Len(s) /\ c = Point
    BY <1>1, <2>1
  <2> QED
    BY <1>2, <2>1, <2>2, IntegerRead
<1>4. ASSUME Shape("zero", s) \/ Shape("any1", s), c = Point PROVE Shape("decimal1", t)
  <2>1. PICK i \in {0, 1} : IntegerTo(s, i, Len(s))
    BY <1>4 DEF Shape
  <2>2. /\ IntegerTo(t, i, Len(s)) /\ Len(t) = Len(s) + 1 /\ t[Len(s) + 1] = Point
        /\ Len(s) \in 0 .. Len(t)
    BY <1>1, <1>2, <1>4, <2>1
  <2> QED
    BY <2>2 DEF Shape
<1> QED
  BY <1>3, <1>4 DEF t

LEMMA ReadDecimal2 ==
  ASSUME NEW s \in Seq(NumberChar), NEW c \in NumberChar
  PROVE  Shape("decimal2", Append(s, c)) <=>
           (Shape("decimal1", s) \/ Shape("decimal2", s)) /\ c \in Digit
<1> DEFINE t == Append(s, c)
<1>1. /\ Len(s) \in Nat /\ Len(t) = Len(s) + 1 /\ t[Len(s) + 1] = c
      /\ \A q \in 1 .. Len(s) : t[q] = s[q]
  BY Appended
<1>2. \A i \in {0, 1}, j \in Nat :
        j <= Len(s) => (IntegerTo(t, i, j) <=> IntegerTo(s, i, j))
  BY Extend
<1>3. \A m \in Nat \ {0} : AllDigits(t, m, Len(t)) <=>
        c \in Digit /\ (m = Len(t) \/ AllDigits(s, m, Len(s)))
  BY <1>1, LastDigit
<1> HIDE DEF t
<1>4. ASSUME Shape("decimal2", t)
      PROVE  (Shape("decimal1", s) \/ Shape("decimal2", s)) /\ c \in Digit
  <2>1. PICK i \in {0, 1}, j \in 0 .. Len(t) :
          IntegerTo(t, i, j) /\ j < Len(t) /\ IsFraction(t, j + 1, Len(t))
    BY <1>4 DEF Shape
  <2>2. j \in 0 .. Len(s) /\ j \in Nat /\ j <= Len(s)
    BY <1>1, <2>1
  <2>3. t[j + 1] = Point /\ AllDigits(t, j + 2, Len(t))
    <3>1. ~(j + 1 > Len(t)) /\ (j + 1) + 1 = j + 2
      BY <1>1, <2>1, <2>2
    <3> QED
      BY <2>1, <3>1 DEF IsFraction
  <2>4. c \in Digit /\ (j + 2 = Len(t) \/ AllDigits(s, j + 2, Len(s)))
    BY <1>3, <2>2, <2>3
  <2>5. j + 2 <= Len(t)
    BY <2>3 DEF AllDigits
  <2>6. IntegerTo(s, i, j)
    BY <1>2, <2>1, <2>2
  <2>7. s[j + 1] = Point
    BY <1>1, <2>2, <2>3, <2>5
  <2>8. CASE j + 2 = Len(t)
    <3>1. Len(s) = j + 1
      BY <1>1, <2>2, <2>8
    <3> QED
      BY <2>2, <2>4, <2>6, <2>7, <3>1 DEF Shape
  <2>9. CASE AllDigits(s, j + 2, Len(s))
    <3>1. j < Len(s) /\ (j + 1) + 1 = j + 2
      BY <1>1, <2>2, <2>9 DEF AllDigits
    <3>2. IsFraction(s, j + 1, Len(s))
      BY <2>7, <2>9, <3>1 DEF IsFraction
    <3> QED
      BY <2>2, <2>4, <2>6, <3>1, <3>2 DEF Shape
  <2> QED
    BY <2>4, <2>8, <2>9
<1>5. ASSUME Shape("decimal1", s) \/ Shape("decimal2", s), c \in Digit
      PROVE  Shape("decimal2", t)
  <2>1. PICK i \in {0, 1}, j \in 0 .. Len(s) :
          /\ IntegerTo(s, i, j) /\ j < Len(s) /\ s[j + 1] = Point
          /\ Len(s) = j + 1 \/ AllDigits(s, j + 2, Len(s))
    <3>1. CASE Shape("decimal1", s)
      <4>1. PICK i \in {0, 1}, j \in 0 .. Len(s) :
              IntegerTo(s, i, j) /\ Len(s) = j + 1 /\ s[j + 1] = Point
        BY <3>1 DEF Shape
      <4>2. j < Len(s)
        BY <1>1, <4>1
      <4> QED
        BY <4>1, <4>2
    <3>2. CASE Shape("decimal2", s)
      <4>1. PICK i \in {0, 1}, j \in 0 .. Len(s) :
              IntegerTo(s, i, j) /\ j < Len(s) /\ IsFraction(s, j + 1, Len(s))
        BY <3>2 DEF Shape
      <4>2. ~(j + 1 > Len(s)) /\ (j + 1) + 1 = j + 2
        BY <1>1, <4>1
      <4> QED
        BY <4>1, <4>2 DEF IsFraction
    <3> QED
      BY <1>5, <3>1, <3>2
  <2>2. /\ j \in Nat /\ j <= Len(s) /\ j \in 0 .. Len(t) /\ j < Len(t)
        /\ (j + 1) + 1 = j + 2 /\ j + 1 \in 1 .. Len(s)
    BY <1>1, <2>1
  <2>3. AllDigits(t, j + 2, Len(t))
    <3>1. Len(s) = j + 1 => j + 2 = Len(t)
      BY <1>1, <2>2
    <3>2. j + 2 \in Nat \ {0}
      BY <2>2
    <3> QED
      BY <1>3, <1>5, <2>1, <3>1, <3>2
  <2>4. t[j + 1] = Point /\ IntegerTo(t, i, j)
    BY <1>1, <1>2, <2>1, <2>2
  <2>5. IsFraction(t, j + 1, Len(t))
    BY <2>2, <2>3, <2>4 DEF IsFraction
  <2> QED
    BY <2>2, <2>4, <2>5 DEF Shape
<1> QED
  BY <1>4, <1>5 DEF t

LEMMA ReadExponent ==
  ASSUME NEW s \in Seq(NumberChar), NEW c \in NumberChar
  PROVE  Shape("exponent", Append(s, c)) <=>
           /\ Shape("zero", s) \/ Shape("any1", s) \/ Shape("decimal2", s)
           /\ c = Exp
<1> DEFINE t == Append(s, c)
<1>1. /\ Len(s) \in Nat /\ Len(t) = Len(s) + 1 /\ t[Len(s) + 1] = c
  BY Appended
<1>2. \A i \in {0, 1}, j \in Nat : DecimalTo(t, i, j, Len(s)) <=> DecimalTo(s, i, j, Len(s))
  BY <1>1, Extend
<1> HIDE DEF t
<1>3. ASSUME Shape("exponent", t)
      PROVE  /\ Shape("zero", s) \/ Shape("any1", s) \/ Shape("decimal2", s)
             /\ c = Exp
  <2>1. PICK i \in {0, 1}, j \in 0 .. Len(t), k \in 0 .. Len(t) :
          DecimalTo(t, i, j, k) /\ Len(t) = k + 1 /\ t[k + 1] = Exp
    BY <1>3 DEF Shape
  <2>2. k = Len(s) /\ c = Exp /\ j <= k
    BY <1>1, <2>1 DEF DecimalTo
  <2>3. j \in 0 .. Len(s) /\ j \in Nat
    BY <1>1, <2>1, <2>2
  <2> QED
    BY <1>2, <2>1, <2>2, <2>3, DecimalRead
<1>4. ASSUME Shape("zero", s) \/ Shape("any1", s) \/ Shape("decimal2", s), c = Exp
      PROVE  Shape("exponent", t)
  <2>1. PICK i \in {0, 1}, j \in 0 .. Len(s) : DecimalTo(s, i, j, Len(s))
    BY <1>4, ReadDecimal
  <2>2. /\ DecimalTo(t, i, j, Len(s)) /\ Len(t) = Len(s) + 1 /\ t[Len(s) + 1] = Exp
        /\ j \in 0 .. Len(t) /\ Len(s) \in 0 .. Len(t)
    BY <1>1, <1>2, <1>4, <2>1
  <2> QED
    BY <2>2 DEF Shape
<1> QED
  BY <1>3, <1>4 DEF t

LEMMA ReadSign ==
  ASSUME NEW s \in Seq(NumberChar), NEW c \in NumberChar
  PROVE  Shape("sign", Append(s, c)) <=> Shape("exponent", s) /\ c \in {Plus, Minus}
<1> DEFINE t == Append(s, c)
<1>1. /\ Len(s) \in Nat /\ Len(t) = Len(s) + 1 /\ t[Len(s) + 1] = c
      /\ \A q \in 1 .. Len(s) : t[q] = s[q]
  BY Appended
<1>2. \A i \in {0, 1}, j, k \in Nat :
        k <= Len(s) => (DecimalTo(t, i, j, k) <=> DecimalTo(s, i, j, k))
  BY Extend
<1> HIDE DEF t
<1>3. ASSUME Shape("sign", t) PROVE Shape("exponent", s) /\ c \in {Plus, Minus}
  <2>1. PICK i \in {0, 1}, j \in 0 .. Len(t), k \in 0 .. Len(t) :
          /\ DecimalTo(t, i, j, k) /\ Len(t) = k + 2
          /\ t[k + 1] = Exp /\ t[k + 2] \in {Plus, Minus}
    BY <1>3 DEF Shape
  <2>2. Len(s) = k + 1 /\ k \in 0 .. Len(s) /\ k \in Nat /\ k <= Len(s) /\ j <= k
    BY <1>1, <2>1 DEF DecimalTo
  <2>3. j \in 0 .. Len(s) /\ j \in Nat
    BY <1>1, <2>1, <2>2
  <2>4. s[k + 1] = Exp /\ c \in {Plus, Minus}
    BY <1>1, <2>1, <2>2
  <2>5. DecimalTo(s, i, j, k)
    BY <1>2, <2>1, <2>2, <2>3
  <2> QED
    BY <2>2, <2>3, <2>4, <2>5 DEF Shape
<1>4. ASSUME Shape("exponent", s), c \in {Plus, Minus} PROVE Shape("sign", t)
  <2>1. PICK i \in {0, 1}, j \in 0 .. Len(s), k \in 0 .. Len(s) :
          DecimalTo(s, i, j, k) /\ Len(s) = k + 1 /\ s[k + 1] = Exp
    BY <1>4 DEF Shape
  <2>2. /\ j \in 0 .. Len(t) /\ k \in 0 .. Len(t) /\ j \in Nat /\ k \in Nat
        /\ k <= Len(s) /\ Len(t) = k + 2
    BY <1>1, <2>1
  <2>3. t[k + 1] = Exp /\ t[k + 2] \in {Plus, Minus}
    BY <1>1, <1>4, <2>1
  <2>4. DecimalTo(t, i, j, k)
    BY <1>2, <2>1, <2>2
  <2> QED
    BY <2>2, <2>3, <2>4 DEF Shape
<1> QED
  BY <1>3, <1>4 DEF t

LEMMA ReadAny2 ==
  ASSUME NEW s \in Seq(NumberChar), NEW c \in NumberChar
  PROVE  Shape("any2", Append(s, c)) <=>
           /\ Shape("exponent", s) \/ Shape("sign", s) \/ Shape("any2", s)
           /\ c \in Digit
<1> DEFINE t == Append(s, c)
<1>1. /\ Len(s) \in Nat /\ Len(t) = Len(s) + 1 /\ t[Len(s) + 1] = c
      /\ \A q \in 1 .. Len(s) : t[q] = s[q]
  BY Appended
<1>2. \A i \in {0, 1}, j, k \in Nat :
        k <= Len(s) => (DecimalTo(t, i, j, k) <=> DecimalTo(s, i, j, k))
  BY Extend
<1>3. \A m \in Nat \ {0} : AllDigits(t, m, Len(t)) <=>
        c \in Digit /\ (m = Len(t) \/ AllDigits(s, m, Len(s)))
  BY <1>1, LastDigit
<1> HIDE DEF t
<1>4. ASSUME Shape("any2", t)
      PROVE  /\ Shape("exponent", s) \/ Shape("sign", s) \/ Shape("any2", s)
             /\ c \in Digit
  <2>1. PICK i \in {0, 1}, j \in 0 .. Len(t), k \in 0 .. Len(t) :
          DecimalTo(t, i, j, k) /\ k < Len(t) /\ IsExponent(t, k + 1, Len(t))
    BY <1>4 DEF Shape
  <2>2. k \in 0 .. Len(s) /\ k \in Nat /\ k <= Len(s) /\ j <= k
    BY <1>1, <2>1 DEF DecimalTo
  <2>3. j \in 0 .. Len(s) /\ j \in Nat
    BY <1>1, <2>1, <2>2
  <2>4. DecimalTo(s, i, j, k)
    BY <1>2, <2>1, <2>2, <2>3
  <2>5. /\ t[k + 1] = Exp
        /\ \/ AllDigits(t, k + 2, Len(t))
           \/ AllDigits(t, k + 3, Len(t)) /\ t[k + 2] \in {Plus, Minus}
    <3>1. ~(k + 1 > Len(t)) /\ (k + 1) + 1 = k + 2 /\ (k + 1) + 2 = k + 3
      BY <1>1, <2>1, <2>2
    <3> QED
      BY <2>1, <3>1 DEF IsExponent
  <2>6. CASE AllDigits(t, k + 2, Len(t))
    <3>1. c \in Digit /\ (k + 2 = Len(t) \/ AllDigits(s, k + 2, Len(s)))
      BY <1>3, <2>2, <2>6
    <3>2. k + 2 <= Len(t)
      BY <2>6 DEF AllDigits
    <3>3. s[k + 1] = Exp /\ k < Len(s)
      BY <1>1, <2>2, <2>5, <3>2
    <3>4. CASE k + 2 = Len(t)
      <4>1. Len(s) = k + 1
        BY <1>1, <2>2, <3>4
      <4> QED
        BY <2>2, <2>3, <2>4, <3>1, <3>3, <4>1 DEF Shape
    <3>5. CASE AllDigits(s, k + 2, Len(s))
      <4>1. (k + 1) + 1 = k + 2
        BY <2>2
      <4>2. IsExponent(s, k + 1, Len(s))
        BY <3>3, <3>5, <4>1 DEF IsExponent
      <4> QED
        BY <2>2, <2>3, <2>4, <3>1, <3>3, <4>2 DEF Shape
    <3> QED
      BY <3>1, <3>4, <3>5
  <2>7. CASE AllDigits(t, k + 3, Len(t)) /\ t[k + 2] \in {Plus, Minus}
    <3>1. c \in Digit /\ (k + 3 = Len(t) \/ AllDigits(s, k + 3, Len(s)))
      BY <1>3, <2>2, <2>7
    <3>2. k + 3 <= Len(t)
      BY <2>7 DEF AllDigits
    <3>3. s[k + 1] = Exp /\ s[k + 2] \in {Plus, Minus} /\ k < Len(s)
      BY <1>1, <2>2, <2>5, <2>7, <3>2
    <3>4. CASE k + 3 = Len(t)
      <4>1. Len(s) = k + 2
        BY <1>1, <2>2, <3>4
      <4> QED
        BY <2>2, <2>3, <2>4, <3>1, <3>3, <4>1 DEF Shape
    <3>5. CASE AllDigits(s, k + 3, Len(s))
      <4>1. (k + 1) + 1 = k + 2 /\ (k + 1) + 2 = k + 3
        BY <2>2
      <4>2. IsExponent(s, k + 1, Len(s))
        BY <3>3, <3>5, <4>1 DEF IsExponent
      <4> QED
        BY <2>2, <2>3, <2>4, <3>1, <3>3, <4>2 DEF Shape
    <3> QED
      BY <3>1, <3>4, <3>5
  <2> QED
    BY <2>5, <2>6, <2>7
<1>5. ASSUME Shape("exponent", s) \/ Shape("sign", s) \/ Shape("any2", s), c \in Digit
      PROVE  Shape("any2", t)
  <2>1. PICK i \in {0, 1}, j \in 0 .. Len(s), k \in 0 .. Len(s) :
          /\ DecimalTo(s, i, j, k) /\ k < Len(s) /\ s[k + 1] = Exp
          /\ \/ Len(s) = k + 1 \/ AllDigits(s, k + 2, Len(s))
             \/ /\ s[k + 2] \in {Plus, Minus} /\ k + 2 <= Len(s)
                /\ Len(s) = k + 2 \/ AllDigits(s, k + 3, Len(s))
    <3>1. CASE Shape("exponent", s)
      <4>1. PICK i \in {0, 1}, j \in 0 .. Len(s), k \in 0 .. Len(s) :
              DecimalTo(s, i, j, k) /\ Len(s) = k + 1 /\ s[k + 1] = Exp
        BY <3>1 DEF Shape
      <4>2. k < Len(s)
        BY <1>1, <4>1
      <4> QED
        BY <4>1, <4>2
    <3>2. CASE Shape("sign", s)
      <4>1. PICK i \in {0, 1}, j \in 0 .. Len(s), k \in 0 .. Len(s) :
              /\ DecimalTo(s, i, j, k) /\ Len(s) = k + 2
              /\ s[k + 1] = Exp /\ s[k + 2] \in {Plus, Minus}
        BY <3>2 DEF Shape
      <4>2. k < Len(s) /\ k + 2 <= Len(s)
        BY <1>1, <4>1
      <4> QED
        BY <4>1, <4>2
    <3>3. CASE Shape("any2", s)
      <4>1. PICK i \in {0, 1}, j \in 0 .. Len(s), k \in 0 .. Len(s) :
              DecimalTo(s, i, j, k) /\ k < Len(s) /\ IsExponent(s, k + 1, Len(s))
        BY <3>3 DEF Shape
      <4>2. ~(k + 1 > Len(s)) /\ (k + 1) + 1 = k + 2 /\ (k + 1) + 2 = k + 3
        BY <1>1, <4>1
      <4>3. /\ s[k + 1] = Exp
            /\ \/ AllDigits(s, k + 2, Len(s))
               \/ AllDigits(s, k + 3, Len(s)) /\ s[k + 2] \in {Plus, Minus}
        BY <4>1, <4>2 DEF IsExponent
      <4>4. AllDigits(s, k + 3, Len(s)) => k + 2 <= Len(s)
        BY <1>1, <4>1 DEF AllDigits
      <4> QED
        BY <4>1, <4>3, <4>4
    <3> QED
      BY <1>5, <3>1, <3>2, <3>3
  <2>2. /\ j \in Nat /\ k \in Nat /\ k <= Len(s) /\ j \in 0 .. Len(t) /\ k \in 0 .. Len(t)
        /\ k < Len(t) /\ k + 1 \in 1 .. Len(s)
        /\ (k + 1) + 1 = k + 2 /\ (k + 1) + 2 = k + 3
        /\ k + 2 \in Nat \ {0} /\ k + 3 \in Nat \ {0}
    BY <1>1, <2>1
  <2>3. t[k + 1] = Exp /\ DecimalTo(t, i, j, k)
    BY <1>1, <1>2, <2>1, <2>2
  <2>4. CASE Len(s) = k + 1 \/ AllDigits(s, k + 2, Len(s))
    <3>1. Len(s) = k + 1 => k + 2 = Len(t)
      BY <1>1, <2>2
    <3>2. AllDigits(t, k + 2, Len(t))
      BY <1>3, <1>5, <2>2, <2>4, <3>1
    <3>3. IsExponent(t, k + 1, Len(t))
      BY <2>2, <2>3, <3>2 DEF IsExponent
    <3> QED
      BY <2>2, <2>3, <3>3 DEF Shape
  <2>5. CASE /\ s[k + 2] \in {Plus, Minus} /\ k + 2 <= Len(s)
             /\ Len(s) = k + 2 \/ AllDigits(s, k + 3, Len(s))
    <3>1. Len(s) = k + 2 => k + 3 = Len(t)
      BY <1>1, <2>2
    <3>2. AllDigits(t, k + 3, Len(t))
      BY <1>3, <1>5, <2>2, <2>5, <3>1
    <3>3. t[k + 2] \in {Plus, Minus}
      BY <1>1, <2>2, <2>5
    <3>4. IsExponent(t, k + 1, Len(t))
      BY <2>2, <2>3, <3>2, <3>3 DEF IsExponent
    <3> QED
      BY <2>2, <2>3, <3>4 DEF Shape
  <2> QED
    BY <2>1, <2>4, <2>5
<1> QED
  BY <1>4, <1>5 DEF t

\* Scanning and JSON agree on what comes after each label.
LEMMA ReadStep ==
  ASSUME NEW s \in Seq(NumberChar), NEW c \in NumberChar, NEW to \in Labels
  PROVE  Shape(to, Append(s, c)) <=>
           \E at \in Labels : Shape(at, s) /\ Label(at, c) = to
<1> DEFINE Before(to_, at) ==
      \/ to_ = "minus" /\ at = "init" /\ c = Minus
      \/ to_ = "zero" /\ at \in {"init", "minus"} /\ c = Zero
      \/ to_ = "any1" /\ at \in {"init", "minus"} /\ c \in Digit \ {Zero}
      \/ to_ = "any1" /\ at = "any1" /\ c \in Digit
      \/ to_ = "decimal1" /\ at \in {"zero", "any1"} /\ c = Point
      \/ to_ = "decimal2" /\ at \in {"decimal1", "decimal2"} /\ c \in Digit
      \/ to_ = "exponent" /\ at \in {"zero", "any1", "decimal2"} /\ c = Exp
      \/ to_ = "sign" /\ at = "exponent" /\ c \in {Plus, Minus}
      \/ to_ = "any2" /\ at \in {"exponent", "sign", "any2"} /\ c \in Digit
<1>1. \A at \in Labels : Label(at, c) = to <=> Before(to, at)
  BY Transition
<1>2. Shape(to, Append(s, c)) <=> \E at \in Labels : Shape(at, s) /\ Before(to, at)
  <2>1. CASE to = "init"
    <3>1. Append(s, c) # <<>>
      <4>1. Len(Append(s, c)) # Len(<<>>)
        OBVIOUS
      <4> QED
        BY <4>1
    <3> QED
      BY <2>1, <3>1 DEF Shape
  <2>2. CASE to = "minus"
    BY <2>2, ReadMinus DEF Labels
  <2>3. CASE to = "zero"
    BY <2>3, ReadZero DEF Labels
  <2>4. CASE to = "any1"
    BY <2>4, ReadAny1 DEF Labels
  <2>5. CASE to = "decimal1"
    BY <2>5, ReadDecimal1 DEF Labels
  <2>6. CASE to = "decimal2"
    BY <2>6, ReadDecimal2 DEF Labels
  <2>7. CASE to = "exponent"
    BY <2>7, ReadExponent DEF Labels
  <2>8. CASE to = "sign"
    BY <2>8, ReadSign DEF Labels
  <2>9. CASE to = "any2"
    BY <2>9, ReadAny2 DEF Labels
  <2> QED
    BY <2>1, <2>2, <2>3, <2>4, <2>5, <2>6, <2>7, <2>8, <2>9 DEF Labels
<1> HIDE DEF Before
<1> QED
  BY <1>1, <1>2

\* A text is read at one label only.
LEMMA OneLabel ==
  \A s \in Seq(NumberChar), at, bt \in Labels : Shape(at, s) /\ Shape(bt, s) => at = bt
<1> DEFINE One(s) == \A at, bt \in Labels : Shape(at, s) /\ Shape(bt, s) => at = bt
           T == {n \in Nat : \A s \in Seq(NumberChar) : Len(s) = n => One(s)}
<1>1. 0 \in T
  <2>1. ASSUME NEW s \in Seq(NumberChar), Len(s) = 0, NEW at \in Labels, Shape(at, s)
        PROVE  at = "init"
    <3>1. \A i \in {0, 1}, j \in Nat : ~IntegerTo(s, i, j)
      BY <2>1 DEF IntegerTo, IsInt, AllDigits
    <3>2. \A i \in {0, 1}, j, k \in Nat : ~DecimalTo(s, i, j, k)
      BY <3>1 DEF DecimalTo
    <3>3. Len(s) \in Nat /\ \A j \in 0 .. Len(s) : j \in Nat
      OBVIOUS
    <3> QED
      BY <2>1, <3>1, <3>2, <3>3 DEF Shape
  <2> QED
    BY <2>1
<1>2. ASSUME NEW n \in Nat, n \in T PROVE n + 1 \in T
  <2> SUFFICES ASSUME NEW t \in Seq(NumberChar), Len(t) = n + 1 PROVE One(t)
    OBVIOUS
  <2>1. PICK s \in Seq(NumberChar), c \in NumberChar : t = Append(s, c)
    <3> DEFINE u == [i \in 1 .. n |-> t[i]]
               e == t[n + 1]
    <3>1. u \in Seq(NumberChar) /\ Len(u) = n /\ e \in NumberChar
      OBVIOUS
    <3>2. \A i \in 1 .. n : u[i] = t[i]
      OBVIOUS
    <3> HIDE DEF u
    <3>3. /\ Append(u, e) \in Seq(NumberChar) /\ Len(Append(u, e)) = n + 1
          /\ \A i \in 1 .. n + 1 : Append(u, e)[i] = t[i]
      BY <3>1, <3>2
    <3>4. Append(u, e) = t
      BY <3>3, SeqEqual
    <3> QED
      BY <3>1, <3>4
  <2>2. One(s)
    <3>1. Len(s) = n
      BY <2>1
    <3> HIDE DEF One
    <3> QED
      BY <1>2, <3>1
  <2>3. ASSUME NEW at \in Labels, NEW bt \in Labels, Shape(at, t), Shape(bt, t)
        PROVE  at = bt
    <3>1. PICK a \in Labels : Shape(a, s) /\ Label(a, c) = at
      BY <2>1, <2>3, ReadStep
    <3>2. PICK b \in Labels : Shape(b, s) /\ Label(b, c) = bt
      BY <2>1, <2>3, ReadStep
    <3> QED
      BY <2>2, <3>1, <3>2
  <2> QED
    BY <2>3
<1>3. Nat \subseteq T
  <2> HIDE DEF T
  <2> QED
    BY <1>1, <1>2, Induction
<1>4. ASSUME NEW s \in Seq(NumberChar) PROVE One(s)
  <2>1. Len(s) \in T
    BY <1>3
  <2> HIDE DEF One
  <2> QED
    BY <2>1
<1> QED
  BY <1>4

-----------------------------------------------------------------------------
(* What a run of scan_number keeps.                                        *)

\* The text that was read fits the label, and a scan that has ended had or had
\* not come to a label after which a number may end.
ReadOK ==
  /\ number.token \in Seq(NumberChar)
  /\ \E at \in Labels :
       /\ Shape(at, number.token)
       /\ Scanning => number.at = at
       /\ number.at = "done" => at \in Enough
       /\ number.at = "error" => at \notin Enough

\* The type tells an integer with a minus from one without and from a float.
IntegerType(token, type) ==
  type = IF token[1] = Minus THEN "integer" ELSE "unsigned"

TypeKept ==
  /\ number.at = "init" => number.type = "unsigned"
  /\ number.at = "minus" => number.type = "integer"
  /\ number.at \in {"zero", "any1"} => IntegerType(number.token, number.type)
  /\ number.at \in {"decimal1", "decimal2", "exponent", "sign", "any2"} =>
       number.type = "float"
  /\ number.at = "done" /\ number.type # "float" =>
       /\ Shape("zero", number.token) \/ Shape("any1", number.token)
       /\ IntegerType(number.token, number.type)

NumberInv ==
  /\ number = [at |-> number.at, type |-> number.type, token |-> number.token]
  /\ number.at \in Labels \cup {"done", "error"}
  /\ ReadOK /\ TypeKept

\* scan_number ends where no label comes next, with a number or an error.
LEMMA Ends ==
  ASSUME NEW at \in Labels, NEW c \in NumberChar, Label(at, c) \notin Labels
  PROVE  Label(at, c) = Stop(at)
<1> USE CharsApart DEF Labels, Stop, Enough, MoreDigits
<1>1. CASE at \in {"decimal1", "decimal2"}
  <2>1. Label(at, c) = InFraction(at, c)
    BY <1>1 DEF Label
  <2> QED
    BY <1>1, <2>1 DEF InFraction
<1>2. CASE at \in {"exponent", "sign", "any2"}
  <2>1. Label(at, c) = InExponent(at, c)
    BY <1>2 DEF Label
  <2> QED
    BY <1>2, <2>1 DEF InExponent
<1>3. CASE at \in {"init", "minus", "zero", "any1"}
  <2>1. Label(at, c) = InInteger(at, c)
    BY <1>3 DEF Label
  <2> QED
    BY <1>3, <2>1 DEF InInteger
<1> QED
  BY <1>1, <1>2, <1>3

LEMMA StopLabel ==
  ASSUME NEW at \in Labels
  PROVE  /\ Stop(at) = "done" <=> at \in Enough
         /\ Stop(at) = "error" <=> at \notin Enough
         /\ Stop(at) \notin Labels /\ "done" \notin Labels /\ "error" \notin Labels
BY DEF Stop, Labels, Enough

\* A row of digits that stays open for more can be completed by one.
LEMMA Completed ==
  ASSUME NEW s \in Seq(NumberChar), NEW at \in Labels, Shape(at, s), s # <<>>
  PROVE  Viable(s)
<1>1. CASE at \in Enough
  BY <1>1, NumberRead DEF Viable
<1>2. CASE at \notin Enough
  <2>1. at \in {"minus", "decimal1", "exponent", "sign"}
    BY <1>2 DEF Enough, Labels, Shape
  <2>2. PICK to \in Enough : Label(at, Zero) = to /\ to \in Labels
    <3>1. Zero \in Digit /\ Zero \in NumberChar
      BY CharsApart
    <3> DEFINE to == IF at = "minus" THEN "zero" ELSE IF at = "decimal1" THEN "decimal2" ELSE "any2"
    <3>2. to \in Enough /\ to \in Labels
      BY DEF Enough, Labels
    <3>3. Label(at, Zero) = to
      BY <2>1, <3>1, <3>2, Transition
    <3> QED
      BY <3>2, <3>3
  <2>3. Zero \in NumberChar /\ Append(s, Zero) \in Seq(NumberChar)
    BY CharsApart
  <2>4. Shape(to, Append(s, Zero))
    BY <2>2, <2>3, ReadStep
  <2> QED
    BY <2>2, <2>3, <2>4, NumberRead DEF Viable
<1> QED
  BY <1>1, <1>2

\* Where scan_number stops, no number goes on.
LEMMA NotCompleted ==
  ASSUME NEW s \in Seq(NumberChar), NEW at \in Labels, Shape(at, s),
         NEW c \in NumberChar, Label(at, c) \notin Labels
  PROVE  ~Viable(Append(s, c))
<1> DEFINE t == Append(s, c)
<1>1. t \in Seq(NumberChar) /\ Zero \in NumberChar /\ Append(t, Zero) \in Seq(NumberChar)
  BY CharsApart
<1>2. \A to \in Labels : ~Shape(to, t)
  BY ReadStep, OneLabel
<1>3. \A to \in Labels : ~Shape(to, Append(t, Zero))
  <2> HIDE DEF t
  <2> QED
    BY <1>1, <1>2, ReadStep
<1>4. Enough \subseteq Labels
  BY DEF Enough, Labels
<1> HIDE DEF t
<1>5. ~IsNumber(t) /\ ~IsNumber(Append(t, Zero))
  BY <1>1, <1>2, <1>3, <1>4, NumberRead
<1> QED
  BY <1>5 DEF Viable, t

LEMMA NumberStep ==
  NumberInv /\ [NumberNext]_number => NumberInv'
<1> SUFFICES ASSUME NumberInv, [NumberNext]_number PROVE NumberInv'
  OBVIOUS
<1>1. CASE UNCHANGED number
  BY <1>1 DEF NumberInv, ReadOK, TypeKept, Scanning
<1>2. CASE NumberNext
  <2> DEFINE s == number.token
             at == number.at
  <2>1. PICK c \in NumberChar :
          /\ Scanning
          /\ number' = [at |-> Label(at, c), type |-> NumberType(Label(at, c), number.type),
                        token |-> IF Label(at, c) \in {"done", "error"} THEN s ELSE Append(s, c)]
    BY <1>2 DEF NumberNext
  <2>2. s \in Seq(NumberChar) /\ at \in Labels /\ Shape(at, s)
    BY <2>1 DEF NumberInv, ReadOK, Scanning
  <2>3. CASE Label(at, c) \in Labels
    <3> DEFINE to == Label(at, c)
    <3>1. /\ number'.at = to /\ number'.type = NumberType(to, number.type)
          /\ number'.token = Append(s, c)
          /\ number' = [at |-> number'.at, type |-> number'.type, token |-> number'.token]
      BY <2>1, <2>3, StopLabel
    <3>2. Shape(to, Append(s, c)) /\ Append(s, c) \in Seq(NumberChar)
      BY <2>2, <2>3, ReadStep
    <3>3. ReadOK'
      BY <2>3, <3>1, <3>2, StopLabel DEF ReadOK
    <3>4. TypeKept'
      <4> HIDE DEF to
      <4>1. CASE to = "minus"
        BY <3>1, <4>1 DEF TypeKept, NumberType
      <4>2. CASE to \in {"decimal1", "exponent"}
        BY <3>1, <4>2 DEF TypeKept, NumberType
      <4>3. CASE to \in {"decimal2", "sign", "any2"}
        <5>1. at \in {"decimal1", "decimal2", "exponent", "sign", "any2"}
          BY <2>2, <2>3, <4>3, Transition DEF to
        <5>2. number.type = "float"
          BY <5>1 DEF NumberInv, TypeKept
        <5> QED
          BY <3>1, <4>3, <5>2 DEF TypeKept, NumberType
      <4>4. CASE to \in {"zero", "any1"}
        <5>1. \/ at \in {"init", "minus"} /\ c \in Digit
              \/ at = "any1"
          BY <2>2, <2>3, <4>4, Transition, CharsApart DEF to
        <5>2. number'.type = number.type
          BY <3>1, <4>4 DEF NumberType
        <5>3. IntegerType(Append(s, c), number.type)
          <6>1. CASE at = "init" /\ c \in Digit
            <7>1. s = <<>> /\ number.type = "unsigned"
              BY <2>2, <6>1 DEF NumberInv, TypeKept, Shape
            <7>2. Append(s, c)[1] = c /\ c # Minus
              BY <6>1, <7>1, CharsApart
            <7> QED
              BY <7>1, <7>2 DEF IntegerType
          <6>2. CASE at = "minus"
            <7>1. Len(s) = 1 /\ s[1] = Minus /\ number.type = "integer"
              BY <2>2, <6>2 DEF NumberInv, TypeKept, Shape
            <7>2. Append(s, c)[1] = Minus
              BY <2>2, <7>1, Appended
            <7> QED
              BY <7>1, <7>2 DEF IntegerType
          <6>3. CASE at = "any1"
            <7>1. IntegerType(s, number.type)
              BY <6>3 DEF NumberInv, TypeKept
            <7>2. PICK i \in {0, 1} : IntegerTo(s, i, Len(s))
              BY <2>2, <6>3 DEF Shape
            <7>3. Len(s) >= 1
              BY <2>2, <7>2 DEF IntegerTo, IsInt, AllDigits
            <7>4. Append(s, c)[1] = s[1]
              BY <2>2, <7>3, Appended
            <7> QED
              BY <7>1, <7>4 DEF IntegerType
          <6> QED
            BY <5>1, <6>1, <6>2, <6>3
        <5> QED
          BY <3>1, <4>4, <5>2, <5>3 DEF TypeKept
      <4>5. to # "init"
        BY <2>2, <2>3, Transition DEF to
      <4> QED
        BY <2>3, <4>1, <4>2, <4>3, <4>4, <4>5 DEF Labels, to
    <3> QED
      BY <2>3, <3>1, <3>3, <3>4 DEF NumberInv
  <2>4. CASE Label(at, c) \notin Labels
    <3>1. Label(at, c) = Stop(at) /\ Stop(at) \in {"done", "error"}
      BY <2>2, <2>4, Ends DEF Stop
    <3>2. /\ number'.at = Stop(at) /\ number'.token = s /\ number'.type = number.type
          /\ number' = [at |-> number'.at, type |-> number'.type, token |-> number'.token]
      BY <2>1, <3>1 DEF NumberType
    <3>3. ReadOK'
      BY <2>2, <3>1, <3>2, StopLabel DEF ReadOK, Scanning
    <3>4. TypeKept'
      <4>1. ASSUME Stop(at) = "done", number.type # "float"
            PROVE  at \in {"zero", "any1"} /\ IntegerType(s, number.type)
        <5>1. at \in Enough
          BY <2>2, <4>1, StopLabel
        <5>2. at \in {"zero", "any1"}
          BY <4>1, <5>1 DEF Enough, NumberInv, TypeKept
        <5> QED
          BY <5>2 DEF NumberInv, TypeKept
      <4>2. Stop(at) \in {"done", "error"}
        BY <3>1
      <4> QED
        BY <2>2, <3>2, <4>1, <4>2 DEF TypeKept
    <3> QED
      BY <3>1, <3>2, <3>3, <3>4 DEF NumberInv
  <2> QED
    BY <2>3, <2>4
<1> QED
  BY <1>1, <1>2

LEMMA NumberStart == NumberInit => NumberInv
<1> SUFFICES ASSUME NumberInit PROVE NumberInv
  OBVIOUS
<1>1. number.at = "init" /\ number.type = "unsigned" /\ number.token = <<>>
  BY DEF NumberInit
<1>2. Shape("init", <<>>) /\ "init" \in Labels
  BY DEF Shape, Labels
<1> QED
  BY <1>1, <1>2 DEF NumberInit, NumberInv, ReadOK, TypeKept, Scanning

\* What is read and the type that is kept with it, for a number of any length.
THEOREM NumberInvariance == NumberSpec => []NumberInv
BY NumberStart, NumberStep, PTL DEF NumberSpec

LEMMA JsonTaken == NumberInv => NumbersOfJson
<1> SUFFICES ASSUME NumberInv PROVE NumbersOfJson
  OBVIOUS
<1> DEFINE s == number.token
<1>1. PICK at \in Labels :
        /\ Shape(at, s) /\ (Scanning => number.at = at)
        /\ number.at = "done" => at \in Enough
        /\ number.at = "error" => at \notin Enough
  BY DEF NumberInv, ReadOK
<1>2. s \in Seq(NumberChar)
  BY DEF NumberInv, ReadOK
<1>3. IsNumber(s) <=> at \in Enough
  <2>1. Enough \subseteq Labels
    BY DEF Enough, Labels
  <2> QED
    BY <1>1, <1>2, <2>1, NumberRead, OneLabel
<1>4. number.at \in Enough \cup {"done"} <=> at \in Enough
  BY <1>1 DEF Scanning, Enough
<1>5. ASSUME Scanning, NEW c \in NumberChar
      PROVE  Label(number.at, c) \in {"done", "error"} <=> ~Viable(Append(s, c))
  <2>1. number.at = at
    BY <1>1, <1>5
  <2>2. CASE Label(at, c) \in Labels
    <3>1. Append(s, c) \in Seq(NumberChar) /\ Append(s, c) # <<>>
      BY <1>2, Appended
    <3>2. Shape(Label(at, c), Append(s, c))
      BY <1>1, <1>2, <2>2, ReadStep
    <3>3. Viable(Append(s, c))
      BY <2>2, <3>1, <3>2, Completed
    <3> QED
      BY <2>1, <2>2, <3>3, StopLabel
  <2>3. CASE Label(at, c) \notin Labels
    <3>1. Label(at, c) \in {"done", "error"}
      BY <2>3, Ends DEF Stop
    <3>2. ~Viable(Append(s, c))
      BY <1>1, <1>2, <2>3, NotCompleted
    <3> QED
      BY <2>1, <3>1, <3>2
  <2> QED
    BY <2>2, <2>3
<1> QED
  BY <1>3, <1>4, <1>5 DEF NumbersOfJson

\* A value below the sign bit is its own absolute value in the unsigned type.
LEMMA SmallModulo ==
  ASSUME NEW a \in Nat, NEW b \in Nat \ {0}, a < b PROVE a % b = a
OBVIOUS

LEMMA RelayedUnsigned ==
  ASSUME NEW s \in Seq(Digit), s # <<>>, s[1] = Zero => Len(s) = 1
  PROVE  dump_integer(Magnitude(s)) = s
<1> DEFINE x == Magnitude(s)
<1>1. x \in Nat /\ Write(x) = s /\ count_digits[x] = Len(s)
  BY Rewritten
<1> HIDE DEF x
<1>2. ~(x < 0) /\ AbsValue(x) = x
  BY <1>1 DEF AbsValue
<1>3. Len(s) \in Nat /\ s = [i \in 1 .. Len(s) |-> s[i]]
  OBVIOUS
<1>4. dump_integer(x) =
        [i \in 1 .. 0 + Len(s) |->
           IF i > (0 + Len(s)) - Len(s) THEN s[i - ((0 + Len(s)) - Len(s))]
           ELSE IF i <= 0 THEN Minus ELSE 0]
  BY <1>1, <1>2 DEF dump_integer
<1>5. dump_integer(x) = [i \in 1 .. Len(s) |-> s[i]]
  BY <1>3, <1>4
<1> QED
  BY <1>3, <1>5 DEF x

LEMMA RelayedInteger ==
  ASSUME NEW s \in Seq(Digit), s # <<>>, s[1] = Zero => Len(s) = 1, s # <<Zero>>,
         -Magnitude(s) >= -SignBit
  PROVE  dump_integer(-Magnitude(s)) =
           [i \in 1 .. Len(s) + 1 |-> IF i = 1 THEN Minus ELSE s[i - 1]]
<1> DEFINE m == Magnitude(s)
           x == -m
<1>1. m \in Nat /\ Write(m) = s /\ count_digits[m] = Len(s) /\ m # 0
  BY Rewritten
<1> HIDE DEF m
<1>2. SignBit \in Nat \ {0} /\ 2 * SignBit \in Nat \ {0} /\ m < 2 * SignBit
  BY <1>1, NumberAssumption DEF m
<1>3. x < 0 /\ -x = m
  BY <1>1
<1>4. m % (2 * SignBit) = m
  BY <1>1, <1>2, SmallModulo
<1> HIDE DEF x
<1>5. AbsValue(x) = m
  BY <1>3, <1>4 DEF AbsValue
<1>6. Len(s) \in Nat
  OBVIOUS
<1>7. dump_integer(x) =
        [i \in 1 .. 1 + Len(s) |->
           IF i > (1 + Len(s)) - Len(s) THEN s[i - ((1 + Len(s)) - Len(s))]
           ELSE IF i <= 1 THEN Minus ELSE 0]
  BY <1>1, <1>3, <1>5 DEF dump_integer
<1>8. dump_integer(x) = [i \in 1 .. Len(s) + 1 |-> IF i = 1 THEN Minus ELSE s[i - 1]]
  BY <1>6, <1>7
<1> QED
  BY <1>8 DEF x, m

LEMMA IntegerRelayed == NumberInv => NumberRelayed
<1> DEFINE s == number.token
           digits == Digits(s)
<1> SUFFICES ASSUME NumberInv, number.at = "done", Fits(number), digits # <<Zero>>
             PROVE  dump_integer(Converted(s)) = s
  BY DEF NumberRelayed
<1>1. s \in Seq(NumberChar) /\ IntegerType(s, number.type)
      /\ (Shape("zero", s) \/ Shape("any1", s))
  BY DEF NumberInv, ReadOK, TypeKept, Fits
<1>2. PICK i \in {0, 1} : IntegerTo(s, i, Len(s))
  BY <1>1 DEF Shape
<1>3. /\ Len(s) \in Nat /\ i + 1 <= Len(s) /\ (i = 1 => s[1] = Minus)
      /\ \A q \in i + 1 .. Len(s) : s[q] \in Digit
      /\ s[i + 1] = Zero => i + 1 = Len(s)
  BY <1>1, <1>2 DEF IntegerTo, IsInt, AllDigits
<1>4. Head(s) = s[1] /\ s # <<>>
  BY <1>1, <1>3
<1>5. CASE i = 0
  <2>1. s[1] # Minus
    BY <1>3, <1>5, CharsApart
  <2>2. ~Negative(s) /\ Converted(s) = Magnitude(s)
    BY <1>4, <2>1 DEF Negative, Converted
  <2>3. s \in Seq(Digit)
    BY <1>1, <1>3, <1>5
  <2>4. s[1] = Zero => Len(s) = 1
    BY <1>3, <1>5
  <2> QED
    BY <1>4, <2>2, <2>3, <2>4, RelayedUnsigned
<1>6. CASE i = 1
  <2>1. s[1] = Minus /\ number.type = "integer"
    BY <1>1, <1>3, <1>6 DEF IntegerType
  <2>2. Negative(s) /\ digits = Tail(s) /\ Converted(s) = -Magnitude(Tail(s))
    BY <1>4, <2>1 DEF Negative, Converted, Digits
  <2> DEFINE u == Tail(s)
  <2>3. /\ Len(u) = Len(s) - 1 /\ Len(u) >= 1
        /\ \A q \in 1 .. Len(u) : u[q] = s[q + 1]
    BY <1>1, <1>3, <1>4, <1>6
  <2>4. u \in Seq(Digit)
    <3>1. u \in Seq(NumberChar)
      BY <1>1, <1>4
    <3>2. \A q \in 1 .. Len(u) : q + 1 \in 2 .. Len(s)
      BY <1>3, <2>3
    <3>3. \A q \in 1 .. Len(u) : u[q] \in Digit
      BY <1>3, <1>6, <2>3, <3>2
    <3> HIDE DEF u
    <3> QED
      BY <3>1, <3>3
  <2>5. u # <<>> /\ (u[1] = Zero => Len(u) = 1) /\ u # <<Zero>>
    <3>1. Len(u) # Len(<<>>) /\ 1 \in 1 .. Len(u)
      BY <1>3, <2>3
    <3>2. u[1] = s[2]
      BY <2>3, <3>1
    <3>3. u[1] = Zero => Len(u) = 1
      BY <1>3, <1>6, <2>3, <3>2
    <3> QED
      BY <2>2, <3>1, <3>3
  <2>6. -Magnitude(u) >= -SignBit
    BY <2>1, <2>2 DEF Fits
  <2>7. dump_integer(-Magnitude(u)) =
          [q \in 1 .. Len(u) + 1 |-> IF q = 1 THEN Minus ELSE u[q - 1]]
    <3> HIDE DEF u
    <3> QED
      BY <2>4, <2>5, <2>6, RelayedInteger
  <2>8. s = [q \in 1 .. Len(s) |-> s[q]]
    BY <1>1
  <2>9. [q \in 1 .. Len(u) + 1 |-> IF q = 1 THEN Minus ELSE u[q - 1]] = [q \in 1 .. Len(s) |-> s[q]]
    <3>1. 1 .. Len(u) + 1 = 1 .. Len(s)
      BY <1>3, <2>3
    <3>2. ASSUME NEW q \in 1 .. Len(s)
          PROVE  (IF q = 1 THEN Minus ELSE u[q - 1]) = s[q]
      <4>1. q # 1 => q - 1 \in 1 .. Len(u) /\ (q - 1) + 1 = q
        BY <1>3, <2>3
      <4> HIDE DEF u
      <4> QED
        BY <2>1, <2>3, <4>1
    <3> HIDE DEF u
    <3> QED
      BY <3>1, <3>2
  <2> QED
    BY <2>2, <2>7, <2>8, <2>9
<1> QED
  BY <1>5, <1>6

\* scan_number takes the numbers of JSON, of any length, and nothing else, and stops
\* where none goes on; what dump_integer writes of an integer in range is what was read.
THEOREM NumbersAreKept == NumberSpec => []NumbersKept
<1>1. NumberInv => NumbersKept
  BY JsonTaken, IntegerRelayed DEF NumbersKept
<1> QED
  BY <1>1, NumberInvariance, PTL

=============================================================================
