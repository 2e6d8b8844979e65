------------------------------ MODULE JsonFloat ------------------------------
(***************************************************************************)
(* The text that dump() writes for a float, and that parse() reads again:  *)
(* dump_float, to_chars and the Grisu2 algorithm of dtoa_impl, digit by    *)
(* digit.  The widths are constants, since the 64 bits of a diyfp and the  *)
(* 53 of a double are beyond TLC's integers.                               *)
(***************************************************************************)
EXTENDS Integers, Sequences, SequencesExt

CONSTANTS
  kPrecision,      \* the bits q of the significand of a diyfp, 64 in the code
  Precision,       \* digits of FloatType: the bits p of its significand, 53
  MaxExponent,     \* max_exponent of FloatType, 1024
  kAlpha, kGamma,  \* the range of the exponent of a product, -60 and -32
  kCachedPowersMinDecExp, kCachedPowersDecStep, kCachedPowersSize,  \* -300, 8, 79
  Float            \* the values dumped: [neg, E, F], the fields of IEEE 754

HiddenBit == 2 ^ (Precision - 1)
Infinite == (2 * MaxExponent) - 1  \* E of the infinities and of NaN

FloatAssumption ==
  /\ kPrecision \in Nat /\ kPrecision % 2 = 0
  /\ Precision \in Nat \ {0} /\ kPrecision >= Precision + 3  \* static_assert in grisu2
  /\ kAlpha >= 4 - kPrecision /\ kGamma < 0
  /\ MaxExponent \in Nat \ {0} /\ kCachedPowersDecStep \in Nat \ {0}
  /\ kCachedPowersMinDecExp \in Int /\ kCachedPowersSize \in Nat
  /\ Float \subseteq [neg : BOOLEAN, E : 0 .. Infinite, F : 0 .. HiddenBit - 1]

VARIABLES
  value,  \* the float dump_float was called with
  at,     \* the loop or the call to come
  gen,    \* the variables of grisu2_digit_gen and grisu2_round
  text    \* what was written
vars == <<value, at, gen, text>>

\* The character set of numbers and scan_number, to read the text again.
Scanner == INSTANCE JsonNumber WITH
  Digit <- \h30 .. \h39, SignBit <- 2 ^ (kPrecision - 1), MaxChars <- 0, number <- gen

Zero == Scanner!Zero
Point == Scanner!Point
Char(d) == Zero + d
Zeros(n) == [i \in 1 .. n |-> Zero]
Number(digits) == FoldLeft(LAMBDA v, d : (10 * v) + d, 0, digits)

-----------------------------------------------------------------------------
(* diyfp: f * 2^e, with f of kPrecision bits.                              *)

diyfp(f, e) == [f |-> f, e |-> e]
sub(x, y) == diyfp(x.f - y.f, x.e)

\* The upper half of the product, rounded, from four products of half words.
mul(x, y) ==
  LET half == 2 ^ (kPrecision \div 2)
      lo(u) == u % half
      hi(u) == u \div half
      p0 == lo(x.f) * lo(y.f)
      p1 == lo(x.f) * hi(y.f)
      p2 == hi(x.f) * lo(y.f)
      p3 == hi(x.f) * hi(y.f)
      carry == hi(p0) + lo(p1) + lo(p2) + (half \div 2)
  IN  diyfp(p3 + hi(p2) + hi(p1) + hi(carry), x.e + y.e + kPrecision)

normalize(x) ==
  LET s == CHOOSE n \in 0 .. kPrecision - 1 :
             x.f * (2 ^ n) \in 2 ^ (kPrecision - 1) .. (2 ^ kPrecision) - 1
  IN  diyfp(x.f * (2 ^ s), x.e - s)

normalize_to(x, target) == diyfp(x.f * (2 ^ (x.e - target)), target)

\* A positive value, and half way to the value below and to the one above.
\* Mutant: the value below a power of two is as far as the one above.
kBias == MaxExponent - 1 + (Precision - 1)
Decoded(x) ==
  IF x.E = 0 THEN diyfp(x.F, 1 - kBias) ELSE diyfp(x.F + HiddenBit, x.E - kBias)
LowerIsFar(x) == FALSE
lower_boundary_is_closer(x) == x.F = 0 /\ x.E > 1
m_plus(v) == diyfp((2 * v.f) + 1, v.e - 1)
m_minus(x, v) ==
  IF lower_boundary_is_closer(x) THEN diyfp((4 * v.f) - 1, v.e - 2)
  ELSE diyfp((2 * v.f) - 1, v.e - 1)

compute_boundaries(x) ==
  LET v == Decoded(x)
      plus == normalize(m_plus(v))
  IN  [w |-> normalize(v), minus |-> normalize_to(m_minus(x, v), plus.e), plus |-> plus]

-----------------------------------------------------------------------------
(* The cached powers of ten.                                               *)

\* The entry of the table for 10^k: the nearest normalized diyfp.
BitLength(n) == CHOOSE b \in 1 .. 31 : 2 ^ (b - 1) <= n /\ n < 2 ^ b
CachedPower(k) ==
  IF k >= 0
  THEN LET e == BitLength(10 ^ k) - kPrecision IN
       diyfp(IF e <= 0 THEN (10 ^ k) * (2 ^ (-e))
             ELSE (((10 ^ k) \div (2 ^ (e - 1))) + 1) \div 2, e)
  ELSE LET d == 10 ^ (-k)
           t == BitLength(d) IN
       diyfp((((2 ^ (t + kPrecision)) \div d) + 1) \div 2, 1 - t - kPrecision)

\* Division of C.
Quotient(a, b) == IF a < 0 THEN -((-a) \div b) ELSE a \div b

\* The least k of the table with 10^k large enough.  Mutant: the one below.
CachedIndexBelow(e) ==
  LET f == kAlpha - e - 1
      k == Quotient(f * 78913, 2 ^ 18) + (IF f > 0 THEN 1 ELSE 0)
  IN  Quotient(k - kCachedPowersMinDecExp, kCachedPowersDecStep)
CachedIndex(e) ==
  LET f == kAlpha - e - 1
      k == Quotient(f * 78913, 2 ^ 18) + (IF f > 0 THEN 1 ELSE 0)
  IN  Quotient(k - kCachedPowersMinDecExp + (kCachedPowersDecStep - 1), kCachedPowersDecStep)

CachedExponent(e) == kCachedPowersMinDecExp + (CachedIndex(e) * kCachedPowersDecStep)
get_cached_power_for_binary_exponent(e) == CachedPower(CachedExponent(e))

-----------------------------------------------------------------------------
(* grisu2 and grisu2_digit_gen.                                            *)

\* What grisu2_digit_gen starts from.  one is 2^-e, the unit of the integral part.
find_largest_pow10(n) ==
  CHOOSE k \in 1 .. 10 : n < 10 ^ k /\ (k > 1 => 10 ^ (k - 1) <= n)
StartDigits(M_minus, w, M_plus) ==
  LET one == 2 ^ (-M_plus.e)
      k == find_largest_pow10(M_plus.f \div one)
  IN  [buf |-> <<>>, e |-> M_plus.e, M_plus |-> M_plus.f, one |-> one,
       delta |-> sub(M_plus, M_minus).f, dist |-> sub(M_plus, w).f,
       p1 |-> M_plus.f \div one, p2 |-> M_plus.f % one, n |-> k, pow10 |-> 10 ^ (k - 1),
       m |-> 0, rest |-> 0, ten |-> 0]

\* The products with the cached power, the bounds moved in by one unit.
grisu2(x) ==
  LET b == compute_boundaries(x)
      c == get_cached_power_for_binary_exponent(b.plus.e)
      w_minus == mul(b.minus, c)
      w_plus == mul(b.plus, c)
  IN  [decimal_exponent |-> -CachedExponent(b.plus.e)]
        @@ StartDigits(diyfp(w_minus.f + 1, w_minus.e), mul(b.w, c), diyfp(w_plus.f - 1, w_plus.e))

\* V may be taken for the digits so far.  Mutant: not at the very bound.
StrictlyIn(rest, delta) == rest < delta
Enough(rest, delta) == rest <= delta

\* What is left below the digits.  Mutant: the fraction is forgotten.
Integral(r) == r * gen.one
Rest(r) == (r * gen.one) + gen.p2

\* The first loop: a digit of the integral part.
IntegralDigit ==
  LET r == gen.p1 % gen.pow10
      rest == Rest(r)
      left == gen.n - 1
      next == [gen EXCEPT !.buf = Append(@, gen.p1 \div gen.pow10), !.p1 = r, !.n = left]
  IN
  /\ at = "integral"
  /\ IF Enough(rest, gen.delta)
     THEN /\ at' = "round"
          /\ gen' = [next EXCEPT !.decimal_exponent = @ + left, !.rest = rest,
                                 !.ten = gen.pow10 * gen.one]
     ELSE /\ at' = IF left = 0 THEN "fraction" ELSE "integral"
          /\ gen' = [next EXCEPT !.pow10 = @ \div 10]
  /\ UNCHANGED <<value, text>>

\* The second loop: a digit of the fraction, the unit made ten times smaller.
FractionDigit ==
  LET p2 == 10 * gen.p2
      r == p2 % gen.one
      next == [gen EXCEPT !.buf = Append(@, p2 \div gen.one), !.p2 = r, !.m = @ + 1,
                          !.delta = 10 * @, !.dist = 10 * @]
  IN
  /\ at = "fraction"
  /\ IF Enough(r, next.delta)
     THEN /\ at' = "round"
          /\ gen' = [next EXCEPT !.decimal_exponent = @ - next.m, !.rest = r, !.ten = gen.one]
     ELSE at' = at /\ gen' = next
  /\ UNCHANGED <<value, text>>

\* grisu2_round: the last digit one less brings V closer to w.  Mutant: only
\* while V stays above w.
Above(g) == g.rest < g.dist /\ g.delta - g.rest >= g.ten /\ g.rest + g.ten < g.dist
Closer(g) ==
  /\ g.rest < g.dist
  /\ g.delta - g.rest >= g.ten
  /\ g.rest + g.ten < g.dist \/ g.dist - g.rest > g.rest + g.ten - g.dist

Round ==
  /\ at = "round"
  /\ IF Closer(gen)
     THEN /\ gen' = [gen EXCEPT !.buf[Len(gen.buf)] = @ - 1, !.rest = @ + gen.ten]
          /\ at' = at
     ELSE at' = "format" /\ gen' = gen
  /\ UNCHANGED <<value, text>>

-----------------------------------------------------------------------------
(* format_buffer and to_chars.                                             *)

max_digits10 == 1 + CHOOSE n \in 1 .. 9 : 10 ^ n > 2 ^ Precision /\ 10 ^ (n - 1) <= 2 ^ Precision
digits10 == CHOOSE n \in 0 .. 9 : 10 ^ n <= HiddenBit /\ HiddenBit < 10 ^ (n + 1)
kMinExp == -4
kMaxExp == digits10

append_exponent(e) ==
  LET k == IF e < 0 THEN -e ELSE e IN
  <<IF e < 0 THEN Scanner!Minus ELSE Scanner!Plus>>
    \o (IF k < 100 THEN <<>> ELSE <<Char(k \div 100)>>)
    \o <<Char((k % 100) \div 10), Char(k % 10)>>

\* An integer in fixed-point notation.  Mutant: without the fraction (#362).
Bare(digits, n) == digits \o Zeros(n - Len(digits))
Whole(digits, n) == digits \o Zeros(n - Len(digits)) \o <<Point, Zero>>

format_buffer(digits, decimal_exponent) ==
  LET k == Len(digits)
      n == k + decimal_exponent
  IN  CASE k <= n /\ n <= kMaxExp -> Whole(digits, n)
        [] 0 < n /\ n < k /\ n <= kMaxExp ->
             SubSeq(digits, 1, n) \o <<Point>> \o SubSeq(digits, n + 1, k)
        [] kMinExp < n /\ n <= 0 -> <<Zero, Point>> \o Zeros(-n) \o digits
        [] OTHER ->
             SubSeq(digits, 1, 1) \o (IF k = 1 THEN <<>> ELSE <<Point>> \o Tail(digits))
               \o <<Scanner!Exp>> \o append_exponent(n - 1)

Sign == IF value.neg THEN <<Scanner!Minus>> ELSE <<>>

Format ==
  /\ at = "format"
  /\ text' = Sign \o format_buffer([i \in DOMAIN gen.buf |-> Char(gen.buf[i])],
                                   gen.decimal_exponent)
  /\ at' = "done"
  /\ UNCHANGED <<value, gen>>

Init ==
  /\ value \in Float
  /\ at = "dump_float"
  /\ gen = <<>>
  /\ text = <<>>

\* dump_float and to_chars up to the call of grisu2.
IsFinite == value.E # Infinite
Null == <<"null">>
DumpSpecial ==
  /\ at = "dump_float"
  /\ \/ ~IsFinite /\ text' = Null
     \/ value.E = 0 /\ value.F = 0 /\ text' = Sign \o <<Zero, Point, Zero>>
  /\ at' = "done"
  /\ UNCHANGED <<value, gen>>

StartGrisu ==
  /\ at = "dump_float" /\ IsFinite /\ <<value.E, value.F>> # <<0, 0>>
  /\ gen' = grisu2(value)
  /\ at' = "integral"
  /\ UNCHANGED <<value, text>>

Next == DumpSpecial \/ StartGrisu \/ IntegralDigit \/ FractionDigit \/ Round \/ Format

Spec == Init /\ [][Next]_vars

-----------------------------------------------------------------------------
(* What the text stands for, and the value a number is nearest to.         *)

\* d * 10^k < m * 2^j, in integers that stay small when the two are close.
Pos(x) == IF x > 0 THEN x ELSE 0
Below(d, k, m, j) ==
  d * (5 ^ Pos(k)) * (2 ^ Pos(k - j)) < m * (5 ^ Pos(-k)) * (2 ^ Pos(j - k))
Above10(d, k, m, j) ==
  d * (5 ^ Pos(k)) * (2 ^ Pos(k - j)) > m * (5 ^ Pos(-k)) * (2 ^ Pos(j - k))

\* The number d * 10^k is read as the positive value x by any correct strtod.
NearestTo(d, k, x) ==
  LET v == Decoded(x)
      below == m_plus(v)
      closer == x.F = 0 /\ x.E > 1
      above == IF closer THEN diyfp((4 * v.f) - 1, v.e - 2) ELSE diyfp((2 * v.f) - 1, v.e - 1)
  IN  Below(d, k, below.f, below.e) /\ Above10(d, k, above.f, above.e)

\* strtod: sign, digits and exponent of a text that scan_number took.
IsDigitChar(c) == c \in \h30 .. \h39
ExpAt(s) ==
  IF Scanner!Exp \in Range(s) THEN CHOOSE i \in DOMAIN s : s[i] = Scanner!Exp ELSE Len(s) + 1
PointAt(s) ==
  IF Point \in Range(s) THEN CHOOSE i \in DOMAIN s : s[i] = Point ELSE ExpAt(s) - 1
Plain(s) == Number([i \in DOMAIN SelectSeq(s, IsDigitChar) |-> SelectSeq(s, IsDigitChar)[i] - Zero])
WrittenExponent(s) ==
  LET e == SubSeq(s, ExpAt(s) + 1, Len(s)) IN
  IF e = <<>> THEN 0 ELSE IF Head(e) = Scanner!Minus THEN -Plain(e) ELSE Plain(e)
Significand(s) == Plain(SubSeq(s, 1, ExpAt(s) - 1))
ReadExponent(s) == WrittenExponent(s) - (ExpAt(s) - 1 - PointAt(s))

\* scan_number over the text: the last label and the type.
ScanText(s) ==
  FoldLeft(LAMBDA r, c : LET to == Scanner!Label(r.at, c) IN
                         [at |-> to, type |-> Scanner!NumberType(to, r.type)],
           [at |-> "init", type |-> "unsigned"], s)

-----------------------------------------------------------------------------
(* Properties.                                                             *)

\* The text of a float is read as the same float: between the points half way to
\* its neighbours, whatever the products and the powers of ten were rounded to.
\* scan_number takes the whole text for one number, and for a float: no float of a
\* payload comes back as an integer.
SameFloat ==
  LET k == ReadExponent(text) IN
  /\ (Head(text) = Scanner!Minus) = value.neg
  /\ IF value.E = 0 /\ value.F = 0 THEN Significand(text) = 0
     ELSE NearestTo(Significand(text), k, value)
StaysFloat == LET r == ScanText(text) IN r.at \in Scanner!Enough /\ r.type = "float"
FloatRoundTrip == at = "done" /\ IsFinite => SameFloat /\ StaysFloat

\* The assertions of dtoa_impl hold for every value: the cached power is in the
\* table and puts the product in range, no register overflows, no digit is
\* decremented below zero, and the digits fit max_digits10.
AssertsHold ==
  /\ at # "dump_float" /\ gen # <<>> =>
       /\ gen.e \in kAlpha .. kGamma
       /\ CachedIndex(compute_boundaries(value).plus.e) \in 0 .. kCachedPowersSize - 1
       /\ gen.dist <= gen.delta
       /\ \A i \in DOMAIN gen.buf : gen.buf[i] \in 0 .. 9
       /\ Len(gen.buf) <= max_digits10
  /\ at = "integral" /\ gen.buf = <<>> => gen.p1 > 0
  /\ at = "fraction" => gen.p2 > gen.delta /\ 10 * gen.p2 < 2 ^ kPrecision
  /\ at = "round" => /\ gen.rest <= gen.delta
                     /\ gen.ten > 0
                     /\ Closer(gen) => gen.buf[Len(gen.buf)] # 0

\* Nothing is lost on the way: the digits so far and what is left of the registers
\* are M+ at every turn of the three loops.
Generated ==
  LET v == Number(gen.buf) IN
  /\ at = "integral" =>
       gen.M_plus = (((v * (10 ^ gen.n)) + gen.p1) * gen.one) + gen.p2
  /\ at = "fraction" => gen.M_plus * (10 ^ gen.m) = (v * gen.one) + gen.p2
  /\ at \in {"round", "format"} => gen.M_plus * (10 ^ gen.m) = (v * gen.ten) + gen.rest

\* No number with a digit less lies in [M-, M+], the bounds included.
Shortest ==
  at = "round" => (gen.M_plus * (10 ^ gen.m)) % (10 * gen.ten) > gen.delta

\* No number with as many digits in [M-, M+] is closer to w than the one chosen.
Distance(x) == IF x < 0 THEN -x ELSE x
Closest ==
  at = "format" => \A rest \in {gen.rest - gen.ten, gen.rest + gen.ten} :
    rest \in 0 .. gen.delta => Distance(rest - gen.dist) >= Distance(gen.rest - gen.dist)

\* The digits are the best there are, and come out of registers that hold them.
DigitsBest == AssertsHold /\ Generated /\ Shortest /\ Closest

=============================================================================
