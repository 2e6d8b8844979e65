----------------------------- MODULE JsonNumber -----------------------------
(***************************************************************************)
(* Numbers in json.hpp: scan_number and its conversion, by which the two   *)
(* parse() read a payload, and dump_integer, by which from_json writes it. *)
(* The text of a float is another one after dump(): JsonFloat.            *)
(***************************************************************************)
EXTENDS Integers, Sequences, SequencesExt

CONSTANTS
  Digit,    \* the digits that occur
  SignBit,  \* the value of the upper bit of an integer, 2 ^ 63 in the code
  MaxChars  \* bound: the length of a number

Plus == \h2B
Minus == \h2D
Point == \h2E
Zero == \h30
Exp == \h65   \* e or E
Other == \h20 \* any other character, or the end
NumberChar == Digit \cup {Plus, Minus, Point, Exp, Other}

ASSUME NumberAssumption ==
  /\ Digit \subseteq Zero .. \h39 /\ Zero \in Digit
  /\ SignBit \in Nat \ {0} /\ MaxChars \in Nat

VARIABLE number  \* scan_number: the label at, number_type, token_buffer

NumberInit == number = [at |-> "init", type |-> "unsigned", token |-> <<>>]

-----------------------------------------------------------------------------
(* scan_number.                                                            *)

\* A number may end after these labels.
Enough == {"zero", "any1", "decimal2", "any2"}
Stop(at) == IF at \in Enough THEN "done" ELSE "error"

\* The labels at which the integer part goes on.  Mutant: zeros may lead.
ZeroToo == {"zero", "any1"}
MoreDigits == {"any1"}

\* The label after character c, in each part of a number.
InInteger(at, c) ==
  CASE at = "init" /\ c = Minus -> "minus"
    [] at \in {"init", "minus"} /\ c = Zero -> "zero"
    [] at \in {"init", "minus"} /\ c \in Digit \ {Zero} -> "any1"
    [] at \in MoreDigits /\ c \in Digit -> "any1"
    [] at \in {"zero", "any1"} /\ c = Point -> "decimal1"
    [] at \in {"zero", "any1"} /\ c = Exp -> "exponent"
    [] OTHER -> Stop(at)

InFraction(at, c) ==
  CASE c \in Digit -> "decimal2"
    [] at = "decimal2" /\ c = Exp -> "exponent"
    [] OTHER -> Stop(at)

InExponent(at, c) ==
  CASE at = "exponent" /\ c \in {Plus, Minus} -> "sign"
    [] c \in Digit -> "any2"
    [] OTHER -> Stop(at)

Label(at, c) ==
  CASE at \in {"decimal1", "decimal2"} -> InFraction(at, c)
    [] at \in {"exponent", "sign", "any2"} -> InExponent(at, c)
    [] OTHER -> InInteger(at, c)

NumberType(at, type) ==
  CASE at = "minus" -> "integer"
    [] at \in {"decimal1", "exponent"} -> "float"
    [] OTHER -> type

Scanning == number.at \notin {"done", "error"}

\* scan() calls scan_number for a minus and for digits; done leaves character c
\* to the next token.
NumberNext ==
  \E c \in NumberChar :
    LET to == Label(number.at, c) IN
    /\ Scanning
    /\ number.at = "init" => c \in Digit \cup {Minus}
    /\ to \in {"done", "error"} \/ Len(number.token) < MaxChars
    /\ number' = [at |-> to,
                  type |-> NumberType(to, number.type),
                  token |-> IF to \in {"done", "error"} THEN number.token
                            ELSE Append(number.token, c)]

NumberSpec == NumberInit /\ [][NumberNext]_number

\* What strtoull or strtoll makes of the token.
Negative(token) == Head(token) = Minus
Digits(token) == IF Negative(token) THEN Tail(token) ELSE token
Magnitude(digits) ==
  LET value[n \in 0 .. Len(digits)] ==
        IF n = 0 THEN 0 ELSE (10 * value[n - 1]) + (digits[n] - Zero)
  IN  value[Len(digits)]
Converted(token) ==
  IF Negative(token) THEN -Magnitude(Digits(token)) ELSE Magnitude(token)

\* The type of the value: a float if the integer is out of range.
Fits(n) ==
  \/ n.type = "unsigned" /\ Converted(n.token) < 2 * SignBit
  \/ n.type = "integer" /\ Converted(n.token) >= -SignBit

-----------------------------------------------------------------------------
(* dump_integer.                                                           *)

count_digits[x \in Nat] ==
  IF x < 10 THEN 1 ELSE IF x < 100 THEN 2 ELSE IF x < 1000 THEN 3
  ELSE IF x < 10000 THEN 4 ELSE 4 + count_digits[x \div 10000]

\* The characters written from the end of the buffer: pairs from digits_to_99,
\* then one pair or one digit.
TwoDigits(x) == <<Zero + (x \div 10), Zero + (x % 10)>>
Write(abs) ==
  LET write[x \in Nat] ==
        IF x >= 100 THEN write[x \div 100] \o TwoDigits(x % 100)
        ELSE IF x >= 10 THEN TwoDigits(x) ELSE <<Zero + x>>
  IN  write[abs]

\* std::abs overflows for the least integer, which the build leaves as it is.
AbsValue(x) == IF x < 0 THEN (-x) % (2 * SignBit) ELSE x

\* The first n_chars of the buffer; Write ends there, whatever it has not
\* reached is NUL.
dump_integer(x) ==
  LET written == Write(AbsValue(x))
      sign == IF x < 0 THEN 1 ELSE 0
      n_chars == sign + count_digits[AbsValue(x)]
      unwritten == n_chars - Len(written) IN
  [i \in 1 .. n_chars |->
     IF i > unwritten THEN written[i - unwritten] ELSE IF i <= sign THEN Minus ELSE 0]

-----------------------------------------------------------------------------
(* What JSON says.                                                         *)

\* The part of s from its m-th character to its n-th.
AllDigits(s, m, n) == m <= n /\ \A i \in m .. n : s[i] \in Digit
IsInt(s, m, n) == AllDigits(s, m, n) /\ (s[m] = Zero => m = n)
IsFraction(s, m, n) == m > n \/ (s[m] = Point /\ AllDigits(s, m + 1, n))
IsExponent(s, m, n) ==
  \/ m > n
  \/ /\ s[m] = Exp
     /\ \/ AllDigits(s, m + 1, n)
        \/ AllDigits(s, m + 2, n) /\ s[m + 1] \in {Plus, Minus}

\* An integer part that ends at j, after a minus or not.
IntegerTo(s, i, j) ==
  /\ i \in {0, 1} /\ (i = 1 => s # <<>> /\ s[1] = Minus)
  /\ j <= Len(s) /\ IsInt(s, i + 1, j)

IsNumber(s) ==
  \E i \in {0, 1}, j \in 0 .. Len(s) :
    /\ IntegerTo(s, i, j)
    /\ \E k \in j .. Len(s) : IsFraction(s, j + 1, k) /\ IsExponent(s, k + 1, Len(s))

-----------------------------------------------------------------------------
(* Properties.                                                             *)

\* scan_number takes the numbers of JSON and no others, each to its end: it stops
\* just where no number goes on.
Viable(s) == IsNumber(s) \/ IsNumber(Append(s, Zero))
NumbersOfJson ==
  /\ number.at \in Enough \cup {"done"} <=> IsNumber(number.token)
  /\ Scanning => \A c \in NumberChar :
       Label(number.at, c) \in {"done", "error"} <=> ~Viable(Append(number.token, c))

\* An integer of 64 bits comes out of dump() as it went into parse(): no digit
\* and no bit is lost, at either end of the range.  Only the sign of -0 is.
NumberRelayed ==
  number.at = "done" /\ Fits(number) /\ Digits(number.token) # <<Zero>> =>
    dump_integer(Converted(number.token)) = number.token

\* Both: a number of JSON is taken, and nothing else is, and an integer comes out again.
NumbersKept == NumbersOfJson /\ NumberRelayed

=============================================================================
