----------------------------- MODULE JsonString -----------------------------
(***************************************************************************)
(* A string on its way through a message (json.hpp): scan_string reads it  *)
(* when on_message parses the frame, dump_escaped writes it again when     *)
(* from_json dumps the payload, and invokeCallbacks has scan_string read   *)
(* what was written.                                                       *)
(*                                                                         *)
(* The first scan takes the text byte by byte.  Each byte it stores is     *)
(* handed on to dump_escaped, and what that writes to the second scan, in  *)
(* the same step: what these two do depends only on the bytes before.      *)
(***************************************************************************)
EXTENDS Naturals

CONSTANTS
  Byte,      \* bytes of the text
  CodeUnit,  \* values of the four hex digits of a \u escape
  Buffer     \* bytes of string_buffer: 512

ASSUME StringAssumption ==
  /\ Byte \subseteq 0 .. 255
  /\ \A u \in CodeUnit : u \in Nat /\ u < 65536
  /\ Buffer \in Nat /\ Buffer >= 13

VARIABLES
  scan,    \* how the first scan stands: "open", "closed" or "rejected"
  ahead,   \* the bytes it still expects in this character
  dump,    \* dump_escaped: state, codepoint, bytes (in the buffer); and the
           \* second scan: again
  meant    \* history: the code point the text has named, or NoCode

scanVars == <<scan, ahead, dump, meant>>

NoCode == \h110000

-----------------------------------------------------------------------------
(* scan_string on unescaped bytes.                                         *)

\* The bytes to come: the range of the next one and their number.  A range
\* after the first is always 80..BF.  Boundary: between characters; Bad: the
\* scan has failed.
Boundary == <<0, 0, 0>>
Bad == <<1, 0, 0>>

Unescaped == (\h20 .. \h7F) \ {\h22, \h5C}

\* The ranges that each first byte asks for.  Mutant: the surrogates ED A0..BF
\* are let in.
FollowAll(b) ==
  IF b = \hED THEN <<\h80, \hBF, 2>> ELSE <<\h80, \hBF, IF b < \hE0 THEN 1 ELSE 2>>
Follow(b) ==
  CASE b \in \hC2 .. \hDF -> <<\h80, \hBF, 1>>
    [] b = \hE0           -> <<\hA0, \hBF, 2>>
    [] b = \hED           -> <<\h80, \h9F, 2>>
    [] b \in (\hE1 .. \hEF) \ {\hED} -> <<\h80, \hBF, 2>>
    [] b = \hF0           -> <<\h90, \hBF, 3>>
    [] b \in \hF1 .. \hF3 -> <<\h80, \hBF, 3>>
    [] b = \hF4           -> <<\h80, \h8F, 3>>

\* What the scan expects after byte b.
Next1(a, b) ==
  CASE a = Boundary /\ b \in Unescaped -> Boundary
    [] a = Boundary /\ b \in \hC2 .. \hF4 -> Follow(b)
    [] a[3] > 0 /\ b \in a[1] .. a[2] ->
         IF a[3] = 1 THEN Boundary ELSE <<\h80, \hBF, a[3] - 1>>
    [] OTHER -> Bad

-----------------------------------------------------------------------------
(* serializer::decode and dump_escaped, strict, without ensure_ascii.      *)

Accept == 0
Reject == 1

\* The table utf8d: the type of a byte, and the state after a byte of type t.
Type(b) ==
  CASE b \in 0 .. \h7F -> 0
    [] b \in \h80 .. \h8F -> 1
    [] b \in \h90 .. \h9F -> 9
    [] b \in \hA0 .. \hBF -> 7
    [] b \in \hC2 .. \hDF -> 2
    [] b = \hE0 -> 10
    [] b = \hED -> 4
    [] b \in (\hE1 .. \hEF) \ {\hED} -> 3
    [] b = \hF0 -> 11
    [] b \in \hF1 .. \hF3 -> 6
    [] b = \hF4 -> 5
    [] OTHER -> 8

Start(t) ==
  CASE t = 0 -> 0 [] t = 2 -> 2 [] t = 3 -> 3 [] t = 4 -> 5 [] t = 5 -> 8
    [] t = 6 -> 7 [] t = 10 -> 4 [] t = 11 -> 6 [] OTHER -> Reject

State(s, t) ==
  CASE s = Accept -> Start(t)
    [] s = 2 /\ t \in {1, 7, 9} -> Accept
    [] s = 3 /\ t \in {1, 7, 9} -> 2
    [] s = 4 /\ t = 7 -> 2
    [] s = 5 /\ t \in {1, 9} -> 2
    [] s = 6 /\ t \in {7, 9} -> 3
    [] s = 7 /\ t \in {1, 7, 9} -> 3
    [] s = 8 /\ t = 1 -> 3
    [] OTHER -> Reject

\* (0xFF >> type) & byte, or the next six bits.
Mask(t) == CASE t = 0 -> 256 [] t = 2 -> 64 [] t = 3 -> 32 [] t = 4 -> 16
             [] t = 5 -> 8 [] t = 6 -> 4 [] OTHER -> 1
CodePoint(s, code, b) ==
  IF s = Accept THEN b % Mask(Type(b)) ELSE (code * 64) + (b % 64)

\* The code points that dump_escaped writes as an escape, all of them one byte.
\* Mutant: 1F is left out.
EscapedBelow1F(code) == code < \h1F \/ code \in {\h22, \h5C}
Escaped(code) == code <= \h1F \/ code \in {\h22, \h5C}

\* \b \t \n \f \r \" \\; the other escapes are \u and four digits.
Short == {\h08, \h09, \h0A, \h0C, \h0D, \h22, \h5C}
Written(code) == IF code \in Short THEN 2 ELSE IF Escaped(code) THEN 6 ELSE 1

\* After a character the buffer is written out unless 13 bytes are left, enough
\* for the next.  Mutant: one escape fits as it is.
FlushLate(n) == IF Buffer < n + 6 THEN 0 ELSE n
Flush(n) == IF Buffer < n + 13 THEN 0 ELSE n

\* dump_escaped reads byte b.  The byte is copied, except that a complete code
\* point may be written as an escape, which the second scan reads between
\* characters only.  After a rejected byte it throws.
Feed(d, b) ==
  LET s == State(d.state, Type(b))
      code == CodePoint(d.state, d.codepoint, b) IN
  [state |-> s,
   codepoint |-> code,
   bytes |-> IF s = Accept THEN Flush(d.bytes + Written(code)) ELSE d.bytes + 1,
   again |-> IF s = Accept /\ Escaped(code)
             THEN IF d.again = Boundary THEN Boundary ELSE Bad
             ELSE Next1(d.again, b)]

-----------------------------------------------------------------------------
(* The first scan.                                                         *)

\* A byte as it is.
Raw(b) ==
  /\ scan = "open" /\ Next1(ahead, b) # Bad
  /\ ahead' = Next1(ahead, b)
  /\ dump' = Feed(dump, b)
  /\ meant' = IF ahead = Boundary /\ b < \h80 THEN b ELSE NoCode
  /\ UNCHANGED scan

\* The bytes of a code point.
Tail6(c) == \h80 + (c % 64)
Store(c) ==
  CASE c < \h80 -> Feed(dump, c)
    [] c >= \h80 /\ c < \h800 -> Feed(Feed(dump, \hC0 + (c \div 64)), Tail6(c))
    [] c >= \h800 /\ c < \h10000 ->
         Feed(Feed(Feed(dump, \hE0 + (c \div 4096)), Tail6(c \div 64)), Tail6(c))
    [] c >= \h10000 ->
         Feed(Feed(Feed(Feed(dump, \hF0 + (c \div 262144)), Tail6(c \div 4096)),
                   Tail6(c \div 64)), Tail6(c))

\* An escape that names a code point is stored as code point c.
Escape(c, named) ==
  /\ scan = "open" /\ ahead = Boundary
  /\ dump' = Store(c)
  /\ meant' = named
  /\ UNCHANGED <<scan, ahead>>

\* The short escapes, and \/ for the slash.
ShortEscape == \E c \in Short \cup {\h2F} : Escape(c, c)

High == {u \in CodeUnit : \hD800 <= u /\ u <= \hDBFF}
Low == {u \in CodeUnit : \hDC00 <= u /\ u <= \hDFFF}

\* Two \uXXXX for a code point above FFFF.  Mutant: the offset 10000 is lost.
NoOffset(u, v) == ((u * 1024) + v) - \h360DC00
Pair(u, v) == ((u * 1024) + v) - \h35FDC00
Named(u, v) == \h10000 + ((u - \hD800) * 1024) + (v - \hDC00)

UnicodeEscape ==
  \/ \E u \in CodeUnit \ (High \cup Low) : Escape(u, u)
  \/ \E u \in High, v \in Low :
       Escape(Pair(u, v), Named(u, v))

Quote ==
  /\ scan = "open" /\ ahead = Boundary
  /\ scan' = "closed"
  /\ UNCHANGED <<ahead, dump, meant>>

\* Any other byte or escape, a surrogate alone, or the end of the text.
Refuse ==
  /\ scan = "open"
  /\ scan' = "rejected"
  /\ UNCHANGED <<ahead, dump, meant>>

ScanInit ==
  /\ scan = "open" /\ ahead = Boundary /\ meant = NoCode
  /\ dump = [state |-> Accept, codepoint |-> 0, bytes |-> 0, again |-> Boundary]

ScanNext == (\E b \in Byte : Raw(b)) \/ ShortEscape \/ UnicodeEscape \/ Quote \/ Refuse

ScanSpec == ScanInit /\ [][ScanNext]_scanVars

-----------------------------------------------------------------------------
(* Properties.                                                             *)

\* from_json's dump() throws for no payload that came out of parse(): whatever
\* scan_string accepts, dump_escaped takes as UTF-8, to the end.
RelayNeverThrows ==
  /\ dump.state # Reject
  /\ scan = "closed" => dump.state = Accept

\* A character that the text names, by itself or by an escape, is the one that
\* dump_escaped sees: surrogate pairs and the bytes of each length are put
\* together and taken apart to the same code point.
CodePointKept == scan = "open" /\ meant # NoCode => dump.codepoint = meant

\* invokeCallbacks can parse what from_json has dumped: control characters and
\* quotes are written as escapes again, everything else as legal bytes.
ReadableAgain ==
  /\ dump.again # Bad
  /\ scan = "closed" => dump.again = Boundary

\* What dump_escaped writes next, an escape with the NUL of snprintf at the
\* longest, fits in string_buffer: the buffer is looked at after a character
\* only, and up to three bytes of the next one have gone in since.
BufferFits == dump.bytes + 7 <= Buffer

-----------------------------------------------------------------------------
(* The inductive invariant behind these.                                   *)

\* The state in which decode waits for the same bytes as the scan.
Waits(a) ==
  CASE a = Boundary -> Accept
    [] a = <<\h80, \hBF, 1>> -> 2
    [] a = <<\h80, \hBF, 2>> -> 3
    [] a = <<\hA0, \hBF, 2>> -> 4
    [] a = <<\h80, \h9F, 2>> -> 5
    [] a = <<\h90, \hBF, 3>> -> 6
    [] a = <<\h80, \hBF, 3>> -> 7
    [] a = <<\h80, \h8F, 3>> -> 8

Expected == {Boundary, <<\h80, \hBF, 1>>, <<\h80, \hBF, 2>>, <<\hA0, \hBF, 2>>,
             <<\h80, \h9F, 2>>, <<\h90, \hBF, 3>>, <<\h80, \hBF, 3>>, <<\h80, \h8F, 3>>}

\* What decode has put together of a character of several bytes: too much for
\* one that is written as an escape.
Least(a) ==
  CASE a = <<\h80, \hBF, 1>> -> 2
    [] a \in {<<\h80, \hBF, 2>>, <<\h80, \h9F, 2>>, <<\h80, \hBF, 3>>,
               <<\h80, \h8F, 3>>} -> 1
    [] OTHER -> 0

\* The buffer has room for a character, less the bytes of this one so far.
Room(bytes, a) ==
  /\ bytes \in Nat
  /\ IF a = Boundary THEN bytes + 13 <= Buffer ELSE bytes + 9 + a[3] <= Buffer

\* decode and the second scan wait for the same bytes as a scan that expects a.
InStep(d, a) ==
  /\ d.state = Waits(a) /\ d.again = a
  /\ d.codepoint \in Nat /\ d.codepoint >= Least(a)
  /\ Room(d.bytes, a)

ScanInv ==
  /\ ahead \in Expected /\ InStep(dump, ahead)
  /\ scan = "closed" => ahead = Boundary

=============================================================================
