-------------------------- MODULE JsonBinaryReader --------------------------
(***************************************************************************)
(* binary_reader (json.hpp): a value from its bytes in CBOR, MessagePack,  *)
(* UBJSON or BSON, built by json_sax_dom_parser.                           *)
(*                                                                         *)
(* The members read at a position and leave it behind what they have read, *)
(* or fail with the number of the parse error they report; 0 stands for a  *)
(* failure that nobody reports.  A position beyond the input reads as the  *)
(* end of file, again and again.                                           *)
(***************************************************************************)
EXTENDS JsonBinaryWriter

Eof == -1
At(s, p) == IF p <= Len(s) THEN s[p] ELSE Eof
Good(v, p) == [ok |-> TRUE, value |-> v, at |-> p, error |-> 0]
Bad(error) == [ok |-> FALSE, value |-> Null, at |-> 0, error |-> error]
Then(r, Next(_, _)) == IF r.ok THEN Next(r.value, r.at) ELSE r

\* get_number: k bytes as they stand, and the word a cast makes of them.  Mutant: missing
\* bytes are zero.
Padded(s, p, k) ==
  Good([i \in 1 .. k |-> IF p + i - 1 <= Len(s) THEN s[p + i - 1] ELSE 0], p + k)
get_number(s, p, k) ==
  IF p + k - 1 > Len(s) THEN Bad(110) ELSE Good(SubSeq(s, p, p + k - 1), p + k)
Extended(b, signed) ==
  LET fill == IF signed /\ b[1] >= 128 THEN 255 ELSE 0 IN
  [i \in 1 .. 8 |-> IF i > 8 - Len(b) THEN b[i - 8 + Len(b)] ELSE fill]

\* A word without a sign as a count: more than any input has bytes is Many, and more than
\* any memory has is Endless.
Many == 2 ^ 24
Endless == 2 ^ 25
Count(w) ==
  CASE FitsUnsigned(w, 3) -> w[6] * 65536 + w[7] * 256 + w[8]
    [] w[1] = 0 /\ w[2] = 0 /\ ~FitsUnsigned(w, 3) -> Many
    [] OTHER -> Endless
SignedCount(w) == IF Negative(w) THEN -1 ELSE Count(w)

\* get_string: a negative length reads nothing.  Behind the end it goes on to append the
\* end of file, unless the error is thrown, until the length is reached or the memory is
\* at its end.
NoMemory == -1
get_string(s, p, n) ==
  CASE p + n - 1 <= Len(s) -> Good(SubSeq(s, p, p + n - 1), p + (IF n > 0 THEN n ELSE 0))
    [] p + n - 1 > Len(s) -> Bad(IF n >= Endless THEN NoMemory ELSE 110)

\* A size for json_sax_dom_parser: the largest word means that it is not known, and a
\* size above max_size() throws.  The sizes between 2^56 and max_size() fail too: at the
\* end of the input, or of the memory where UBJSON's elements take no bytes.
Unknown == -1
TooMany == 408
SizeArgument(w, p) ==
  CASE \A i \in 1 .. 8 : w[i] = 255 -> Good(Unknown, p)
    [] w[1] # 0 /\ \E i \in 1 .. 8 : w[i] # 255 -> Bad(TooMany)
    [] OTHER -> Good(Count(w), p)

\* get_ignore_noop, in UBJSON only.
SkipNoop(format, s, p) ==
  IF format = "ubjson" THEN CHOOSE q \in p .. p + Len(s) :
                              At(s, q) # Letter.N /\ \A i \in p .. q - 1 : At(s, i) = Letter.N
  ELSE p

-----------------------------------------------------------------------------
(* Floats become doubles.                                                  *)

\* The double with this sign, exponent and fraction of 23 bits.
Double(negative, exponent, fraction) ==
  <<(IF negative THEN 128 ELSE 0) + exponent \div 16,
    (exponent % 16) * 16 + fraction \div 2 ^ 19,
    (fraction \div 2 ^ 11) % 256, (fraction \div 8) % 256, (fraction % 8) * 32, 0, 0, 0>>

\* A number of that many fraction bits.  A subnormal one is normal as a double.
Widened(negative, e, m, bits, bias, infinite) ==
  LET top == CHOOSE k \in 0 .. bits : 2 ^ k <= m /\ m < 2 ^ (k + 1) IN
  CASE e = infinite -> Double(negative, 2047, IF m = 0 THEN 0 ELSE 2 ^ 22)
    [] e = 0 /\ m = 0 -> Double(negative, 0, 0)
    [] e = 0 /\ m # 0 ->
         Double(negative, 1024 - bias - bits + top, (m - 2 ^ top) * 2 ^ (23 - top))
    [] OTHER -> Double(negative, e - bias + 1023, m * 2 ^ (23 - bits))
Half(b) == Widened(b[1] >= 128, (b[1] % 128) \div 4, (b[1] % 4) * 256 + b[2], 10, 15, 31)
Single(b) ==
  Widened(b[1] >= 128, (b[1] % 128) * 2 + b[2] \div 128,
          (b[2] % 128) * 65536 + b[3] * 256 + b[4], 23, 127, 255)

FloatAt(s, p, k) ==
  Then(get_number(s, p, k),
       LAMBDA b, q : Good(<<"float", CASE k = 2 -> Half(b) [] k = 4 -> Single(b) [] k = 8 -> b>>, q))
IntegerAt(s, p, k, type) ==
  Then(get_number(s, p, k), LAMBDA b, q : Good(<<type, Extended(b, type = "integer")>>, q))
SizeAt(s, p, k) ==
  Then(get_number(s, p, k), LAMBDA b, q : SizeArgument(Extended(b, FALSE), q))
StringAt(s, p, k, signed) ==
  Then(get_number(s, p, k), LAMBDA b, q :
    get_string(s, q, IF signed THEN SignedCount(Extended(b, TRUE)) ELSE Count(Extended(b, FALSE))))

-----------------------------------------------------------------------------
(* Strings, given their first byte m, which has been read.                 *)

InCbor(m, type, infos) == m \in {32 * type + i : i \in infos}

RECURSIVE get_cbor_string(_, _, _), Chunks(_, _, _)
Chunks(s, p, text) ==
  IF At(s, p) = 255 THEN Good(text, p + 1)
  ELSE Then(get_cbor_string(s, p + 1, At(s, p)), LAMBDA chunk, q : Chunks(s, q, text \o chunk))
get_cbor_string(s, p, m) ==
  CASE m = Eof -> Bad(110)
    [] InCbor(m, 3, 0 .. 23) -> get_string(s, p, m % 32)
    [] InCbor(m, 3, 24 .. 27) -> StringAt(s, p, 2 ^ ((m % 32) - 24), FALSE)
    [] m = 127 -> Chunks(s, p, <<>>)
    [] OTHER -> Bad(113)

get_msgpack_string(s, p, m) ==
  CASE m = Eof -> Bad(110)
    [] m \in 160 .. 191 -> get_string(s, p, m % 32)
    [] m \in 217 .. 219 -> StringAt(s, p, 2 ^ (m - 217), FALSE)
    [] OTHER -> Bad(113)

IntegerWidth(m) ==
  CASE m \in {Letter.U, Letter.i} -> 1 [] m = Letter.I -> 2 [] m = Letter.l -> 4 [] m = Letter.L -> 8
IntegerLetters == {Letter.U, Letter.i, Letter.I, Letter.l, Letter.L}
get_ubjson_string(s, p, m) ==
  CASE m = Eof -> Bad(110)
    [] m \in IntegerLetters -> StringAt(s, p, IntegerWidth(m), m # Letter.U)
    [] OTHER -> Bad(113)

\* Whichever the format has; the name of a member of an object is one.
TextAt(format, s, p, m) ==
  CASE format = "cbor" -> get_cbor_string(s, p, m)
    [] format = "msgpack" -> get_msgpack_string(s, p, m)
    [] format = "ubjson" -> get_ubjson_string(s, p, m)
StringValue(format, s, p, m) ==
  Then(TextAt(format, s, p, m), LAMBDA text, q : Good(<<"string", text>>, q))

-----------------------------------------------------------------------------
(* The size and the type of a UBJSON container.  Without # the next byte   *)
(* has been read already and is looked at again, and so is the last byte   *)
(* of a size that means that it is not known.                              *)

get_ubjson_size_value(s, p, type) ==
  LET q == SkipNoop("ubjson", s, p)
      m == At(s, q)
      Counted(b, r) == Then(SizeArgument(Extended(b, m # Letter.U), r),
                          LAMBDA n, o : Good([size |-> n, type |-> type], IF n = Unknown THEN o - 1 ELSE o)) IN
  IF m \in IntegerLetters THEN Then(get_number(s, q + 1, IntegerWidth(m)), Counted) ELSE Bad(113)
get_ubjson_size_type(s, p) ==
  LET q == SkipNoop("ubjson", s, p)
      after == SkipNoop("ubjson", s, q + 2) IN
  CASE At(s, q) = Dollar /\ At(s, q + 1) = Eof -> Bad(110)
    [] At(s, q) = Dollar /\ At(s, q + 1) # Eof ->
         CASE At(s, after) = Hash -> get_ubjson_size_value(s, after + 1, At(s, q + 1))
           [] At(s, after) = Eof -> Bad(110)
           [] OTHER -> Bad(112)
    [] At(s, q) = Hash -> get_ubjson_size_value(s, q + 1, 0)
    [] OTHER -> Good([size |-> Unknown, type |-> 0], q)

-----------------------------------------------------------------------------
(* Values and containers call each other.  n elements are to come, or those up to the   *)
(* closing byte; type is the type that a UBJSON container announced, or 0.              *)

RECURSIVE ValueAs(_, _, _, _), ArrayFrom(_, _, _, _, _, _), ObjectFrom(_, _, _, _, _, _)

ElementAt(format, s, p, type) ==
  LET q == SkipNoop(format, s, p) IN
  ValueAs(format, s, IF type # 0 THEN p ELSE q + 1, IF type # 0 THEN type ELSE At(s, q))

ArrayFrom(format, s, p, n, type, elements) ==
  LET q == SkipNoop(format, s, p)
      close == IF format = "cbor" THEN 255 ELSE ArrayClose
      More(v, r) == ArrayFrom(format, s, r, IF n = Unknown THEN n ELSE n - 1, type, Append(elements, v)) IN
  CASE n = 0 \/ (n # Unknown /\ type = Letter.N) -> Good(<<"array", elements>>, p)
    [] n = Unknown /\ At(s, q) = close -> Good(<<"array", elements>>, q + 1)
    [] OTHER -> Then(ElementAt(format, s, p, IF n = Unknown THEN 0 ELSE type), More)

ObjectFrom(format, s, p, n, type, members) ==
  LET q == IF n = Unknown THEN SkipNoop(format, s, p) ELSE p
      close == IF format = "cbor" THEN 255 ELSE ObjectClose
      Member(key, r) ==
        Then(ElementAt(format, s, r, type),
             LAMBDA v, o : ObjectFrom(format, s, o, IF n = Unknown THEN n ELSE n - 1, type,
                                      WithKey(members, key, v))) IN
  CASE n = 0 -> Good(members, p)
    [] n = Unknown /\ At(s, q) = close -> Good(members, q + 1)
    [] OTHER -> Then(TextAt(format, s, q + 1, At(s, q)), Member)

Sized(format, s, m, size) ==
  Then(size, LAMBDA n, p : IF m = "array" THEN ArrayFrom(format, s, p, n, 0, <<>>)
                           ELSE ObjectFrom(format, s, p, n, 0, EmptyObject))

-----------------------------------------------------------------------------
(* parse_cbor_internal.                                                    *)

CborInteger(s, p, m) ==
  LET argument == IF m % 32 <= 23 THEN Good(<<m % 32>>, p) ELSE get_number(s, p, 2 ^ ((m % 32) - 24)) IN
  Then(argument, LAMBDA b, q :
    Good(IF m \div 32 = 0 THEN <<"unsigned", Extended(b, FALSE)>>
         ELSE <<"integer", Complement(Extended(b, FALSE))>>, q))
CborContainer(s, p, m) ==
  LET kind == IF m \div 32 = 4 THEN "array" ELSE "object" IN
  Sized("cbor", s, kind,
        CASE m % 32 <= 23 -> Good(m % 32, p)
          [] m % 32 \in 24 .. 27 -> SizeAt(s, p, 2 ^ ((m % 32) - 24))
          [] m % 32 = 31 -> Good(Unknown, p))
CborValue(s, p, m) ==
  CASE m = Eof -> Bad(110)
    [] InCbor(m, 0, 0 .. 27) \/ InCbor(m, 1, 0 .. 27) -> CborInteger(s, p, m)
    [] InCbor(m, 3, (0 .. 27) \cup {31}) -> StringValue("cbor", s, p, m)
    [] InCbor(m, 4, (0 .. 27) \cup {31}) \/ InCbor(m, 5, (0 .. 27) \cup {31}) -> CborContainer(s, p, m)
    [] m \in {244, 245} -> Good(<<"boolean", m = 245>>, p)
    [] m = 246 -> Good(Null, p)
    [] m \in 249 .. 251 -> FloatAt(s, p, 2 ^ (m - 248))
    [] OTHER -> Bad(112)

(* parse_msgpack_internal.                                                 *)

MsgpackFixint(m) == <<IF m < 128 THEN "unsigned" ELSE "integer", Extended(<<m>>, m >= 128)>>
MsgpackFix(s, p, m) ==
  CASE m \in 128 .. 143 -> Sized("msgpack", s, "object", Good(m % 16, p))
    [] m \in 144 .. 159 -> Sized("msgpack", s, "array", Good(m % 16, p))
    [] m \in 160 .. 191 -> StringValue("msgpack", s, p, m)
MsgpackValue(s, p, m) ==
  CASE m = Eof -> Bad(110)
    [] m \in (0 .. 127) \cup (224 .. 255) -> Good(MsgpackFixint(m), p)
    [] m \in 128 .. 191 -> MsgpackFix(s, p, m)
    [] m = 192 -> Good(Null, p)
    [] m \in {194, 195} -> Good(<<"boolean", m = 195>>, p)
    [] m \in {202, 203} -> FloatAt(s, p, 4 * (m - 201))
    [] m \in 204 .. 207 -> IntegerAt(s, p, 2 ^ (m - 204), "unsigned")
    [] m \in 208 .. 211 -> IntegerAt(s, p, 2 ^ (m - 208), "integer")
    [] m \in 217 .. 219 -> StringValue("msgpack", s, p, m)
    [] m \in {220, 221} -> Sized("msgpack", s, "array", SizeAt(s, p, 2 * (m - 219)))
    [] m \in {222, 223} -> Sized("msgpack", s, "object", SizeAt(s, p, 2 * (m - 221)))
    [] OTHER -> Bad(112)

(* get_ubjson_value.                                                       *)

CharAt(s, p) ==
  CASE At(s, p) = Eof -> Bad(110)
    [] At(s, p) > 127 -> Bad(113)
    [] OTHER -> Good(<<"string", <<At(s, p)>> >>, p + 1)
UbjsonValue(s, p, m) ==
  CASE m = Eof -> Bad(110)
    [] m \in {Letter.T, Letter.F} -> Good(<<"boolean", m = Letter.T>>, p)
    [] m = Letter.Z -> Good(Null, p)
    [] m \in IntegerLetters ->
         IntegerAt(s, p, IntegerWidth(m), IF m = Letter.U THEN "unsigned" ELSE "integer")
    [] m = Letter.d -> FloatAt(s, p, 4)
    [] m = Letter.D -> FloatAt(s, p, 8)
    [] m = Letter.C -> CharAt(s, p)
    [] m = Letter.S -> StringValue("ubjson", s, p + 1, At(s, p))
    [] m = ArrayOpen ->
         Then(get_ubjson_size_type(s, p), LAMBDA t, q : ArrayFrom("ubjson", s, q, t.size, t.type, <<>>))
    [] m = ObjectOpen ->
         Then(get_ubjson_size_type(s, p),
              LAMBDA t, q : ObjectFrom("ubjson", s, q, t.size, IF t.size = Unknown THEN 0 ELSE t.type,
                                       EmptyObject))
    [] OTHER -> Bad(112)

ValueAs(format, s, p, m) ==
  CASE format = "cbor" -> CborValue(s, p, m)
    [] format = "msgpack" -> MsgpackValue(s, p, m)
    [] format = "ubjson" -> UbjsonValue(s, p, m)

-----------------------------------------------------------------------------
(* BSON.  The sizes of documents are read over.                            *)

\* get_bson_string: the length counts the byte that ends the string, which is read, but
\* not looked at.
get_bson_string(s, p, n) ==
  IF n < 1 THEN Bad(112)
  ELSE Then(get_string(s, p, n - 1), LAMBDA text, q : IF At(s, q) = Eof THEN Bad(0) ELSE Good(text, q + 1))
BsonString(s, p) ==
  Then(get_number(s, p, 4), LAMBDA b, q :
    Then(get_bson_string(s, q, SignedCount(Extended(Reverse(b), TRUE))),
         LAMBDA text, r : Good(<<"string", text>>, r)))

\* get_bson_cstr.
CString(s, p) ==
  LET zero == SelectInSubSeq(s, p, Len(s), LAMBDA c : c = 0) IN
  IF zero = 0 THEN Bad(110) ELSE Good(SubSeq(s, p, zero - 1), zero + 1)

RECURSIVE BsonElements(_, _, _), BsonElement(_, _, _)
BsonElements(s, p, sofar) ==
  LET Element(name, q) ==
        Then(BsonElement(s, q, At(s, p)), LAMBDA v, r :
          BsonElements(s, r, IF IsArray(sofar) THEN <<"array", Append(sofar[2], v)>> ELSE WithKey(sofar, name, v))) IN
  CASE At(s, p) = 0 -> Good(sofar, p + 1)
    [] At(s, p) = Eof -> Bad(110)
    [] OTHER -> Then(CString(s, p + 1), Element)
BsonElement(s, p, type) ==
  CASE type = 1 -> Then(get_number(s, p, 8), LAMBDA b, q : Good(<<"float", Reverse(b)>>, q))
    [] type = 2 -> BsonString(s, p)
    [] type = 3 -> BsonElements(s, p + 4, EmptyObject)
    [] type = 4 -> BsonElements(s, p + 4, EmptyArray)
    [] type = 8 -> Good(<<"boolean", At(s, p) # 0>>, p + 1)
    [] type = 10 -> Good(Null, p)
    [] type \in {16, 18} ->
         Then(get_number(s, p, IF type = 16 THEN 4 ELSE 8),
              LAMBDA b, q : Good(<<"integer", Extended(Reverse(b), TRUE)>>, q))
    [] OTHER -> Bad(114)

-----------------------------------------------------------------------------
(* sax_parse and from_cbor, from_msgpack, from_ubjson, from_bson.          *)

NothingBehind(format, s, p) == p > Len(s)   \* mutant: a no-op is in the way
AtEnd(format, s, p) == At(s, SkipNoop(format, s, p)) = Eof
Checked(format, s, strict, r) == IF r.ok /\ strict /\ ~AtEnd(format, s, r.at) THEN Bad(110) ELSE r
sax_parse(format, s, strict) ==
  Checked(format, s, strict,
    IF format = "bson" THEN BsonElements(s, 5, EmptyObject) ELSE ElementAt(format, s, 1, 0))

\* json_sax_dom_parser throws the parse errors only if it may, 408 anyway, and what the
\* string throws that cannot grow if nothing was thrown before.
Discarded == <<"discarded", 0>>
Reported(r, allow_exceptions) ==
  CASE r.ok -> r.value
    [] ~r.ok /\ r.error = NoMemory -> Threw(IF allow_exceptions THEN 110 ELSE NoMemory)
    [] ~r.ok /\ (r.error = TooMany \/ (allow_exceptions /\ r.error \notin {0, NoMemory})) -> Threw(r.error)
    [] OTHER -> Discarded
from_bytes(format, s, strict, allow_exceptions) ==
  Reported(sax_parse(format, s, strict), allow_exceptions)

=============================================================================
