-------------------------- MODULE JsonBinaryWriter --------------------------
(***************************************************************************)
(* binary_writer (json.hpp): the bytes of a value in CBOR, MessagePack,    *)
(* UBJSON and BSON.                                                        *)
(*                                                                         *)
(* A number of either integer type is its 64-bit word as memory has it: 8  *)
(* bytes, the most significant first, in two's complement.  The range      *)
(* checks of the code are then statements about leading bytes, its casts   *)
(* slices and its -1 - n a complement.  A float is the 8 bytes of its      *)
(* double, copied to the output as they are.                               *)
(***************************************************************************)
EXTENDS JsonValue

FitsUnsigned(w, k) == \A i \in 1 .. 8 - k : w[i] = 0
FitsSigned(w, k) == \A i \in 1 .. 8 - k : w[i] = IF w[9 - k] >= 128 THEN 255 ELSE 0
AtMostIntMax(w, k) == FitsUnsigned(w, k) /\ w[9 - k] < 128
Negative(w) == w[1] >= 128
Complement(w) == [i \in 1 .. 8 |-> 255 - w[i]]
Low(w, k) == SubSeq(w, 9 - k, 8)
Size(n) == [i \in 1 .. 8 |-> IF i > 5 THEN (n \div 256 ^ (8 - i)) % 256 ELSE 0]
UnsignedWidth(w, widths) ==
  CHOOSE k \in widths : FitsUnsigned(w, k) /\ \A l \in widths : FitsUnsigned(w, l) => k <= l

\* The elements of a container in the order of its iterator, and all values in it.
Elements(j) ==
  IF IsArray(j) THEN j[2] ELSE LET k == Keys(j[2]) IN [i \in DOMAIN k |-> j[2][k[i]]]
RECURSIVE Within(_)
Within(j) ==
  {j} \cup IF IsArray(j) \/ IsObject(j) THEN UNION {Within(e) : e \in Range(Elements(j))} ELSE {}
SizeOf(j) == Size(Len(Elements(j)))

-----------------------------------------------------------------------------
(* CBOR.                                                                   *)

\* The major type and its argument, the number itself or a length.
CborHead(type, w) ==
  IF FitsUnsigned(w, 1) /\ w[8] <= 23 THEN <<32 * type + w[8]>>
  ELSE LET k == UnsignedWidth(w, {1, 2, 4, 8}) IN
       <<32 * type + (CASE k = 1 -> 24 [] k = 2 -> 25 [] k = 4 -> 26 [] k = 8 -> 27)>> \o Low(w, k)

CborNumber(j) ==
  IF j[1] = "integer" /\ Negative(j[2]) THEN CborHead(1, Complement(j[2])) ELSE CborHead(0, j[2])
CborString(s) == CborHead(3, Size(Len(s))) \o s

CborScalar(j) ==
  CASE j = Null -> <<246>>
    [] j[1] = "boolean" -> <<IF j[2] THEN 245 ELSE 244>>
    [] IsNumber(j) -> CborNumber(j)
    [] j[1] = "float" -> <<251>> \o j[2]
    [] j[1] = "string" -> CborString(j[2])

RECURSIVE write_cbor(_)
write_cbor(j) ==
  CASE IsArray(j) -> CborHead(4, SizeOf(j)) \o FlattenSeq([i \in DOMAIN j[2] |-> write_cbor(j[2][i])])
    [] IsObject(j) ->
         LET k == Keys(j[2]) IN
         CborHead(5, SizeOf(j))
         \o FlattenSeq([i \in DOMAIN k |-> CborString(k[i]) \o write_cbor(j[2][k[i]])])
    [] OTHER -> CborScalar(j)

-----------------------------------------------------------------------------
(* MessagePack.                                                            *)

\* A positive fixnum, uint 8 to 64; a negative fixnum, int 8 to 64.
MsgpackUnsigned(w) ==
  LET k == UnsignedWidth(w, {1, 2, 4, 8}) IN
  IF FitsUnsigned(w, 1) /\ w[8] < 128 THEN Low(w, 1)
  ELSE <<CASE k = 1 -> 204 [] k = 2 -> 205 [] k = 4 -> 206 [] k = 8 -> 207>> \o Low(w, k)
MsgpackNegative(w) ==
  CASE FitsSigned(w, 1) /\ w[8] >= 224 -> Low(w, 1)
    [] FitsSigned(w, 1) /\ w[8] < 224 -> <<208>> \o Low(w, 1)
    [] FitsSigned(w, 2) /\ ~FitsSigned(w, 1) -> <<209>> \o Low(w, 2)
    [] FitsSigned(w, 4) /\ ~FitsSigned(w, 2) -> <<210>> \o Low(w, 4)
    [] OTHER -> <<211>> \o w

\* A length in the byte that gives the type, fix, if it is at most limit, or behind one.
MsgpackSize(w, fix, limit, after) ==
  LET k == UnsignedWidth(w, DOMAIN after) IN
  IF FitsUnsigned(w, 1) /\ w[8] <= limit THEN <<fix + w[8]>> ELSE <<after[k]>> \o Low(w, k)
After(a, b) == (2 :> a) @@ (4 :> b)
MsgpackString(s) == MsgpackSize(Size(Len(s)), 160, 31, (1 :> 217) @@ After(218, 219)) \o s

MsgpackScalar(j) ==
  CASE j = Null -> <<192>>
    [] j[1] = "boolean" -> <<IF j[2] THEN 195 ELSE 194>>
    [] IsNumber(j) ->
         IF j[1] = "integer" /\ Negative(j[2]) THEN MsgpackNegative(j[2]) ELSE MsgpackUnsigned(j[2])
    [] j[1] = "float" -> <<203>> \o j[2]
    [] j[1] = "string" -> MsgpackString(j[2])

RECURSIVE write_msgpack(_)
write_msgpack(j) ==
  CASE IsArray(j) ->
         MsgpackSize(SizeOf(j), 144, 15, After(220, 221))
         \o FlattenSeq([i \in DOMAIN j[2] |-> write_msgpack(j[2][i])])
    [] IsObject(j) ->
         LET k == Keys(j[2]) IN
         MsgpackSize(SizeOf(j), 128, 15, After(222, 223))
         \o FlattenSeq([i \in DOMAIN k |-> MsgpackString(k[i]) \o write_msgpack(j[2][k[i]])])
    [] OTHER -> MsgpackScalar(j)

-----------------------------------------------------------------------------
(* UBJSON.  The letters are types: i, U, I, l and L are int8, uint8,       *)
(* int16, int32 and int64.                                                 *)

Letter == [i |-> 105, U |-> 85, I |-> 73, l |-> 108, L |-> 76, D |-> 68, d |-> 100, S |-> 83,
           C |-> 67, T |-> 84, F |-> 70, Z |-> 90, N |-> 78]
ArrayOpen == 91
ArrayClose == 93
ObjectOpen == 123
ObjectClose == 125
Dollar == 36
Hash == 35

\* write_number_with_ubjson_prefix.  An unsigned number beyond int64 is refused: no bytes.
UbjsonNumber(j, add_prefix) ==
  LET w == j[2]
      Fits(k) == IF j[1] = "integer" THEN FitsSigned(w, k) ELSE AtMostIntMax(w, k)
      As(letter, k) == (IF add_prefix THEN <<letter>> ELSE <<>>) \o Low(w, k) IN
  CASE Fits(1) -> As(Letter.i, 1)
    [] ~Fits(1) /\ FitsUnsigned(w, 1) -> As(Letter.U, 1)
    [] ~FitsUnsigned(w, 1) /\ ~Fits(1) /\ Fits(2) -> As(Letter.I, 2)
    [] ~Fits(2) /\ Fits(4) -> As(Letter.l, 4)
    [] ~Fits(4) /\ Fits(8) -> As(Letter.L, 8)
    [] OTHER -> <<>>
UbjsonSize(n) == UbjsonNumber(<<"unsigned", Size(n)>>, TRUE)
UbjsonText(s) == UbjsonSize(Len(s)) \o s

\* The letter that $ announces for a value, by range checks of its own.  Mutant: uint8 is
\* forgotten.
WithoutUint8(j) ==
  LET small == {k \in {1, 2, 4} : IF j[1] = "integer" THEN FitsSigned(j[2], k) ELSE AtMostIntMax(j[2], k)} IN
  CASE 1 \in small -> Letter.i
    [] 1 \notin small /\ 2 \in small -> Letter.I
    [] small = {4} -> Letter.l
    [] small = {} -> Letter.L
IntegerPrefix(j) ==
  LET w == j[2]
      small == {k \in {1, 2, 4} : IF j[1] = "integer" THEN FitsSigned(w, k) ELSE AtMostIntMax(w, k)} IN
  IF 1 \notin small /\ FitsUnsigned(w, 1) THEN Letter.U
  ELSE CASE 1 \in small -> Letter.i
         [] 1 \notin small /\ 2 \in small -> Letter.I
         [] small = {4} -> Letter.l
         [] small = {} -> Letter.L
ubjson_prefix(j) ==
  CASE j = Null -> Letter.Z
    [] j[1] = "boolean" -> IF j[2] THEN Letter.T ELSE Letter.F
    [] IsNumber(j) -> IntegerPrefix(j)
    [] j[1] = "float" -> Letter.D
    [] j[1] = "string" -> Letter.S
    [] IsArray(j) -> ArrayOpen
    [] IsObject(j) -> ObjectOpen

\* One type for all elements of a container, when use_type asks for it.
SamePrefix(j, use_type) ==
  /\ use_type
  /\ Elements(j) # <<>>
  /\ \A e \in Range(Elements(j)) : ubjson_prefix(e) = ubjson_prefix(Elements(j)[1])

\* What precedes the elements.
UbjsonOpen(j, use_count, use_type) ==
  (IF SamePrefix(j, use_type) THEN <<Dollar, ubjson_prefix(Elements(j)[1])>> ELSE <<>>)
  \o IF use_count THEN <<Hash>> \o UbjsonSize(Len(Elements(j))) ELSE <<>>

RECURSIVE write_ubjson(_, _, _, _)
write_ubjson(j, use_count, use_type, add_prefix) ==
  LET prefix == IF add_prefix THEN <<ubjson_prefix(j)>> ELSE <<>>
      name == IF IsObject(j) THEN Keys(j[2]) ELSE <<>>
      Element(i) == (IF IsObject(j) THEN UbjsonText(name[i]) ELSE <<>>)
                    \o write_ubjson(Elements(j)[i], use_count, use_type, ~SamePrefix(j, use_type))
      close == IF use_count THEN <<>> ELSE <<IF IsArray(j) THEN ArrayClose ELSE ObjectClose>> IN
  CASE IsNumber(j) -> UbjsonNumber(j, add_prefix)
    [] j[1] = "float" -> prefix \o j[2]
    [] j[1] = "string" -> prefix \o UbjsonText(j[2])
    [] IsArray(j) \/ IsObject(j) ->
         prefix \o UbjsonOpen(j, use_count, use_type)
         \o FlattenSeq([i \in DOMAIN Elements(j) |-> Element(i)]) \o close
    [] OTHER -> prefix

-----------------------------------------------------------------------------
(* BSON: the size of a document comes before its elements and is           *)
(* calculated before they are written.                                     *)

LittleEndian(w, k) == Reverse(Low(w, k))
Total(numbers) == FoldLeft(LAMBDA a, b : a + b, 0, numbers)

\* The elements of an array are named by their indices.
Names(j) == IF IsObject(j) THEN Keys(j[2]) ELSE [i \in DOMAIN j[2] |-> IndexText(i - 1)]
calc_bson_entry_header_size(name) == 1 + Len(name) + 1
calc_bson_integer_size(w) == IF FitsSigned(w, 4) THEN 4 ELSE 8
Uint32Size(w) == IF FitsUnsigned(w, 4) THEN 4 ELSE 8   \* mutant: int32 has no room for 2^31
calc_bson_unsigned_size(w) == IF AtMostIntMax(w, 4) THEN 4 ELSE 8

RECURSIVE calc_bson_element_size(_, _), calc_bson_document_size(_)
calc_bson_document_size(j) ==
  4 + Total([i \in DOMAIN Names(j) |-> calc_bson_element_size(Names(j)[i], Elements(j)[i])]) + 1
calc_bson_element_size(name, j) ==
  calc_bson_entry_header_size(name) +
  CASE IsArray(j) \/ IsObject(j) -> calc_bson_document_size(j)
    [] j[1] = "boolean" -> 1
    [] j[1] = "float" -> 8
    [] j[1] = "integer" -> calc_bson_integer_size(j[2])
    [] j[1] = "unsigned" -> calc_bson_unsigned_size(j[2])
    [] j[1] = "string" -> 4 + Len(j[2]) + 1
    [] j = Null -> 0

\* The type of an element and its value, as they are written.
BsonNumber(j) ==
  IF IF j[1] = "integer" THEN FitsSigned(j[2], 4) ELSE AtMostIntMax(j[2], 4)
  THEN <<16, LittleEndian(j[2], 4)>> ELSE <<18, LittleEndian(j[2], 8)>>
BsonScalar(j) ==
  CASE j[1] = "boolean" -> <<8, <<IF j[2] THEN 1 ELSE 0>> >>
    [] j[1] = "float" -> <<1, Reverse(j[2])>>
    [] IsNumber(j) -> BsonNumber(j)
    [] j[1] = "string" -> <<2, LittleEndian(Size(Len(j[2]) + 1), 4) \o j[2] \o <<0>> >>
    [] j = Null -> <<10, <<>> >>

RECURSIVE write_bson_element(_, _), write_bson_document(_)
write_bson_document(j) ==
  LittleEndian(Size(calc_bson_document_size(j)), 4)
  \o FlattenSeq([i \in DOMAIN Names(j) |-> write_bson_element(Names(j)[i], Elements(j)[i])])
  \o <<0>>
write_bson_element(name, j) ==
  LET e == IF IsArray(j) \/ IsObject(j)
           THEN <<IF IsObject(j) THEN 3 ELSE 4, write_bson_document(j)>> ELSE BsonScalar(j) IN
  <<e[1]>> \o name \o <<0>> \o e[2]

-----------------------------------------------------------------------------
(* to_cbor, to_msgpack, to_ubjson and to_bson: the bytes or the exception. *)
(* The sizes of a BSON document are calculated first, and with them the    *)
(* names are checked.                                                      *)

BeyondInt64(j) == \E v \in Within(j) : v[1] = "unsigned" /\ Negative(v[2])
NulInName(j) == \E v \in Within(j) : IsObject(v) /\ \E k \in DOMAIN v[2] : 0 \in Range(k)

to_bytes(format, j, use_size, use_type) ==
  CASE format = "cbor" -> <<"bytes", write_cbor(j)>>
    [] format = "msgpack" -> <<"bytes", write_msgpack(j)>>
    [] format = "ubjson" ->
         IF BeyondInt64(j) THEN Threw(407)
         ELSE <<"bytes", write_ubjson(j, use_size, use_type, TRUE)>>
    [] format = "bson" ->
         CASE ~IsObject(j) -> Threw(317)
           [] IsObject(j) /\ NulInName(j) -> Threw(409)
           [] IsObject(j) /\ ~NulInName(j) /\ BeyondInt64(j) -> Threw(407)
           [] OTHER -> <<"bytes", write_bson_document(j)>>

=============================================================================
