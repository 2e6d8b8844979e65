----------------------------- MODULE JsonBinary -----------------------------
(***************************************************************************)
(* A value is written in one of the binary formats of basic_json           *)
(* (json.hpp), or another program writes it, and its bytes reach the       *)
(* reader as they are, cut short, followed by another byte or with one     *)
(* byte changed.  What was read may be written and read again.             *)
(***************************************************************************)
EXTENDS JsonBinaryReader

CONSTANTS
  Writes,     \* the values that are written
  Foreign,    \* records of a format, bytes that another writer may send, and their value
  Modes,      \* records of a format and of the arguments use_size and use_type of to_ubjson
  Changes,    \* the bytes that another byte is changed into, or that follow
  MaxChange,  \* bound: the longest bytes of which any one is changed
  MaxHead,    \* bound: how many of the first bytes are changed in longer ones of another writer
  MaxCut      \* bound: bytes that are left when more than the last is cut off

BinaryAssumption ==
  /\ Modes \subseteq [format : {"cbor", "msgpack", "ubjson", "bson"}, use_size : BOOLEAN, use_type : BOOLEAN]
  /\ \A m \in Modes : m.use_type => m.use_size
  /\ Changes \subseteq 0 .. 255
  /\ \A f \in Foreign : f.format \in {"cbor", "msgpack", "ubjson", "bson"} /\ f.bytes \in Seq(0 .. 255)
  /\ MaxChange \in Nat /\ MaxHead \in Nat /\ MaxCut \in Nat

VARIABLES
  phase,      \* "idle", "written", "rewritten", "sent" or "read"
  mode,       \* how the value was written
  value,      \* the value that was written
  bytes,      \* what the reader is given
  harm,       \* "none", "cut", "more" or "changed"
  arguments,  \* strict and allow_exceptions of the last read
  outcome     \* what was read, or the exception that was thrown

vars == <<phase, mode, value, bytes, harm, arguments, outcome>>

Careful == [strict |-> TRUE, allow_exceptions |-> TRUE]
Init ==
  /\ phase = "idle"
  /\ mode \in Modes
  /\ value = Null
  /\ bytes = <<>>
  /\ harm = "none"
  /\ arguments = Careful
  /\ outcome = Discarded

\* The bytes of j, or the exception that ends the attempt.
Keep(j, b, next) ==
  /\ value' = j
  /\ bytes' = IF Failed(b) THEN <<>> ELSE b[2]
  /\ phase' = IF Failed(b) THEN "read" ELSE next
  /\ outcome' = IF Failed(b) THEN b ELSE Discarded
  /\ harm' = "none"
  /\ UNCHANGED <<mode, arguments>>
Written(j, next) == Keep(j, to_bytes(mode.format, j, mode.use_size, mode.use_type), next)

Write == phase = "idle" /\ \E j \in Writes : Written(j, "written")

\* What the formats allow and this writer does not write.
Receive ==
  /\ phase = "idle"
  /\ \E f \in Foreign : f.format = mode.format /\ value' = f.value /\ bytes' = f.bytes
  /\ phase' = "written"
  /\ UNCHANGED <<mode, harm, arguments, outcome>>

IsValue(v) == ~Failed(v) /\ v # Discarded
Rewrite ==
  /\ phase = "read"
  /\ IsValue(outcome)
  /\ harm = "changed"
  /\ Written(outcome, "rewritten")

\* The way of the bytes.  What was read and written again arrives intact.
Harmed(h, b) ==
  /\ phase \in {"written", "rewritten"}
  /\ phase' = "sent"
  /\ harm' = h
  /\ bytes' = b
  /\ UNCHANGED <<mode, value, arguments, outcome>>
Send == Harmed("none", bytes)
Cut ==
  /\ phase = "written"
  /\ \E n \in 0 .. Len(bytes) - 1 :
       (n <= MaxCut \/ n = Len(bytes) - 1) /\ Harmed("cut", SubSeq(bytes, 1, n))
Extend == phase = "written" /\ \E b \in Changes : Harmed("more", Append(bytes, b))
Change ==
  /\ phase = "written"
  /\ \E i \in DOMAIN bytes, b \in Changes :
       /\ Len(bytes) <= MaxChange \/ (i <= MaxHead /\ \E f \in Foreign : f.bytes = bytes)
       /\ Harmed("changed", [bytes EXCEPT ![i] = b])

Read ==
  /\ phase = "sent"
  /\ \E strict, allow_exceptions \in BOOLEAN :
       /\ arguments' = [strict |-> strict, allow_exceptions |-> allow_exceptions]
       /\ outcome' = from_bytes(mode.format, bytes, strict, allow_exceptions)
  /\ phase' = "read"
  /\ UNCHANGED <<mode, value, bytes, harm>>

Return ==
  /\ phase = "read"
  /\ phase' = "idle"
  /\ value' = Null
  /\ bytes' = <<>>
  /\ harm' = "none"
  /\ arguments' = Careful
  /\ outcome' = Discarded
  /\ UNCHANGED mode

Next == Write \/ Receive \/ Rewrite \/ Send \/ Cut \/ Extend \/ Change \/ Read \/ Return
Spec == Init /\ [][Next]_vars

-----------------------------------------------------------------------------
(* Properties.                                                             *)

\* The same number whichever of the two integer types holds it: operator== would also
\* take an unsigned number for the negative one with the same word.
IsNegative(v) == v[1] = "integer" /\ Negative(v[2])
RECURSIVE Same(_, _)
Same(v, w) ==
  CASE IsNumber(v) -> IsNumber(w) /\ v[2] = w[2] /\ IsNegative(v) = IsNegative(w)
    [] IsArray(v) \/ IsObject(v) ->
         v[1] = w[1] /\ DOMAIN v[2] = DOMAIN w[2] /\ \A k \in DOMAIN v[2] : Same(v[2][k], w[2][k])
    [] OTHER -> v = w

Arrived(h) == phase = "read" /\ harm = h /\ bytes # <<>>

\* "Any CBOR output created to_cbor can be successfully parsed by from_cbor" (json.hpp:19591),
\* and so for the other formats: what to_x writes, from_x reads to its end and as the same
\* value, also when the value was read from changed bytes; and what others write is read as
\* the formats have it.
BinaryRoundTrip == Arrived("none") => Same(value, outcome)

\* The end of the bytes is where the writer put it.
\* "throw parse_error.110 if the given input ends prematurely or the end of file was not reached
\* when strict was set to true" (json.hpp:19604, 19711, 19802, not said of BSON), and
\* value_t::discarded without allow_exceptions (json.hpp:19600, 19890): so for every value cut
\* short and every value with a byte behind, with two exceptions.  A BSON string that ends before its last byte is
\* discarded without an exception, whatever allow_exceptions says (json.hpp:3714); and where
\* the input ends behind UBJSON's #, the exception has the number 113 (json.hpp:5022).
CutInsideString ==
  mode.format = "bson" /\ \E i, z \in DOMAIN bytes :
    /\ i < z /\ z + 4 <= Len(bytes) /\ bytes[i] = 2 /\ bytes[z] = 0
    /\ SubSeq(bytes, z + 1, z + 4) = LittleEndian(Size(Len(bytes) - z - 3), 4)
CutBehindHash == mode.format = "ubjson" /\ bytes # <<>> /\ bytes[Len(bytes)] = Hash
Refused(error) == outcome = IF arguments.allow_exceptions THEN Threw(error) ELSE Discarded
CutIsRefused ==
  phase = "read" /\ harm = "cut" =>
    IF CutInsideString THEN outcome = Discarded ELSE Refused(IF CutBehindHash THEN 113 ELSE 110)

\* A byte that follows the value is refused with strict, unless it is UBJSON's no-op, and changes
\* nothing without.
RestIsSeen ==
  Arrived("more") =>
    LET noop == mode.format = "ubjson" /\ bytes[Len(bytes)] = Letter.N IN
    IF arguments.strict /\ ~noop THEN Refused(110) ELSE Same(value, outcome)

\* calc_bson_object_size and write_bson_object go over the value separately: the size that the
\* first puts in front is the number of bytes that the second writes.
SizeIsTrue ==
  phase \in {"written", "rewritten"} /\ mode.format = "bson" => SubSeq(bytes, 1, 4) = LittleEndian(Size(Len(bytes)), 4)

\* A string has as many bytes as the length in front announces, however wide the length and
\* whatever changed it: one that announces more than there are is refused (json.hpp:4262).
LengthBytes ==
  CASE mode.format = "cbor" /\ bytes[1] \in 120 .. 123 -> 2 ^ (bytes[1] - 120)
    [] mode.format = "msgpack" /\ bytes[1] \in 217 .. 219 -> 2 ^ (bytes[1] - 217)
    [] OTHER -> 0
LengthIsTrue ==
  phase = "read" /\ bytes # <<>> /\ LengthBytes > 0 /\ IsValue(outcome) =>
    Size(Len(outcome[2])) = Extended(SubSeq(bytes, 2, LengthBytes + 1), FALSE)
EndIsSeen == CutIsRefused /\ RestIsSeen /\ SizeIsTrue /\ LengthIsTrue

=============================================================================
