------------------------------- MODULE MCJson -------------------------------
(* A call of one part of the JSON library, on the sets of MCMessage,        *)
(* MCPatch, MCBinary, MCFloat, MCText and MCCallback.  The parts share no   *)
(* state.                                                                  *)
EXTENDS MCMessage

CONSTANTS
  Docs, Ops, MaxOps, Diffs, Flats, Merges,                           \* of JsonPatch
  Width,                                                             \* of JsonPointer
  Writes, Foreign, Modes, Changes, MaxChange, MaxHead, MaxCut,       \* of JsonBinary
  kPrecision, Precision, MaxExponent, kAlpha, kGamma, Float,         \* of JsonFloat
  kCachedPowersMinDecExp, kCachedPowersDecStep, kCachedPowersSize,
  Kinds, Items, MaxItems,                                            \* of JsonText
  Trees                                                              \* of JsonCallback

VARIABLES
  part,                                                       \* which part is called
  call, source, target, steps, result, before, last, outcome,  \* of JsonPatch
  turn, mode, original, octets, harm, arguments, answer,       \* of JsonBinary
  float, at, gen, chars,                                       \* of JsonFloat
  items, lexer, place, token, taken,                           \* of JsonText
  tree, events, sdp, dropped, asked, returned                  \* of JsonCallback

patchVars == <<call, source, target, steps, result, before, last, outcome>>
binaryVars == <<turn, mode, original, octets, harm, arguments, answer>>
floatVars == <<float, at, gen, chars>>
textVars == <<items, lexer, place, token, taken>>
callbackVars == <<tree, events, sdp, dropped, asked, returned>>

Patches == INSTANCE JsonPatch WITH todo <- steps
Binaries == INSTANCE JsonBinary WITH
  phase <- turn, value <- original, bytes <- octets, outcome <- answer
Floats == INSTANCE JsonFloat WITH value <- float, text <- chars
Texts == INSTANCE JsonText WITH at <- place
Callbacks == INSTANCE JsonCallback WITH todo <- events, result <- returned

PatchSets == INSTANCE MCPatch
BinarySets == INSTANCE MCBinary
FloatSets == INSTANCE MCFloat
TextSets == INSTANCE MCText
CallbackSets == INSTANCE MCCallback

ASSUME JsonAssumption ==
  Patches!WidthAssumption /\ Binaries!BinaryAssumption /\ Floats!FloatAssumption
  /\ Texts!TextAssumption

MCDocs == PatchSets!MCDocs
MCOps == PatchSets!MCOps
MCDiffs == PatchSets!MCDiffs
MCFlats == PatchSets!MCFlats
MCMerges == PatchSets!MCMerges
MCValues == BinarySets!MCValues
MCForeign == BinarySets!MCForeign
MCModes == BinarySets!MCModes
MCChanges == BinarySets!MCChanges
MCAlpha == FloatSets!MCAlpha
MCGamma == FloatSets!MCGamma
MCMinDecExp == FloatSets!MCMinDecExp
MCFloats == FloatSets!MCFloats
MCItems == TextSets!MCItems
MCTrees == CallbackSets!MCTrees

-----------------------------------------------------------------------------

\* The variables of the parts that are not called.  scan_number has given up at once.
NotScanned == [at |-> "error", type |-> "unsigned", token |-> <<>>]
MessageUnused ==
  /\ ScanInit /\ number = NotScanned
  /\ pc = "value" /\ states = <<>> /\ dom = NoDom /\ text = <<>> /\ todo = <<>>
  /\ sent = NoFrame /\ phase = "frame" /\ message = NoMessage /\ status = Absent
PatchUnused ==
  /\ call = <<>> /\ source = <<>> /\ target = <<>> /\ steps = <<>> /\ result = <<>>
  /\ before = <<>> /\ last = <<>> /\ outcome = <<>>
BinaryUnused ==
  /\ turn = <<>> /\ mode = <<>> /\ original = <<>> /\ octets = <<>> /\ harm = <<>>
  /\ arguments = <<>> /\ answer = <<>>
FloatUnused == float = <<>> /\ at = <<>> /\ gen = <<>> /\ chars = <<>>

TextUnused == items = <<>> /\ lexer = <<>> /\ place = <<>> /\ token = <<>> /\ taken = <<>>
CallbackUnused ==
  /\ tree = <<>> /\ events = <<>> /\ sdp = <<>> /\ dropped = <<>> /\ asked = <<>> /\ returned = <<>>

JsonInit ==
  /\ part \in {"message", "patch", "binary", "float", "text", "callback"}
  /\ IF part = "message" THEN Init ELSE MessageUnused
  /\ IF part = "patch" THEN Patches!Init ELSE PatchUnused
  /\ IF part = "binary" THEN Binaries!Init ELSE BinaryUnused
  /\ IF part = "float" THEN Floats!Init ELSE FloatUnused
  /\ IF part = "text" THEN Texts!Init ELSE TextUnused
  /\ IF part = "callback" THEN Callbacks!Init ELSE CallbackUnused

JsonVars == <<part, vars, patchVars, binaryVars, floatVars, textVars, callbackVars>>
JsonNext ==
  \/ /\ part = "message" /\ Next
     /\ UNCHANGED <<part, patchVars, binaryVars, floatVars, textVars, callbackVars>>
  \/ /\ part = "patch" /\ Patches!Next
     /\ UNCHANGED <<part, vars, binaryVars, floatVars, textVars, callbackVars>>
  \/ /\ part = "binary" /\ Binaries!Next
     /\ UNCHANGED <<part, vars, patchVars, floatVars, textVars, callbackVars>>
  \/ /\ part = "float" /\ Floats!Next
     /\ UNCHANGED <<part, vars, patchVars, binaryVars, textVars, callbackVars>>
  \/ /\ part = "text" /\ Texts!Next
     /\ UNCHANGED <<part, vars, patchVars, binaryVars, floatVars, callbackVars>>
  \/ /\ part = "callback" /\ Callbacks!Next
     /\ UNCHANGED <<part, vars, patchVars, binaryVars, floatVars, textVars>>

JsonSpec == JsonInit /\ [][JsonNext]_JsonVars

-----------------------------------------------------------------------------
(* The properties of the parts that INSTANCE names.                        *)

\* JsonPatch: diff gives a patch to the target.
DiffGivesTarget == part = "patch" => Patches!DiffGivesTarget

\* JsonPatch: an operation that succeeds has done what it is called.
PatchedAsSaid == part = "patch" => Patches!PatchedAsSaid

\* JsonPatch: unflatten gives back what flatten took.
FlattenRestored == part = "patch" => Patches!FlattenRestored

\* JsonPatch: merge_patch does what RFC 7396 says.
MergedAsSaid == part = "patch" => Patches!MergedAsSaid

\* JsonBinary: what was written is read again as the same value.
BinaryRoundTrip == part = "binary" => Binaries!BinaryRoundTrip

\* JsonBinary: the reader stops where the writer did.
EndIsSeen == part = "binary" => Binaries!EndIsSeen

\* JsonFloat: a float is read again as the same float.
FloatRoundTrip == part = "float" => Floats!FloatRoundTrip

\* JsonFloat: the digits are the shortest and the closest.
DigitsBest == part = "float" => Floats!DigitsBest

\* JsonText: the lexer finds the tokens that were written, at their positions.
TextAsWritten == part = "text" => Texts!TextAsWritten

\* JsonCallback: the value is the text without what the callback dropped.
FilteredAsSaid == part = "callback" => Callbacks!FilteredAsSaid

=============================================================================
