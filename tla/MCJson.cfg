SPECIFICATION JsonSpec
CONSTANTS
  Byte <- MCByte
  CodeUnit <- MCCodeUnit
  Buffer = 20
  Digit <- MCDigit
  SignBit = 8192
  MaxChars = 5
  Str <- MCStr
  Word = {"a", "b"}
  KeyOrder <- MCKeyOrder
  MaxTokens = 11
  Frames <- MCFrames
  Messages <- MCMessages
  Width = 4
  Docs <- MCDocs
  Ops <- MCOps
  MaxOps = 2
  Diffs <- MCDiffs
  Flats <- MCFlats
  Merges <- MCMerges
  Writes <- MCValues
  Foreign <- MCForeign
  Modes <- MCModes
  Changes <- MCChanges
  MaxChange = 6
  MaxHead = 2
  MaxCut = 30
  kPrecision = 14
  Precision = 11
  MaxExponent = 16
  kAlpha <- MCAlpha
  kGamma <- MCGamma
  kCachedPowersMinDecExp <- MCMinDecExp
  kCachedPowersDecStep = 2
  kCachedPowersSize = 7
  Float <- MCFloats
  Kinds = {"buffer", "utf16", "utf32"}
  Items <- MCItems
  MaxItems = 3
  Trees <- MCTrees
CHECK_DEADLOCK FALSE
INVARIANTS
  RelayNeverThrows CodePointKept ReadableAgain BufferFits
  NumbersKept
  ParsesJson
  DecodedAsSent HooksGetStatus
  DiffGivesTarget PatchedAsSaid FlattenRestored MergedAsSaid
  BinaryRoundTrip EndIsSeen
  FloatRoundTrip DigitsBest
  TextAsWritten FilteredAsSaid
