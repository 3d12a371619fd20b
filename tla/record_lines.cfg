SPECIFICATION Spec
CONSTANTS
  Key <- MCKey
  String <- MCString
  LoweredKey <- MCLoweredKey
  Suffix <- MCSuffix
  LoweredSuffix <- MCLoweredSuffix
  Malformed <- MCMalformed
  EndsWith <- MCEndsWith
  DefaultSecretSuffixes <- MCDefault
  RedactedPlaceholder = "***"
  Nil = Nil
  Units <- MCUnits
  FormatFloat <- MCFormatFloat
  Ints <- MCInts
  FormatInt <- MCFormatInt
  Float = {"NaN", "zero", "minusZero", "one", "half", "large"}
  NotFinite = {"NaN"}
  MaxDepth = 2
  Zeros = {"zero", "minusZero"}
  Options <- MCOptions
  Emits <- MCEmits
  Exceptions <- MCExceptions
  Direct <- MCDirect
  Orders <- MCOrders
  Upper <- MCUpper
  BytesLess <- MCBytesLess
  ExceptionAttrs <- MCExceptionAttrs
  Now = 7
INVARIANTS
  MasksConfigured
  RecordedAtLevel
  LinesCanonical
  DroppedOnlyIfUnencodable
  LineShowsRecord
