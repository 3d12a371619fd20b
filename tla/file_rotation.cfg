CONSTANTS
  Sink = {a}
  Missing = Missing
  MaxBytes = 3
  Keep = 3
  LineBytes = {1, 2, 4}
  MayFail = {"open", "remove"}
  MaxLines = 8
  MaxCrashes = 2
SPECIFICATION Spec
INVARIANTS
  TypeOK
  SizeExact
  FileBounded
  OnlyOldestLost
