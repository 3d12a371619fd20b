CONSTANTS
  Sink = {a}
  Missing = Missing
  MaxBytes = 3
  Keep = 3
  LineBytes = {1, 2, 4}
  MayFail = {"rename"}
  MaxLines = 8
  MaxCrashes = 0
SPECIFICATION Spec
INVARIANTS
  OnlyOldestLost
