CONSTANTS
  Sink = {a, b}
  Missing = Missing
  MaxBytes = 2
  Keep = 2
  LineBytes = {2}
  MayFail = {"remove", "rename", "open", "write"}
  MaxLines = 4
  MaxCrashes = 1
SPECIFICATION FairSpec
INVARIANTS
  ArchiveOrder
  SizeNeverOver
PROPERTIES
  EmitReturns
