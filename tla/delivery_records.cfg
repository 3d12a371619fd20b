CONSTANTS
  ring = ring
  audit = audit
  g1 = g1
  g2 = g2
  g3 = g3
  Goroutine = {g1, g2, g3}
  Role <- RecordRoles
  Sink = {ring, audit}
  RingSize <- RingSizes
  MinSeverity <- Thresholds
  Severity = {9, 13}
  Lists <- SinkLists
  MayErr = {audit}
  MaxEmits = 2
SPECIFICATION Spec
INVARIANTS
  TypeOK
  RetainsNewest
  PerCallerOrder
