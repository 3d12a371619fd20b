SPECIFICATION Spec
CONSTANTS
  g1 = g1
  g2 = g2
  Goroutine = {g1, g2}
  Modes = {"auto", "json", "pretty"}
  Terminals = {TRUE, FALSE}
  MinSeverity = 9
  Severity = {9, 8}
  Encodable = {TRUE, FALSE}
  Writes = {TRUE, FALSE}
  MaxEmits = 2
INVARIANT TypeOK StyleSettles
PROPERTY NothingAfterClose
CHECK_DEADLOCK FALSE
