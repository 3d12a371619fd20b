CONSTANTS
  root = root
  app = app
  internal = internal
  kid1 = kid1
  g1 = g1
  g2 = g2
  g3 = g3
  s1 = s1
  s2 = s2
  s3 = s3
  k1 = k1
  k2 = k2
  r1 = r1
  Root = root
  Internal = internal
  Inherit = Inherit
  Nil = Nil
  Registered <- Tree
  TreeParent <- TreeParents
  Key = {k1, k2}
  DefaultSecretSuffixes = {k1}
  Resource = {Nil, r1}
  Sink = {s1, s2, s3}
  Faulty = {s2}
  InternalSinks <- Console
  Goroutine = {g1}
  Detached = {}
  Role <- ConfigureRoles
  SeverityNumber = {13}
  Settings <- None
  Configurations <- Silencing
  Override <- None
  MaxScopes = 0
SPECIFICATION Spec
PROPERTIES
  DisableAllWarned
