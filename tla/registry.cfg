CONSTANTS
  root = root
  internal = internal
  deep = deep
  Root = root
  Internal = internal
  Nil = Nil
  NoVersion = NoVersion
  Name <- TreeName
  ParentNameOf <- TreeParentNameOf
  Node = {1, 2, 3, 4, 5}
  Version = {v1}
  Goroutine = {g1, g2}
SPECIFICATION FairSpec
INVARIANTS
  TypeOK
  ParentLinked
  GenerationsDisjoint
  InternalIsolated
  HandleIsSingleton
  VersionScopeAgree
PROPERTIES
  BindingsStable
  SingletonsSpec
  GetReturns
