SPECIFICATION Spec
CONSTANTS
  Id = {i1, i2}
  Face = {f1, f2, f3}
  Key = {k1}
  Node = {n1, n2}
  Cache = {x1, x2, x3}
  NoFace = NoFace
  NoNode = NoNode
  MaxCaches = 2
  MaxCalls = 2
  MaxRefs = 2
  SelfRequests = FALSE
SYMMETRY FtcSymmetry
INVARIANTS
  EntriesLeadToNodes
  EntriesFollowFaces
  FacesOwnedOnce
  RefsCountHolders
PROPERTIES
  NodesKeptUntilReset
CHECK_DEADLOCK FALSE
