SPECIFICATION Spec
CONSTANTS
  Lib = {l1, l2}
  Face = {f1, f2}
  Stream = {s1}
  Glyph = {g1, g2}
  NoLib = NoLib
  NoStream = NoStream
  NoGlyph = NoGlyph
  Modules = 2
  MaxRefs = 2
  MaxObjects = 4
SYMMETRY LifeSymmetry
INVARIANTS
  StreamsClosedOnce
  FacesListedByOwner
  BlocksBalanced
  AliveWhileReferenced
PROPERTIES
  StreamsNotForgotten
CHECK_DEADLOCK FALSE
