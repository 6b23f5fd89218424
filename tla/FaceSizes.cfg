SPECIFICATION Spec
CONSTANTS
  Face = {f1, f2}
  Cell = {c1, c2, c3}
  Addr = {a1, a2}
  Thread = {t1, t2}
  Scale = {s0, s1}
  Unsized = s0
  NoCell = NoCell
  NoSize = NoSize
  Cloning = TRUE
SYMMETRY Symmetry
INVARIANTS
  RegistrySound
  HandlesRegistered
PROPERTIES
  InactiveSizesKeepState
CHECK_DEADLOCK FALSE
