SPECIFICATION RecSpec
CONSTANTS
  Face = {f1, f2}
  Cell = {c1, c2, c3}
  Addr = {a1, a2, a3}
  Rec = {r1, r2, r3}
  Thread = {t1}
  Scale = {s0, s1}
  Unsized = s0
  NoCell = NoCell
  NoSize = NoSize
  NoRec = NoRec
  Cloning = FALSE
  Probing = FALSE
  Rebuilding = FALSE
SYMMETRY RecSymmetry
INVARIANTS
  RecordsInStep
  RecordsOwnTheirHandles
PROPERTIES
  ImplementsSizeList
  RecordsImplementSizeList
CHECK_DEADLOCK FALSE
