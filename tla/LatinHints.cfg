SPECIFICATION Spec
CONSTANTS
  One = 65536
  Grid = 64
  UnitsPerEm = 256
  Outlines <- MCOutlines
  Fonts <- MCFonts
  Ppems = {7, 12, 20}
  Modes = {"normal", "light", "mono", "lcd", "lcd_v"}
INVARIANTS
  EdgesSound
  StemsKept
  EdgesPlaced
  PointsBetween
CHECK_DEADLOCK FALSE
