SPECIFICATION Spec
CONSTANTS
  PixelBits = 4
  Upscale = 4
  UdivBits = 20
  CurveBits = 4
  Modes <- MCModes
  Outlines <- MCOutlines
  Again <- MCAgain
  MaxPasses = 2
  Samples = 4
INVARIANTS
  CoverageNearExact
  SpansInBox
  CurvesMeet
PROPERTY EachStepNearer
CHECK_DEADLOCK FALSE
