SPECIFICATION Spec
CONSTANTS
  One = 1024
  Grid = 64
  Jobs <- SpinJobs
  Ppem = 12
  PointSize = 768
  Scale = 2
  InitialCvt <- MCCvt
  StorageSize = 3
  TwilightPoints = 3
  NumGlyphs = 1
  FunctionBudget = 3
  InstructionBudget = 1
  FunctionSlots = 8
  StackLimit = 8
  MaxCallDepth = 3
  MaxSteps = 250
PROPERTY
  Terminates
CHECK_DEADLOCK FALSE
