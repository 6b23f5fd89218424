SPECIFICATION Spec
CONSTANTS
  Attributes <- MCAttributes
  Starts <- MCStarts
  Vectors <- MCVectors
  Curves <- MCCurves
  Tight <- MCTight
  Outlines <- MCOutlines
  MaxSegments = 3
  MaxCalls = 5
INVARIANT SegmentsContinue
CHECK_DEADLOCK FALSE
