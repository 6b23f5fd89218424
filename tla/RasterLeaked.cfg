SPECIFICATION ModSpec
CONSTANTS
  Names <- MCNames
  Versions = {1, 2}
  MaxAdds = 3
  Capacity = 6
INVARIANT
  RasterReleased
CHECK_DEADLOCK FALSE
