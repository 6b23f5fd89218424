SPECIFICATION ModSpec
CONSTANTS
  Names <- MCNames
  Versions = {1, 2}
  MaxAdds = 3
  Capacity = 6
INVARIANTS
  ListsAgree
  DoneOnce
  PublicSound
  CurrentInstalled
CHECK_DEADLOCK FALSE
