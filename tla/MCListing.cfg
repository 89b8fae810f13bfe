SPECIFICATION ListSpec
CONSTANTS
  r1 = r1
  Rows <- MCRows
  Readers <- MCReaders
  PageSize = 2
CHECK_DEADLOCK FALSE
INVARIANTS ListTypeOK PageWithinTotal WalkSeesAll
