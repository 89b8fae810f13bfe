SPECIFICATION Spec
CONSTANTS
  k1 = k1
  k2 = k2
  Clients <- MCTwoClients
  Window = 3
  MaxPerWindow = 2
  MaxTime = 5
  MaxRequests = 5
CHECK_DEADLOCK FALSE
SYMMETRY MCSymmetry
INVARIANTS TypeOK SlidingLimit CountersAgree
PROPERTIES RefusalJustified
