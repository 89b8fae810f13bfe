SPECIFICATION FairSpec
CONSTANTS
  w1 = w1
  w2 = w2
  i1 = i1
  i2 = i2
  i3 = i3
  Workers <- MCWorkers
  Items <- MCItems
  Audited <- MCAudited
  Wanted <- MCWanted
  PageLimit = 1
  Forwarding = TRUE
  MaxRequests = 3
CHECK_DEADLOCK FALSE
INVARIANTS TypeOK ChangeTookEffect OverviewAgrees ArchiveFollowsRows
PROPERTIES WorkEnds
