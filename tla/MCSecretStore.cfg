SPECIFICATION FairSpec
CONSTANTS
  p1 = p1
  p2 = p2
  c1 = c1
  c2 = c2
  c3 = c3
  k1 = k1
  k2 = k2
  k3 = k3
  NoKey = NoKey
  NoCall = NoCall
  NoProcess = NoProcess
  Processes <- MCProcesses
  Calls <- MCCalls
  Keys <- MCKeys
  Faults = TRUE
CHECK_DEADLOCK FALSE
INVARIANTS TypeOK SealedWithStoredKeys KeysBounded RoundTripWithOneKey
PROPERTIES EveryCallEnds
