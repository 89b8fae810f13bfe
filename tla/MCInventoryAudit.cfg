SPECIFICATION Spec
CONSTANTS
  w1 = w1
  w2 = w2
  i1 = i1
  i2 = i2
  s1 = s1
  s2 = s2
  NoSku = NoSku
  Workers <- MCOneWorker
  Items <- MCOneItem
  Skus <- MCOneSku
  Quantities <- MCQuantities
  MaxInt = 4
  MaxRequests = 2
CHECK_DEADLOCK FALSE
INVARIANTS AuditComplete
