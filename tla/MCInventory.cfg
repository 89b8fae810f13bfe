SPECIFICATION Spec
CONSTANTS
  w1 = w1
  w2 = w2
  i1 = i1
  i2 = i2
  s1 = s1
  s2 = s2
  NoSku = NoSku
  Workers <- MCTwoWorkers
  Items <- MCTwoItems
  Skus <- MCTwoSkus
  Quantities <- MCQuantities
  MaxInt = 4
  MaxRequests = 5
CHECK_DEADLOCK FALSE
SYMMETRY MCSymmetry
INVARIANTS TypeOK StockInRange UniqueSku LedgerUnlessOvertaken AuditAccounted
PROPERTIES QuantityMovesWithLedger ImplementsContract
