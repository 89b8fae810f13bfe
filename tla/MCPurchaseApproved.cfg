SPECIFICATION Spec
CONSTANTS
  w1 = w1
  w2 = w2
  p1 = p1
  p2 = p2
  o1 = o1
  o2 = o2
  c1 = c1
  c2 = c2
  NoCode = NoCode
  NoPr = NoPr
  Workers <- MCTwoWorkers
  Prs <- MCOnePr
  Pos <- MCOnePo
  DocCodes <- MCOneCode
  MaxRequests = 5
CHECK_DEADLOCK FALSE
SYMMETRY MCWorkerSymmetry
PROPERTIES OrderedWhileApproved
