SPECIFICATION FairSpec
CONSTANTS
  w1 = w1
  w2 = w2
  e1 = e1
  e2 = e2
  NoName = NoName
  Top = Top
  NoUser = NoUser
  NoDept = NoDept
  Workers <- MCTwoWorkers
  Depts <- MCDepts
  DeptNames <- MCDepts
  Emps <- MCEmps
  Usernames <- MCUsernames
  MaxRequests = 2
CHECK_DEADLOCK FALSE
INVARIANTS TypeOK NoParentCycle NoDanglingReference SeedsNotForestalled UniqueNames
PROPERTIES EveryRequestAnswered
