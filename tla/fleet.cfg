CONSTANTS
  n1 = n1
  r1 = r1
  r2 = r2
  m1 = m1
  t1 = t1
  t2 = t2
  Node <- OneNode
  Role <- TwoRoles
  Model <- OneModel
  Static = Static
  RoleOf <- FirstRole
  Offers <- BothOrSecond
  Thread <- TwoThreads
  Faults <- FaultPoints
  MaxGen = 2
  MaxRequests = 2
  MaxEdits = 1
SPECIFICATION Spec
INVARIANT TypeOK
 
INVARIANT RowsFollow
INVARIANT NoGhostRoutes
PROPERTY PurgeSparesOthers
SYMMETRY Symmetry
