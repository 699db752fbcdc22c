CONSTANTS
  u1 = u1
  u2 = u2
  t1 = t1
  t2 = t2
  c1 = c1
  q1 = q1
  q2 = q2
  User <- TwoUsers
  FirstUsers <- OneUser
  Team <- TwoTeams
  FirstTeams <- OneTeam
  Conv <- OneConv
  Request <- TwoRequests
  NoTeam = NoTeam
  Org = Org
  Limits <- TwoLimits
  Charged <- NoneOrOne
  Prompt = 1
  Remainders <- NoneOrTwo
  Live <- Proxies
  Roles <- Nodes
  MaxEdits = 1
SPECIFICATION Spec
INVARIANT TypeOK
 
INVARIANT Threaded
INVARIANT SyncTrue
PROPERTY Ledger
PROPERTY KeptMessages
 
SYMMETRY Symmetry
