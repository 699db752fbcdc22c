SPECIFICATION Spec
CONSTANTS
  loop = loop
  w1 = w1
  w2 = w2
  u1 = u1
  team = team
  global = global
  Threads <- MCThreads
  Loop = loop
  Users = {u1}
  Depts <- MCDepts
  Global = global
  Foreign = foreign
  Anonymous = anonymous
  Burst <- BurstOfOne
  Refill = 1
  MaxTracked = 1
  MaxEmbeddings = 1
  Regressed = TRUE
  MaxClock = 1
  Requests <- ThreeIngests
INVARIANT TypeOK
INVARIANT OwnScope
 
INVARIANT BudgetHolds
INVARIANT EmbeddingsCapped
INVARIANT NothingForeign
 
