CONSTANTS
  d1 = d1
  d2 = d2
  c1 = c1
  c2 = c2
  w1 = w1
  w2 = w2
  None = None
  Doc <- OneDoc
  Content <- OneContent
  Worker <- TwoWorkers
  Part <- TwoParts
  MaxOps = 3
  Kinds <- UpdateAndCreate
  Faults <- NoFaults
  Serialized = FALSE
  Crashes = FALSE
SPECIFICATION Spec
INVARIANT GateClosed
