CONSTANTS
  d1 = d1
  d2 = d2
  c1 = c1
  w1 = w1
  None = None
  Doc <- TwoDocs
  Content <- OneContent
  Worker <- OneWorker
  Part <- TwoParts
  MaxOps = 3
  Kinds <- Operations
  Faults <- SomeFaults
  Serialized = TRUE
  Crashes = TRUE
  Exclusive = TRUE
  MaxSweeps = 1
SPECIFICATION SweepSpec
INVARIANT SweepTypeOK
INVARIANT Realigned
PROPERTY NeverExposes
PROPERTY SparesTheLiving
SYMMETRY Symmetry
