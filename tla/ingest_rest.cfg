CONSTANTS
  d1 = d1
  d2 = d2
  c1 = c1
  c2 = c2
  w1 = w1
  w2 = w2
  None = None
  Doc <- TwoDocs
  Content <- TwoContents
  Worker <- OneWorker
  Part <- TwoParts
  MaxOps = 3
  Kinds <- Operations
  Faults <- CleanFaults
  Serialized = TRUE
  Crashes = FALSE
SPECIFICATION FairSpec
INVARIANT RestComplete
PROPERTY Processed
PROPERTY Published
PROPERTY ImplementsGate
