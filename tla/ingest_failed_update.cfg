CONSTANTS
  d1 = d1
  d2 = d2
  c1 = c1
  c2 = c2
  w1 = w1
  w2 = w2
  None = None
  Doc <- OneDoc
  Content <- TwoContents
  Worker <- OneWorker
  Part <- TwoParts
  MaxOps = 2
  Kinds <- UpdateAndCreate
  Faults <- CompensateFaults
  Serialized = TRUE
  Crashes = FALSE
SPECIFICATION Spec
INVARIANT ServesRecordedContent
