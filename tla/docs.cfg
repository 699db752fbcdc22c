CONSTANTS
  d1 = d1
  d2 = d2
  t1 = t1
  t2 = t2
  a1 = a1
  r = r
  None = None
  Doc <- TwoDocs
  Payload <- Same
  Kind <- TextAndFile
  Thread <- OneThread
  Admin <- OneAdmin
  Rehydrator = r
  Durable <- BothBackends
  Faults <- FaultPoints
  Overlap = FALSE
  MaxRestarts = 1
SPECIFICATION FairSpec
INVARIANT TypeOK
 
 
PROPERTY StaysServed
 
