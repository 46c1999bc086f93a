CONSTANTS
  j1 = j1
  i1 = i1
  i2 = i2
  w1 = w1
  w2 = w2
  a1 = a1
  Jobs = {j1}
  Instances = {i1, i2}
  Workers = {w1, w2}
  Admins = {a1}
  Configs <- Sparse
  MaxTime = 7
  MaxFaults = 2
  MaxCalls = 0
  FaultHorizon = 4
SPECIFICATION FairSpec
PROPERTIES PointsEventuallyServed
CHECK_DEADLOCK FALSE
