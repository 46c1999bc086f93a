CONSTANTS
  j1 = j1
  i1 = i1
  i2 = i2
  w1 = w1
  w2 = w2
  a1 = a1
  Jobs = {j1}
  Instances = {i1}
  Workers = {w1, w2}
  Admins = {a1}
  Configs <- TwoLeases
  MaxTime = 3
  MaxFaults = 0
  MaxCalls = 3
  FaultHorizon = 4
SPECIFICATION TimelySpec

PROPERTY NoForeignCompletion
CHECK_DEADLOCK FALSE
