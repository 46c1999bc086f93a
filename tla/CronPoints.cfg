CONSTANTS
  j1 = j1
  i1 = i1
  i2 = i2
  w1 = w1
  w2 = w2
  a1 = a1
  Jobs = {j1}
  Instances = {i1, i2}
  Workers = {w1, w2}
  Admins = {a1}
  Configs <- Sparse
  MaxTime = 5
  MaxFaults = 1
  MaxCalls = 2
  FaultHorizon = 4
SYMMETRY Symmetry
SPECIFICATION DisciplinedSpec
INVARIANTS TypeOK
PROPERTIES LeaseImplemented OnlyHolderCompletes PlanPointsServedInOrder ClaimSeesCurrentPoint
CHECK_DEADLOCK FALSE
