CONSTANTS
  x1 = x1
  x2 = x2
  b1 = b1
  b2 = b2
  d1 = d1
  d2 = d2
  c1 = c1
  Items = {x1, x2}
  Batches = {b1}
  BatchOf <- OneBatch
  Dispatchers = {d1, d2}
  Callers = {c1}
  TriggerLimit = 1
  MaxFaults = 0
  MaxCalls = 2
SPECIFICATION SerialSpec
INVARIANTS TypeOK ExecutionExclusive FinishedMeansDone AnnouncedOnce
PROPERTY EndedIsFinal
SYMMETRY Symmetry
CHECK_DEADLOCK FALSE
