CONSTANTS
  x1 = x1
  x2 = x2
  b1 = b1
  b2 = b2
  d1 = d1
  d2 = d2
  c1 = c1
  Items = {x1}
  Batches = {b1}
  BatchOf <- OneItem
  Dispatchers = {d1}
  Callers = {c1}
  TriggerLimit = 1
  MaxFaults = 0
  MaxCalls = 1
SPECIFICATION Spec
PROPERTY EndedIsFinal
CHECK_DEADLOCK FALSE
