SPECIFICATION FairSpec
CONSTANTS
  c1 = c1
  c2 = c2
  c3 = c3
  r1 = r1
  r2 = r2
  None = None
  Conns = {c1, c2}
  Requests = {r1, r2}
  Tids <- Sequences
  Keys <- TwoKeys
  MaxFaults = 1
INVARIANTS TypeOK OneConnection OwnAnswer WaitersTended ClosedClean
PROPERTIES RequestsEnd PoolImplemented
CHECK_DEADLOCK FALSE
