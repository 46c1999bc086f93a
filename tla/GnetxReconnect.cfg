SPECIFICATION FairSpec
CONSTANTS
  c1 = c1
  c2 = c2
  c3 = c3
  r1 = r1
  r2 = r2
  None = None
  Conns = {c1, c2, c3}
  Requests = {r1}
  Tids <- Sequences
  Keys <- ThreeKeys
  MaxFaults = 2
PROPERTY Reconnects
CHECK_DEADLOCK FALSE
