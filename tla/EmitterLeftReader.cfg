SPECIFICATION FairEmitterSpec
CONSTANTS
  Values = {v1, v2}
  Subs = {b1}
  Closer = Closer
  Nobody = Nobody
  BufSize = 1
PROPERTIES BoundedWaiting
CHECK_DEADLOCK FALSE
