SPECIFICATION ApplicationsSpec
CONSTANTS
  Requests = {r1, r2}
  Keys = {k1, k2}
  None = None
  Egresses = {e1, e2}
  Calls = {g1, g2}
  Hook = Hook
  Unlocked = Unlocked
  Bounds <- MCBounds
INVARIANTS ApplicationsTypeOK EntriesExpire OneRecording FileArrives
PROPERTIES PoolImplemented TargetsFreed FinalStays RowsSettle
CHECK_DEADLOCK FALSE
