SPECIFICATION CommandsSpec
CONSTANTS
  Requests = {r1, r2}
  Keys = {k1}
  None = None
INVARIANTS EveryEntryExpires
CHECK_DEADLOCK FALSE
