SPECIFICATION LibrariesSpec
CONSTANTS
  Sessions = {s1, s2}
  Workers = {w1}
  Clients = {c1, c2}
  NoSession = NoSession
  NoClient = NoClient
  MaxEvents = 2
  Topics = {t1, t2}
  Configured = {t2}
  ReadyTopic = t1
  Adders = {a1}
  Nothing = Nothing
  MaxConnections = 2
  Values = {v1, v2}
  Subs = {b1, b2}
  Closer = Closer
  Nobody = Nobody
  BufSize = 1
  Receivers = {r1, r2}
  MaxSends = 2
  N = 3
  Capacity = 2
  NoError = NoError
INVARIANTS LibrariesTypeOK ListenerCatchesUp StoppedEmpty ClosingsSeenThrough HandlersSubscribed EmitterLocks SubscribersServed NoSleepOverValues InvokeAnswers
PROPERTIES RegistryImplemented ClosedForGood SubscriptionsRestored EmitterSettles
CHECK_DEADLOCK FALSE
