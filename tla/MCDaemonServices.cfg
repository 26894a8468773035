CONSTANTS
  Capacity = 2
  ChanCap = 1
  Resuming = {c1}
  Plain = {c2}
  MaxPushes = 3
  MaxConns = 2
  TraceId <- MCTraceId
  Classes = {k1, k2}
  Interval = 2
  Phase = 1
  MaxTime = 5
  MaxTraces = 3
  MaxRestarts = 1
  Sessions = {s1, s2}
  Calls = {c1, c2}
  Admins = {a1, a2}
  CacheSize = 1
  TTL = 1
  MaxRights = 2
  Resolvers = {c1, c2}
  SecretTTL = 1
  MaxUpdates = 3
  Nodes = {n1, n2}
  MaxUps = 2
  MaxDowns = 1
  MaxGossip = 2
  RestWriters = {rest}
  GrpcWriters = {grpc}
  Agent = agent
  NotifyCap = 1
  InboxCap = 1
  MaxChanges = 3
SPECIFICATION MCFairSpec
CHECK_DEADLOCK FALSE
INVARIANTS TypesOK ResumeHasNoGap PanicOnlyInWindow CountedInOneBucket StaleOnlyIfSpared FreshAfterFlush CountsExact StaleHasReason
PROPERTIES InOrderOnce ConvergesWhenHealthy
