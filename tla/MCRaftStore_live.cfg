CONSTANTS
  r1 = r1
  r2 = r2
  s1 = s1
  s2 = s2
  u1 = u1
  p1 = p1
  k1 = k1
  v1 = v1
  NoService = NoService
  Routes <- MCRoutes
  Services <- MCServices
  Upstreams <- MCUpstreams
  Policies <- MCPolicies
  Keys <- MCKeys
  Audits <- MCAudits
  Snapshots <- MCSnapshots
  Nodes = {n1, n2}
  Batches <- MCSingleBatches
  MaxLog = 2
  MaxCrashes = 2
SPECIFICATION FairSpec
CHECK_DEADLOCK FALSE
PROPERTIES EventuallyCaughtUp
