CONSTANTS
  r1 = r1
  s1 = s1
  s2 = s2
  u1 = u1
  u2 = u2
  p1 = p1
  k1 = k1
  a1 = a1
  v1 = v1
  NoService = NoService
  Routes <- MCRoutes
  Services <- MCServices
  Upstreams <- MCUpstreams
  Policies <- MCPolicies
  Keys <- MCKeys
  Audits <- MCAudits
  Snapshots <- MCSnapshots
  Batches <- MCBatches
  MaxVersion = 2
  FsmCap = 1
  NotifyCap = 1
  Disturbed = TRUE
SPECIFICATION Spec
INVARIANTS TypeOK IndexComplete IndexSound KeyIndexExact VersionsGapless StaleHasCause
PROPERTIES DeletionUnbinds AppliesAtomically
