CONSTANTS
  r1 = r1
  r2 = r2
  r3 = r3
  p1 = p1
  p2 = p2
  NoService = NoService
  NoRoute = NoRoute
  NoRequest = NoRequest
  Requests = {q1, q2}
  Nodes = {n1, n2}
  Routes <- MCRoutes
  Services = {}
  Upstreams = {}
  Policies <- MCPolicies
  Keys = {}
  Audits = {q1, q2}
  Snapshots <- MCSnapshots
  StartDb <- MCStart
  Changes <- MCChanges
  MaxElections = 1
SPECIFICATION FairSpec
CHECK_DEADLOCK FALSE
INVARIANTS TypeOK TraceInOrder DeletedStaysDeleted PoliciesAsDesired
PROPERTIES ExpectedVersionHolds CallsReturn
