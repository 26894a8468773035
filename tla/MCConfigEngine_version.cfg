CONSTANTS
  r1 = r1
  r2 = r2
  r3 = r3
  p1 = p1
  p2 = p2
  NoService = NoService
  NoRoute = NoRoute
  NoRequest = NoRequest
  Requests = {q1}
  Nodes = {n1, n2}
  Routes <- MCRoutes
  Services = {}
  Upstreams = {}
  Policies <- MCPolicies
  Keys = {}
  Audits = {q1}
  Snapshots <- MCSnapshots
  StartDb <- MCStart
  Changes <- MCChanges
  MaxElections = 0
SPECIFICATION Spec
CHECK_DEADLOCK FALSE
INVARIANTS VersionShowsChange
