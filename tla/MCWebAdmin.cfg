CONSTANTS
  h1 = h1
  h2 = h2
  p1 = p1
  p2 = p2
  Handlers <- MCHandlers
  MaxEvents = 2
  MaxConns = 2
  Plugins <- MCPlugins
  Keys <- MCKeys
  MaxIds = 2
  MaxLive = 2
  MaxCalls = 4
  MaxAwaits = 2
  Ids <- MCIds
  Perms <- MCPerms
  Grants <- Granted
  Denies <- Denied
  MaxParents = 2
SPECIFICATION Spec
CHECK_DEADLOCK FALSE
INVARIANTS TypeOK ResolverExact PendingIsLatest
PROPERTIES OneFeedPerTopic UnloadExact
