CONSTANTS
  Requests = {q1, q2, q3}
  FailureThreshold = 2
  SuccessThreshold = 2
  HalfOpenRequests = 2
  Timeout = 1
  MaxLag = 1
  MaxLost = 1
SPECIFICATION FairSpec
INVARIANTS TypeOK CountersFitState SlotsAccounted
PROPERTIES OpenIsProbed HalfOpenDecides
