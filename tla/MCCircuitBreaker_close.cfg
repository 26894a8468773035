CONSTANTS
  Requests = {q1, q2}
  FailureThreshold = 1
  SuccessThreshold = 1
  HalfOpenRequests = 1
  Timeout = 1
  MaxLag = 1
  MaxLost = 0
SPECIFICATION Spec
PROPERTIES ClosesOnProbe
