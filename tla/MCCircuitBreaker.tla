--------------------------- MODULE MCCircuitBreaker ---------------------------
(* CircuitBreaker with a few requests, which are interchangeable.             *)
EXTENDS CircuitBreaker, TLC

RequestSymmetry == Permutations(Requests)
=============================================================================
