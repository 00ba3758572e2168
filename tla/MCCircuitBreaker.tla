-------------------------- MODULE MCCircuitBreaker --------------------------
(* Small instances of CircuitBreaker.                                       *)
EXTENDS CircuitBreaker

CONSTANTS r1, r2, r3, g1, g2, g3, g4, g5

(* A row query, a Redis command and a call of another service.              *)
MixedWrapper == [r \in Requests |-> CASE r = r1 -> "row" [] r = r2 -> "redis" [] r = r3 -> "http"]
=============================================================================
