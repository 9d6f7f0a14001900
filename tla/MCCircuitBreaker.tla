-------------------------- MODULE MCCircuitBreaker --------------------------
(* CircuitBreaker on a small instance.                                      *)
EXTENDS CircuitBreaker
=============================================================================
