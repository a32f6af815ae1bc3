-------------------------- MODULE MCCircuitBreaker --------------------------
(***************************************************************************)
(* CircuitBreaker on small instances.                                      *)
(***************************************************************************)
EXTENDS CircuitBreaker

CONSTANTS call1, call2, call3
=============================================================================
