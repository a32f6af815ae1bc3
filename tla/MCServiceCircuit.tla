-------------------------- MODULE MCServiceCircuit --------------------------
(***************************************************************************)
(* ServiceCircuit on small instances.                                      *)
(***************************************************************************)
EXTENDS ServiceCircuit

CONSTANTS call1, call2, call3, request1
=============================================================================
