----------------------------- MODULE MCJobQueue -----------------------------
(***************************************************************************)
(* JobQueue on small instances.                                            *)
(***************************************************************************)
EXTENDS JobQueue

CONSTANTS tick1, tick2
=============================================================================
