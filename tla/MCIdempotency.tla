--------------------------- MODULE MCIdempotency ---------------------------
(***************************************************************************)
(* Idempotency on small instances.                                         *)
(***************************************************************************)
EXTENDS Idempotency

CONSTANTS k1, k2, b1, b2
=============================================================================
