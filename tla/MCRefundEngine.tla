--------------------------- MODULE MCRefundEngine ---------------------------
(***************************************************************************)
(* RefundEngine on small instances.                                        *)
(***************************************************************************)
EXTENDS RefundEngine

CONSTANTS tick1, tick2

\* Each threshold of the policy on both sides, and each outcome of a rule.
SomeInputs ==
    [rule: {"none", "approved", "rejected", "manual_review"}, disputed: BOOLEAN,
     requested: 1..4, paid: {3}, days: {0, 1}]
=============================================================================
