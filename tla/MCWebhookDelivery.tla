------------------------- MODULE MCWebhookDelivery -------------------------
(***************************************************************************)
(* WebhookDelivery on small instances.                                     *)
(***************************************************************************)
EXTENDS WebhookDelivery

CONSTANTS m1, pass1, pass2
=============================================================================
