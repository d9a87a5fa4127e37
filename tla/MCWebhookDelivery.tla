------------------------- MODULE MCWebhookDelivery -------------------------
EXTENDS WebhookDelivery, TLC

CONSTANTS v1, v2, e1, e2, p1, p2

(* e1 wants both kinds of events, e2 only the first.                       *)
OneWantsAll == {<<v1, e1>>, <<v2, e1>>, <<v1, e2>>}
=============================================================================
