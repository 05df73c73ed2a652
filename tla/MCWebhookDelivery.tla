------------------------- MODULE MCWebhookDelivery -------------------------
\* WebhookDelivery for TLC: deliveries and processes are interchangeable.
EXTENDS WebhookDelivery, TLC
Symmetry == Permutations(Delivery) \cup Permutations(Proc)
=============================================================================
