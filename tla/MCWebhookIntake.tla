-------------------------- MODULE MCWebhookIntake --------------------------
EXTENDS WebhookIntake

CONSTANTS d1, d2, p1, p2

\* A delivery with work in it is sent twice, another once.
MCAttempts == [d \in Delivery |-> IF d \in TaskDelivery THEN 2 ELSE 1]
=============================================================================
