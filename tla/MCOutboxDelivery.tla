-------------------------- MODULE MCOutboxDelivery --------------------------
(* Instances of OutboxDelivery for TLC.                                    *)
EXTENDS OutboxDelivery

MCBatch == <<2, 1>>
=============================================================================
