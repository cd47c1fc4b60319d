-------------------------- MODULE MCEventDelivery --------------------------
(* One browser, a few records; queue and history of the length of a batch. *)
EXTENDS EventDelivery

ASSUME QueueLimit >= MaxBatch
=============================================================================
