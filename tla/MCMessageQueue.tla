--------------------------- MODULE MCMessageQueue ---------------------------
(* MessageQueue on a small instance: two callers of get_sample. *)
EXTENDS MessageQueueAlone, TLC

ConsumerSymmetry == Permutations(Consumers)
=============================================================================
