-------------------------- MODULE MCQueueProtocol ---------------------------
(* Three clients, two items, one stop.                                       *)
EXTENDS QueueProtocol
=============================================================================
