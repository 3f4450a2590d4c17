-------------------------- MODULE MCEventStreamFifo --------------------------
(* EventStreamFifo on a small queue.                                       *)
EXTENDS EventStreamFifo

MCConsumers == {me}

=============================================================================
