---------------------------- MODULE MCEventStream ----------------------------
(* EventStream with two consumers.                                         *)
EXTENDS EventStream

CONSTANTS c1, c2

MCConsumers == {c1, c2}

=============================================================================
