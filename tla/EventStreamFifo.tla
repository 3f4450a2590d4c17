--------------------------- MODULE EventStreamFifo ---------------------------
(***************************************************************************)
(* With a single consumer EventStream implements LossyFifo.                *)
(***************************************************************************)
EXTENDS EventStream

CONSTANT me   \* the consumer

ASSUME SingleConsumer == Consumers = {me}

\* What is waiting for the consumer: the event its get task holds comes first.
Waiting == (IF get[me] = "done" THEN <<item[me]>> ELSE <<>>) \o buffer

Fifo == INSTANCE LossyFifo WITH pipe <- Waiting, last <- emitted

(***************************************************************************)
(* events() is a FIFO queue that loses events only when it is full.        *)
(***************************************************************************)
ImplementsFifo == Fifo!Spec

=============================================================================
