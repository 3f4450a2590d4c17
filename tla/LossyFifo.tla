------------------------------ MODULE LossyFifo ------------------------------
(***************************************************************************)
(* What events() promises to its consumer: events come out in the order    *)
(* they went in, each at most once, and one is lost only when Capacity     *)
(* others are waiting.  Abstract: no tasks, no cancellation, no requeue.   *)
(***************************************************************************)
EXTENDS Integers, Sequences, SequencesExt

CONSTANT Capacity

VARIABLES
  pipe,   \* the events that are waiting, oldest first
  out,    \* the events that came out
  last    \* the number of events that went in

Init == pipe = <<>> /\ out = <<>> /\ last = 0

\* The next event goes in.
Put ==
  /\ pipe' = Append(pipe, last + 1)
  /\ last' = last + 1
  /\ UNCHANGED out

\* It goes in at the expense of the oldest event, or of the one behind it
\* when the oldest is already on its way out.
PutLossy ==
  /\ Len(pipe) >= Capacity
  /\ \E i \in {1, 2} \cap DOMAIN pipe : pipe' = Append(RemoveAt(pipe, i), last + 1)
  /\ last' = last + 1
  /\ UNCHANGED out

\* The newest event is given up.
DropNewest ==
  /\ Len(pipe) > Capacity
  /\ pipe' = Front(pipe)
  /\ UNCHANGED <<out, last>>

\* The oldest event comes out.
Get ==
  /\ pipe # <<>>
  /\ out' = Append(out, Head(pipe))
  /\ pipe' = Tail(pipe)
  /\ UNCHANGED last

Next == Put \/ PutLossy \/ DropNewest \/ Get

Spec == Init /\ [][Next]_<<pipe, out, last>>

=============================================================================
