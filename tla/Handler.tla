------------------------------- MODULE Handler -------------------------------
(***************************************************************************)
(* The life of one connection's handler (PanelServer._handle) and of the   *)
(* on_session task it owns, without what either does: the task is started  *)
(* by the read loop, once, and is over before the socket is closed.  Both  *)
(* Connection, in detail, and Server, for several of them, implement it.   *)
(***************************************************************************)

VARIABLES
  handler,   \* "none", "reading", "closing" (awaits its tasks) or "flushing"
  session    \* "none", "running" or "over"

vars == <<handler, session>>

Init == handler \in {"none", "reading"} /\ session = "none"

Begin ==
  /\ handler = "none"
  /\ handler' = "reading"
  /\ UNCHANGED session

\* The first frame, which may be the last as well.
Dispatch ==
  /\ handler = "reading" /\ session = "none"
  /\ session' = "running"
  /\ handler' \in {"reading", "closing"}

LeaveLoop ==
  /\ handler = "reading"
  /\ handler' = "closing"
  /\ UNCHANGED session

SessionEnds ==
  /\ session = "running"
  /\ session' = "over"
  /\ UNCHANGED handler

CloseWriter ==
  /\ handler = "closing" /\ session # "running"
  /\ handler' = "flushing"
  /\ UNCHANGED session

Done ==
  /\ handler = "flushing"
  /\ handler' = "none"
  /\ session' = "none"

Next == Begin \/ Dispatch \/ LeaveLoop \/ SessionEnds \/ CloseWriter \/ Done

Spec == Init /\ [][Next]_vars

=============================================================================
