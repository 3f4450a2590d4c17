----------------------------- MODULE EventStream -----------------------------
(***************************************************************************)
(* The stream of SIA events of one Session (spcedp/client.py): emit_event  *)
(* fills a bounded queue, events() empties it.  Every step of the iterator *)
(* runs a get task and a task waiting for the disconnection, and reaps     *)
(* both before it hands out an event; it may be cancelled at any of its    *)
(* awaits.  Events are numbered in the order they are emitted.             *)
(*                                                                         *)
(* A definition Mutant<D>, just before <D>, is <D> with a bug; nothing     *)
(* uses it but the runs that show that a property would notice the bug.    *)
(***************************************************************************)
EXTENDS Integers, Sequences, SequencesExt

CONSTANTS
  Consumers,   \* the tasks that iterate over events()
  Capacity,    \* EVENT_QUEUE_MAXSIZE
  MaxEvents,   \* bound of the model: events emitted during a session
  MaxCancels   \* bound of the model: cancellations of consumers

ASSUME CapacityAssumption == Capacity \in Nat \ {0}
ASSUME EventsAssumption == MaxEvents \in Nat
ASSUME CancelsAssumption == MaxCancels \in Nat

VARIABLES
  buffer,      \* Session._events
  closed,      \* Session._closed
  pc,          \* per consumer, where its iterator is suspended
  get,         \* per consumer, the state of its get_task
  item,        \* per consumer, the event its get_task took off the queue
  cancelled,   \* per consumer, CancelledError is on its way to it
  emitted,     \* number of events emitted
  out,         \* history: the events handed out, in order
  lost,        \* history: the events dropped by a full queue
  cancels      \* cancellations so far (the bound)

vars == <<buffer, closed, pc, get, item, cancelled, emitted, out, lost, cancels>>

Events == 1 .. MaxEvents
NoEvent == 0

(***************************************************************************)
(* "out": in the consumer's own code (before the iterator's first step, at *)
(* a yield, or after it raised CancelledError); "waiting": in asyncio.wait;*)
(* "reaping": in asyncio.gather; "draining": at the yield of the closing   *)
(* loop; "ended": StopAsyncIteration.                                      *)
(***************************************************************************)
Places == {"out", "waiting", "reaping", "draining", "ended"}

Init ==
  /\ buffer = <<>>
  /\ closed = FALSE
  /\ pc = [c \in Consumers |-> "out"]
  /\ get = [c \in Consumers |-> "none"]
  /\ item = [c \in Consumers |-> NoEvent]
  /\ cancelled = [c \in Consumers |-> FALSE]
  /\ emitted = 0
  /\ out = <<>>
  /\ lost = {}
  /\ cancels = 0

-----------------------------------------------------------------------------
(***************************************************************************)
(* The read loop.                                                          *)
(***************************************************************************)

MutantEmit ==
  /\ emitted < MaxEvents
  /\ emitted' = emitted + 1
  /\ \/ /\ Len(buffer) < Capacity - 1
        /\ buffer' = Append(buffer, emitted + 1)
        /\ UNCHANGED lost
     \/ /\ Len(buffer) >= Capacity - 1
        /\ buffer' = Append(Tail(buffer), emitted + 1)
        /\ lost' = lost \cup {Head(buffer)}
  /\ UNCHANGED <<closed, pc, get, item, cancelled, out, cancels>>

\* emit_event: the oldest event makes room for the new one.  The read loop
\* may still emit events of its current chunk after _closed is set.
Emit ==
  /\ emitted < MaxEvents
  /\ emitted' = emitted + 1
  /\ \/ /\ Len(buffer) < Capacity
        /\ buffer' = Append(buffer, emitted + 1)
        /\ UNCHANGED lost
     \/ /\ Len(buffer) >= Capacity
        /\ buffer' = Append(Tail(buffer), emitted + 1)
        /\ lost' = lost \cup {Head(buffer)}
  /\ UNCHANGED <<closed, pc, get, item, cancelled, out, cancels>>

\* request_teardown.
Close ==
  /\ ~closed
  /\ closed' = TRUE
  /\ UNCHANGED <<buffer, pc, get, item, cancelled, emitted, out, lost, cancels>>

-----------------------------------------------------------------------------
(***************************************************************************)
(* The consumers.                                                          *)
(***************************************************************************)

\* The iterator is asked for an event: both tasks are created.
Pull(c) ==
  /\ pc[c] = "out"
  /\ pc' = [pc EXCEPT ![c] = "waiting"]
  /\ get' = [get EXCEPT ![c] = "running"]
  /\ UNCHANGED <<buffer, closed, item, cancelled, emitted, out, lost, cancels>>

\* get_task runs and finds an event.
Take(c) ==
  /\ get[c] = "running"
  /\ buffer # <<>>
  /\ get' = [get EXCEPT ![c] = "done"]
  /\ item' = [item EXCEPT ![c] = Head(buffer)]
  /\ buffer' = Tail(buffer)
  /\ UNCHANGED <<closed, pc, cancelled, emitted, out, lost, cancels>>

MutantWoken(c) ==
  /\ pc[c] = "waiting"
  /\ get[c] = "done" \/ cancelled[c]
  /\ pc' = [pc EXCEPT ![c] = "reaping"]
  /\ UNCHANGED <<buffer, closed, get, item, cancelled, emitted, out, lost, cancels>>

\* asyncio.wait returns, or raises CancelledError; the `finally` clause
\* cancels what is not done.  A get task that is cancelled takes nothing.
Woken(c) ==
  /\ pc[c] = "waiting"
  /\ get[c] = "done" \/ closed \/ cancelled[c]
  /\ pc' = [pc EXCEPT ![c] = "reaping"]
  /\ get' = [get EXCEPT ![c] = IF @ = "done" THEN "done" ELSE "cancelled"]
  /\ UNCHANGED <<buffer, closed, item, cancelled, emitted, out, lost, cancels>>

\* The consumer's task is cancelled at one of the two awaits.
Cancel(c) ==
  /\ pc[c] \in {"waiting", "reaping"}
  /\ ~cancelled[c]
  /\ cancels < MaxCancels
  /\ cancels' = cancels + 1
  /\ cancelled' = [cancelled EXCEPT ![c] = TRUE]
  /\ UNCHANGED <<buffer, closed, pc, get, item, emitted, out, lost>>

\* The iterator leaves its tasks behind and goes to place p.
Settle(c, p) ==
  /\ pc' = [pc EXCEPT ![c] = p]
  /\ get' = [get EXCEPT ![c] = "none"]
  /\ item' = [item EXCEPT ![c] = NoEvent]
  /\ cancelled' = [cancelled EXCEPT ![c] = FALSE]

MutantRequeue(e) == buffer' = <<e>> \o buffer /\ UNCHANGED lost

MutantRequeueBack(e) ==
  IF Len(buffer) < Capacity
  THEN buffer' = Append(buffer, e) /\ UNCHANGED lost
  ELSE lost' = lost \cup {e} /\ UNCHANGED buffer

\* _requeue_event: the event goes back to the front; what then exceeds the
\* queue's size, the newest event, is dropped.
Requeue(e) ==
  LET items == <<e>> \o buffer IN
  IF Len(items) <= Capacity
  THEN buffer' = items /\ UNCHANGED lost
  ELSE /\ buffer' = SubSeq(items, 1, Capacity)
       /\ lost' = lost \cup {items[i] : i \in Capacity + 1 .. Len(items)}

MutantRaiseCancelled(c) ==
  /\ pc[c] = "reaping"
  /\ cancelled[c]
  /\ Settle(c, "out")
  /\ UNCHANGED <<buffer, closed, emitted, out, lost, cancels>>

\* _requeue_completed_get, after CancelledError has passed the `finally`.
RaiseCancelled(c) ==
  /\ pc[c] = "reaping"
  /\ cancelled[c]
  /\ Settle(c, "out")
  /\ IF get[c] = "done" THEN Requeue(item[c]) ELSE UNCHANGED <<buffer, lost>>
  /\ UNCHANGED <<closed, emitted, out, cancels>>

\* The get task was not cancelled: its event is handed out.
Yield(c) ==
  /\ pc[c] = "reaping"
  /\ ~cancelled[c]
  /\ get[c] = "done"
  /\ Settle(c, "out")
  /\ out' = Append(out, item[c])
  /\ UNCHANGED <<buffer, closed, emitted, lost, cancels>>

MutantDrain(c) ==
  /\ \/ pc[c] = "reaping" /\ ~cancelled[c] /\ get[c] = "cancelled"
     \/ pc[c] = "draining"
  /\ \/ /\ pc[c] = "reaping" /\ buffer # <<>>
        /\ Settle(c, "draining")
        /\ out' = Append(out, Head(buffer))
     \/ /\ pc[c] = "draining" \/ buffer = <<>>
        /\ Settle(c, "ended")
        /\ UNCHANGED out
  /\ UNCHANGED <<buffer, closed, emitted, lost, cancels>>

MutantDrainNothing(c) ==
  /\ pc[c] = "reaping" /\ ~cancelled[c] /\ get[c] = "cancelled"
  /\ Settle(c, "ended")
  /\ UNCHANGED <<buffer, closed, emitted, out, lost, cancels>>

\* It was: the session is closed, and what is left is handed out event by
\* event, the queue being looked at again after every yield.
Drain(c) ==
  /\ \/ pc[c] = "reaping" /\ ~cancelled[c] /\ get[c] = "cancelled"
     \/ pc[c] = "draining"
  /\ \/ /\ buffer # <<>>
        /\ Settle(c, "draining")
        /\ out' = Append(out, Head(buffer))
        /\ buffer' = Tail(buffer)
     \/ /\ buffer = <<>>
        /\ Settle(c, "ended")
        /\ UNCHANGED <<out, buffer>>
  /\ UNCHANGED <<closed, emitted, lost, cancels>>

\* What a consumer does by itself, a cancellation of it aside.
Step(c) == Pull(c) \/ Take(c) \/ Woken(c) \/ RaiseCancelled(c) \/ Yield(c) \/ Drain(c)

Finished ==
  /\ \A c \in Consumers : pc[c] = "ended"
  /\ UNCHANGED vars

Next ==
  \/ Emit
  \/ Close
  \/ \E c \in Consumers : Step(c) \/ Cancel(c)
  \/ Finished

Spec == Init /\ [][Next]_vars

(***************************************************************************)
(* The event loop runs every task that is ready, and a consumer that has   *)
(* an event comes back for the next one (`async for`).                     *)
(***************************************************************************)
FairSpec == Spec /\ \A c \in Consumers : WF_vars(Step(c))

-----------------------------------------------------------------------------
(***************************************************************************)
(* The type of the state.                                                  *)
(***************************************************************************)
TypeOK ==
  /\ buffer \in Seq(Nat) /\ Len(buffer) <= Capacity
  /\ closed \in BOOLEAN
  /\ pc \in [Consumers -> Places]
  /\ get \in [Consumers -> {"none", "running", "done", "cancelled"}]
  /\ item \in [Consumers -> Nat]
  /\ cancelled \in [Consumers -> BOOLEAN]
  /\ emitted \in Nat
  /\ out \in Seq(Nat)
  /\ lost \subseteq Nat
  /\ cancels \in Nat

Held == {item[c] : c \in {d \in Consumers : get[d] = "done"}}

(***************************************************************************)
(* Every event that was emitted is in the queue, with a get task that has  *)
(* not been reaped, handed out, or dropped by a full queue: a cancellation *)
(* or a disconnection between two awaits loses none.                       *)
(***************************************************************************)
NothingVanishes ==
  1 .. emitted \subseteq ToSet(buffer) \cup Held \cup ToSet(out) \cup lost

(***************************************************************************)
(* "Yield buffered events once": no event is handed out twice, nor is one  *)
(* handed out still in the queue or with a get task, whoever asks for it.  *)
(***************************************************************************)
HandedOutOnce ==
  /\ IsInjective(out)
  /\ ToSet(out) \cap (ToSet(buffer) \cup Held) = {}

(***************************************************************************)
(* An event is dropped only by a queue that is full.                       *)
(***************************************************************************)
LossOnlyWhenFull == [][lost' # lost => Len(buffer) = Capacity /\ Len(buffer') = Capacity]_vars

(***************************************************************************)
(* The stream of a consumer ends only after a disconnection, when nothing  *)
(* is left to hand out.                                                    *)
(***************************************************************************)
EndsWhenDrained ==
  [][\A c \in Consumers :
       pc'[c] = "ended" /\ pc[c] # "ended" =>
         closed /\ buffer = <<>> /\ get[c] # "done"]_vars

(***************************************************************************)
(* After a disconnection the stream ends for every consumer.               *)
(***************************************************************************)
ClosedEndsStreams == \A c \in Consumers : closed ~> pc[c] = "ended"

(***************************************************************************)
(* While the session is up, every event is handed out or dropped.          *)
(***************************************************************************)
EventsAreHandedOut ==
  \A e \in Events : emitted >= e ~> (e \in ToSet(out) \cup lost \/ closed)

=============================================================================
