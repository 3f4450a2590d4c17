----------------------------- MODULE Connection -----------------------------
(***************************************************************************)
(* One connection of a PanelServer (spcedp/client.py): the read loop of    *)
(* _handle with its _read_chunk, the writer task behind the bounded write  *)
(* queue, the on_session task, the done-callbacks of both, the tasks in    *)
(* wait_ready, and _teardown.                                              *)
(*                                                                         *)
(* asyncio runs one task at a time, so an action is the code a task runs   *)
(* between two awaits.  The bytes of a chunk are abstracted to the frames  *)
(* that are complete with it.                                              *)
(*                                                                         *)
(* A definition Mutant<D>, just before <D>, is <D> with a bug; nothing     *)
(* uses it but the runs that show that a property would notice the bug.    *)
(***************************************************************************)
EXTENDS Integers, Sequences, FiniteSets

CONSTANTS
  Waiters,      \* the tasks that call wait_ready
  MinPolls,     \* the polls each of them asks for
  WriteMax,     \* WRITE_QUEUE_MAXSIZE
  MaxFrames,    \* bound of the model: frames the panel sends
  MaxCommands   \* bound of the model: commands queued on this connection

ASSUME MinPollsAssumption == MinPolls \in [Waiters -> Nat]
ASSUME WriteMaxAssumption == WriteMax \in Nat \ {0}
ASSUME FramesAssumption == MaxFrames \in Nat
ASSUME CommandsAssumption == MaxCommands \in Nat

VARIABLES
  arrived,    \* number of frames the panel has sent
  inbox,      \* the StreamReader's buffer
  eof,        \* the panel has closed or reset the connection
  handler,    \* where _handle is suspended
  cancelled,  \* CancelledError is on its way to _handle
  read,       \* the state of _read_chunk's read_task
  chunk,      \* what read_task returned
  handled,    \* number of frames given to _dispatch
  owed,       \* history: which of them ask for an acknowledgement
  acked,      \* history: which of those had it queued
  polls,      \* Session._poll_count
  backlog,    \* length of Session._write_queue
  writer,     \* the state of the writer task
  session,    \* the state of the on_session task
  closed,     \* Session._closed (set together with _teardown_requested)
  ready,      \* Session._ready is set
  wait,       \* per waiter, where its wait_ready is
  commands    \* commands queued so far (the bound)

vars == <<arrived, inbox, eof, handler, cancelled, read, chunk, handled, owed, acked,
          polls, backlog, writer, session, closed, ready, wait, commands>>

(***************************************************************************)
(* "event" stands for every frame that is acknowledged and is not a POLL,  *)
(* "reply" for every one that is not, "bad" for bytes at which the decoder *)
(* gives up.                                                               *)
(***************************************************************************)
Kinds == {"poll", "event", "reply", "bad"}
Acknowledged == {"poll", "event"}
Kind(frames) == {frames[i] : i \in DOMAIN frames}

(***************************************************************************)
(* _handle is "reading" (in asyncio.wait), "reaping" (in the `finally` of  *)
(* _read_chunk), "closing" (awaiting the background tasks in _teardown),   *)
(* "flushing" (the writer is closed, in wait_closed) or "done".            *)
(***************************************************************************)
Loop == {"reading", "reaping"}
Over == {"flushing", "done"}

Init ==
  /\ arrived = 0
  /\ inbox = <<>>
  /\ eof = FALSE
  /\ handler = "reading"
  /\ cancelled = FALSE
  /\ read = "running"
  /\ chunk = <<>>
  /\ handled = 0
  /\ owed = {}
  /\ acked = {}
  /\ polls = 0
  /\ backlog = 0
  /\ writer = "running"
  /\ session = "none"
  /\ closed = FALSE
  /\ ready = FALSE
  /\ wait = [w \in Waiters |-> "out"]
  /\ commands = 0

-----------------------------------------------------------------------------
(***************************************************************************)
(* The panel.                                                              *)
(***************************************************************************)

Arrive(kind) ==
  /\ ~eof
  /\ arrived < MaxFrames
  /\ arrived' = arrived + 1
  /\ inbox' = Append(inbox, kind)
  /\ UNCHANGED <<eof, handler, cancelled, read, chunk, handled, owed, acked, polls,
                 backlog, writer, session, closed, ready, wait, commands>>

PeerCloses ==
  /\ ~eof
  /\ eof' = TRUE
  /\ UNCHANGED <<arrived, inbox, handler, cancelled, read, chunk, handled, owed, acked,
                 polls, backlog, writer, session, closed, ready, wait, commands>>

-----------------------------------------------------------------------------
(***************************************************************************)
(* The session's signals.                                                  *)
(***************************************************************************)

\* _ready.set() wakes every task in _ready.wait(), unless the event is set already.
WakeWaiters ==
  /\ ready' = TRUE
  /\ wait' = [w \in Waiters |-> IF wait[w] = "blocked" /\ ~ready THEN "woken" ELSE wait[w]]

MutantCloseSession == closed' = TRUE /\ UNCHANGED <<ready, wait>>

\* request_teardown.
CloseSession == closed' = TRUE /\ WakeWaiters

-----------------------------------------------------------------------------
(***************************************************************************)
(* The read loop.                                                          *)
(***************************************************************************)

\* read_task returns what is buffered, at most 4096 bytes of it.
ReadData ==
  /\ read = "running"
  /\ \E k \in 1 .. Len(inbox) :
       /\ chunk' = SubSeq(inbox, 1, k)
       /\ inbox' = SubSeq(inbox, k + 1, Len(inbox))
  /\ read' = "data"
  /\ UNCHANGED <<arrived, eof, handler, cancelled, handled, owed, acked, polls, backlog,
                 writer, session, closed, ready, wait, commands>>

\* read_task returns b"", or raises because the connection was reset, which it
\* may do with data still in the buffer.
ReadEnds ==
  /\ read = "running"
  /\ eof
  /\ read' = "ended"
  /\ UNCHANGED <<arrived, inbox, eof, handler, cancelled, chunk, handled, owed, acked,
                 polls, backlog, writer, session, closed, ready, wait, commands>>

\* asyncio.wait is over: on its tasks, its timeout or a cancellation.  A read
\* task that is not done by now is cancelled and leaves the data alone.
StopWaiting ==
  /\ handler = "reading"
  /\ handler' = "reaping"
  /\ read' = IF read = "running" THEN "cancelled" ELSE read
  /\ UNCHANGED <<arrived, inbox, eof, cancelled, chunk, handled, owed, acked, polls,
                 backlog, writer, session, closed, ready, wait, commands>>

ReadWoken ==
  /\ read # "running" \/ closed \/ cancelled
  /\ StopWaiting

MutantIdleTimeout == FALSE /\ StopWaiting

IdleTimeout ==
  /\ read = "running"
  /\ StopWaiting

\* The task of _handle is cancelled.  Later cancellations change nothing:
\* _teardown passes them on to the task it is waiting for.
CancelHandler ==
  /\ handler \in Loop
  /\ ~cancelled
  /\ cancelled' = TRUE
  /\ UNCHANGED <<arrived, inbox, eof, handler, read, chunk, handled, owed, acked, polls,
                 backlog, writer, session, closed, ready, wait, commands>>

\* _read_chunk gives no data, or data that cannot be decoded (the frames
\* before it in the chunk are not dispatched either): _teardown runs to its
\* first await.
LeaveLoop ==
  /\ handler = "reaping"
  /\ cancelled \/ read # "data" \/ "bad" \in Kind(chunk)
  /\ handler' = "closing"
  /\ chunk' = <<>>
  /\ CloseSession
  /\ UNCHANGED <<arrived, inbox, eof, cancelled, read, handled, owed, acked, polls,
                 backlog, writer, session, commands>>

MutantRoom(n) == n

\* How many of n frames the write queue takes.
Room(n) == IF backlog + n > WriteMax THEN WriteMax - backlog ELSE n

\* The n smallest numbers of S.
Least(S, n) == {a \in S : Cardinality({b \in S : b < a}) < n}

MutantTearsDown(full) == closed

\* The head of the loop, after a chunk; full: the write queue refused a frame.
TearsDown(full) == closed \/ full

MutantDispatchAcks(acks) ==
  /\ backlog + Cardinality(acks) <= WriteMax
  /\ owed' = owed \cup acks
  /\ acked' = acked \cup acks
  /\ backlog' = backlog + Cardinality(acks)

\* reply_echo, for every frame in acks.
DispatchAcks(acks) ==
  /\ owed' = owed \cup acks
  /\ acked' = acked \cup Least(acks, Room(Cardinality(acks)))
  /\ backlog' = backlog + Room(Cardinality(acks))

\* A chunk is dispatched frame by frame, on_session is started with the first
\* frame of the connection, and the loop reads on or runs into _teardown.
HandleChunk ==
  LET acks == {handled + i : i \in {j \in DOMAIN chunk : chunk[j] \in Acknowledged}}
      polled == {i \in DOMAIN chunk : chunk[i] = "poll"}
  IN
  /\ handler = "reaping"
  /\ ~cancelled /\ read = "data" /\ "bad" \notin Kind(chunk)
  /\ DispatchAcks(acks)
  /\ handled' = handled + Len(chunk)
  /\ polls' = polls + Cardinality(polled)
  /\ session' = IF session = "none" THEN "running" ELSE session
  /\ chunk' = <<>>
  /\ IF TearsDown(Room(Cardinality(acks)) < Cardinality(acks))
     THEN handler' = "closing" /\ CloseSession /\ UNCHANGED read
     ELSE /\ handler' = "reading"
          /\ read' = "running"
          /\ IF polled = {} THEN UNCHANGED <<ready, wait>> ELSE WakeWaiters
          /\ UNCHANGED closed
  /\ UNCHANGED <<arrived, inbox, eof, cancelled, writer, commands>>

MutantTasksAwaited == writer # "running"

\* Both background tasks are over.
TasksAwaited == writer # "running" /\ session # "running"

\* _teardown has awaited both and closes the writer,
CloseWriter ==
  /\ handler = "closing"
  /\ TasksAwaited
  /\ handler' = "flushing"
  /\ UNCHANGED <<arrived, inbox, eof, cancelled, read, chunk, handled, owed, acked, polls,
                 backlog, writer, session, closed, ready, wait, commands>>

\* which the transport reports once it has sent, or given up, what it buffers.
Flushed ==
  /\ handler = "flushing"
  /\ handler' = "done"
  /\ UNCHANGED <<arrived, inbox, eof, cancelled, read, chunk, handled, owed, acked, polls,
                 backlog, writer, session, closed, ready, wait, commands>>

-----------------------------------------------------------------------------
(***************************************************************************)
(* The writer task.                                                        *)
(***************************************************************************)

\* A frame is written and drained; a peer that does not read delays this for ever.
Write ==
  /\ writer = "running"
  /\ handler \in Loop
  /\ backlog > 0
  /\ backlog' = backlog - 1
  /\ UNCHANGED <<arrived, inbox, eof, handler, cancelled, read, chunk, handled, owed, acked,
                 polls, writer, session, closed, ready, wait, commands>>

\* A write or drain raises: the loop returns.
WriterFails ==
  /\ writer = "running"
  /\ handler \in Loop
  /\ writer' = "failed"
  /\ UNCHANGED <<arrived, inbox, eof, handler, cancelled, read, chunk, handled, owed, acked,
                 polls, backlog, session, closed, ready, wait, commands>>

\* _teardown has cancelled it.
WriterCancelled ==
  /\ writer = "running"
  /\ handler = "closing"
  /\ writer' = "cancelled"
  /\ UNCHANGED <<arrived, inbox, eof, handler, cancelled, read, chunk, handled, owed, acked,
                 polls, backlog, session, closed, ready, wait, commands>>

MutantWriterDone == FALSE /\ CloseSession

\* _on_writer_done.
WriterDone ==
  /\ writer = "failed"
  /\ ~closed
  /\ CloseSession
  /\ UNCHANGED <<arrived, inbox, eof, handler, cancelled, read, chunk, handled, owed, acked,
                 polls, backlog, writer, session, commands>>

-----------------------------------------------------------------------------
(***************************************************************************)
(* The on_session task, code of the application (external).                *)
(***************************************************************************)

\* It, or a task that it has started and that outlives it, sends a command; only
\* a command on an open session gets as far as _send.
SendCommand ==
  /\ session # "none"
  /\ ~closed
  /\ commands < MaxCommands
  /\ commands' = commands + 1
  /\ backlog' = backlog + Room(1)
  /\ IF Room(1) = 0 THEN CloseSession ELSE UNCHANGED <<closed, ready, wait>>
  /\ UNCHANGED <<arrived, inbox, eof, handler, cancelled, read, chunk, handled, owed, acked,
                 polls, writer, session>>

\* It ends, by itself or because _teardown has cancelled it.
SessionEnds ==
  /\ session = "running"
  /\ session' \in {"returned", "crashed", "cancelled"}
  /\ UNCHANGED <<arrived, inbox, eof, handler, cancelled, read, chunk, handled, owed, acked,
                 polls, backlog, writer, closed, ready, wait, commands>>

\* _on_session_done.
SessionDone ==
  /\ session = "crashed"
  /\ ~closed
  /\ CloseSession
  /\ UNCHANGED <<arrived, inbox, eof, handler, cancelled, read, chunk, handled, owed, acked,
                 polls, backlog, writer, session, commands>>

-----------------------------------------------------------------------------
(***************************************************************************)
(* wait_ready.                                                             *)
(***************************************************************************)

\* The loop of wait_ready up to its next await, on the call and on every wake: it
\* clears the event that all waiters share before it sleeps.
WaitReady(w) ==
  /\ wait[w] \in {"out", "woken"}
  /\ wait' = [wait EXCEPT ![w] = IF polls >= MinPolls[w] THEN "ready"
                                 ELSE IF closed THEN "lost" ELSE "blocked"]
  /\ ready' = (ready /\ wait'[w] # "blocked")
  /\ UNCHANGED <<arrived, inbox, eof, handler, cancelled, read, chunk, handled, owed, acked,
                 polls, backlog, writer, session, closed, commands>>

Finished ==
  /\ handler = "done"
  /\ UNCHANGED vars

Next ==
  \/ \E kind \in Kinds : Arrive(kind)
  \/ PeerCloses
  \/ ReadData \/ ReadEnds \/ ReadWoken \/ IdleTimeout \/ CancelHandler
  \/ LeaveLoop \/ HandleChunk \/ CloseWriter \/ Flushed
  \/ Write \/ WriterFails \/ WriterCancelled \/ WriterDone
  \/ SendCommand \/ SessionEnds \/ SessionDone
  \/ \E w \in Waiters : WaitReady(w)
  \/ Finished

Spec == Init /\ [][Next]_vars

(***************************************************************************)
(* The event loop runs every task and callback that is ready, and a        *)
(* cancelled task ends (the application's, too: assumed).  Nothing is      *)
(* assumed of the panel, which need not send, nor read what we write; nor  *)
(* of idle_timeout, which may be None.                                     *)
(***************************************************************************)
FairSpec ==
  /\ Spec
  /\ WF_vars(ReadData \/ ReadEnds)
  /\ WF_vars(ReadWoken)
  /\ WF_vars(LeaveLoop \/ HandleChunk)
  /\ WF_vars(CloseWriter)
  /\ WF_vars(WriterCancelled)
  /\ WF_vars(WriterDone)
  /\ WF_vars(handler = "closing" /\ SessionEnds)
  /\ WF_vars(SessionDone)
  /\ \A w \in Waiters : WF_vars(WaitReady(w))

-----------------------------------------------------------------------------
(***************************************************************************)
(* The type of the state; the write queue is bounded.                      *)
(***************************************************************************)
TypeOK ==
  /\ arrived \in Nat /\ handled \in Nat /\ polls \in Nat /\ commands \in Nat
  /\ inbox \in Seq(Kinds) /\ chunk \in Seq(Kinds)
  /\ eof \in BOOLEAN /\ cancelled \in BOOLEAN /\ closed \in BOOLEAN /\ ready \in BOOLEAN
  /\ handler \in Loop \cup {"closing"} \cup Over
  /\ read \in {"running", "data", "ended", "cancelled"}
  /\ owed \subseteq 1 .. handled /\ acked \subseteq owed
  /\ backlog \in 0 .. WriteMax
  /\ writer \in {"running", "failed", "cancelled"}
  /\ session \in {"none", "running", "returned", "crashed", "cancelled"}
  /\ wait \in [Waiters -> {"out", "blocked", "woken", "ready", "lost"}]

(***************************************************************************)
(* "Tear the session down rather than silently drop an outbound ACK": the  *)
(* acknowledgements queued are those owed, in order and without a gap, and *)
(* the read loop never goes on after one was dropped.                      *)
(***************************************************************************)
AcksHaveNoGap ==
  /\ \A a \in acked, b \in owed \ acked : a < b
  /\ handler \in Loop => acked = owed

(***************************************************************************)
(* No wakeup is lost between the tasks that share _ready, though each      *)
(* clears it for all: whoever sleeps in wait_ready still lacks polls, and  *)
(* the session is open.                                                    *)
(***************************************************************************)
NoLostWakeup ==
  \A w \in Waiters : wait[w] = "blocked" => ~closed /\ polls < MinPolls[w]

(***************************************************************************)
(* The socket is closed only after both background tasks are over, and     *)
(* none is started later: neither outlives the handler of its connection.  *)
(***************************************************************************)
NothingOutlivesHandler ==
  handler \in Over => writer # "running" /\ session # "running" /\ closed

(***************************************************************************)
(* "A stuck writer must not block the read/dispatch path": every frame is  *)
(* dispatched unless the connection goes down, whatever the writer does.   *)
(***************************************************************************)
ReadLoopNeverStalls ==
  \A n \in 1 .. MaxFrames : arrived >= n ~> (handled >= n \/ handler \notin Loop)

(***************************************************************************)
(* Not "mute but alive": a writer that fails, an on_session that crashes   *)
(* and a teardown that anyone requests bring the connection down; the read *)
(* loop notices while it is blocked on the socket.                         *)
(***************************************************************************)
MuteIsNotAlive ==
  (writer = "failed" \/ session = "crashed" \/ closed) ~> handler \in Over

(***************************************************************************)
(* With an idle_timeout, a panel that falls silent, as it does here after  *)
(* MaxFrames frames, is disconnected.                                      *)
(***************************************************************************)
SilenceEndsConnection ==
  WF_vars(ReadWoken \/ IdleTimeout) => (arrived = MaxFrames ~> handler \in Over)

Tasks == INSTANCE Handler WITH
  handler <- IF handler \in Loop THEN "reading" ELSE IF handler = "done" THEN "none" ELSE handler,
  session <- IF handler = "done" \/ session = "none" THEN "none"
             ELSE IF session = "running" THEN "running" ELSE "over"

(***************************************************************************)
(* The handler and its on_session live the way Server takes them to.       *)
(***************************************************************************)
ImplementsHandler == Tasks!Spec

=============================================================================
