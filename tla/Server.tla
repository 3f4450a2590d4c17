------------------------------- MODULE Server -------------------------------
(***************************************************************************)
(* The lifecycle of a PanelServer (spcedp/client.py): __aenter__,          *)
(* serve_forever, __aexit__ and the set _handlers, with the tasks of its   *)
(* connections as far as leaving the server depends on them (Connection    *)
(* has the rest of them).                                                  *)
(*                                                                         *)
(* asyncio's Server and transports are external.  Server.close() stops     *)
(* accepting, close_clients() closes each transport once what it buffers   *)
(* is sent, wait_closed() returns when every transport is lost.            *)
(*                                                                         *)
(* A definition Mutant<D>, just before <D>, is <D> with a bug; nothing     *)
(* uses it but the runs that show that a property would notice the bug.    *)
(***************************************************************************)
EXTENDS Naturals

CONSTANTS
  Conns,        \* connections, each used again when it is over
  MaxEntries,   \* bound of the model: times the server's context is entered
  MaxCancels    \* bound of the model: cancellations of the task inside it

ASSUME EntriesAssumption == MaxEntries \in Nat
ASSUME CancelsAssumption == MaxCancels \in Nat

VARIABLES
  server,     \* where the task that uses the server is
  waits,      \* calls of wait_closed that it has yet to return from
  outcome,    \* how __aexit__ ended
  handlers,   \* PanelServer._handlers
  awaited,    \* the handlers that __aexit__ gathers
  clients,    \* asyncio: the transports of the listening server
  transport,  \* per connection, the state of its transport
  unsent,     \* the connections with bytes their peer has not taken
  handler,    \* per connection, where its _handle is
  session,    \* per connection, its on_session task
  entries, cancels   \* how often so far (the bounds)

vars == <<server, waits, outcome, handlers, awaited, clients, transport, unsent,
          handler, session, entries, cancels>>
connVars == <<handlers, clients, transport, unsent, handler, session>>

(***************************************************************************)
(* The task is outside the context ("off"), in its body ("serving"), in    *)
(* wait_closed ("stopping") or in __aexit__'s gather ("gathering").        *)
(***************************************************************************)
Places == {"off", "serving", "stopping", "gathering"}

\* __aexit__ has returned, was cancelled in its gather or in wait_closed.
Outcomes == {"none", "returned", "cancelled", "abandoned"}

Init ==
  /\ server = "off"
  /\ waits = 0
  /\ outcome = "none"
  /\ handlers = {}
  /\ awaited = {}
  /\ clients = {}
  /\ transport = [c \in Conns |-> "none"]
  /\ unsent = {}
  /\ handler = [c \in Conns |-> "none"]
  /\ session = [c \in Conns |-> "none"]
  /\ entries = 0
  /\ cancels = 0

-----------------------------------------------------------------------------
(***************************************************************************)
(* The task that uses the server.                                          *)
(***************************************************************************)

\* __aenter__: a new asyncio server; an earlier one is forgotten.
Enter ==
  /\ server = "off"
  /\ entries < MaxEntries
  /\ entries' = entries + 1
  /\ server' = "serving"
  /\ outcome' = "none"
  /\ clients' = {}
  /\ UNCHANGED <<waits, handlers, awaited, transport, unsent, handler, session, cancels>>

MutantStop(n) ==
  /\ server' = "stopping"
  /\ waits' = n
  /\ UNCHANGED transport

\* close() and close_clients(), up to the await of wait_closed().
Stop(n) ==
  /\ server' = "stopping"
  /\ waits' = n
  /\ transport' = [c \in Conns |-> IF c \in clients /\ transport[c] = "open"
                                   THEN "closing" ELSE transport[c]]

\* The body ends, and __aexit__ runs.
LeaveBody ==
  /\ server = "serving"
  /\ Stop(1)
  /\ UNCHANGED <<outcome, handlers, awaited, clients, unsent, handler, session, entries,
                 cancels>>

\* serve_forever is cancelled.  It closes the server itself and waits, then does
\* its `async with`, then __aexit__; the last two find the server closed already
\* unless the wait before them was cancelled.
CancelServing ==
  /\ server = "serving"
  /\ cancels < MaxCancels
  /\ cancels' = cancels + 1
  /\ Stop(3)
  /\ UNCHANGED <<outcome, handlers, awaited, clients, unsent, handler, session, entries>>

MutantClosed == TRUE

\* wait_closed returns.  A handler created before then has begun to run: the
\* event loop runs callbacks in the order in which they became ready.
Closed ==
  /\ clients = {}
  /\ \A c \in Conns : handler[c] # "created"

\* __aexit__ gathers the handlers registered by then, or returns if there is none.
Gather ==
  /\ server = "stopping"
  /\ Closed
  /\ waits' = 0
  /\ awaited' = handlers
  /\ IF handlers = {} THEN server' = "off" /\ outcome' = "returned"
                      ELSE server' = "gathering" /\ UNCHANGED outcome
  /\ UNCHANGED <<connVars, entries, cancels>>

MutantCancelWait ==
  /\ server = "stopping"
  /\ cancels < MaxCancels
  /\ cancels' = cancels + 1
  /\ waits' = waits - 1
  /\ UNCHANGED <<server, outcome, connVars, awaited, entries>>

\* The task is cancelled in wait_closed: __aexit__ is abandoned if it is its own
\* call, otherwise the next one waits.
CancelWait ==
  /\ server = "stopping"
  /\ cancels < MaxCancels
  /\ cancels' = cancels + 1
  /\ waits' = waits - 1
  /\ IF waits = 1 THEN server' = "off" /\ outcome' = "abandoned"
                  ELSE UNCHANGED <<server, outcome>>
  /\ UNCHANGED <<connVars, awaited, entries>>

\* The task is cancelled in the gather, which cancels the handlers: one in its
\* read loop tears down, one that awaits its tasks swallows it, one in the
\* transport's wait_closed is over.
CancelGather ==
  /\ server = "gathering"
  /\ cancels < MaxCancels
  /\ cancels' = cancels + 1
  /\ outcome' = "cancelled"
  /\ handler' = [c \in Conns |->
                   CASE c \in awaited /\ handler[c] = "reading" -> "closing"
                     [] c \in awaited /\ handler[c] = "flushing" -> "none"
                     [] OTHER -> handler[c]]
  /\ handlers' = handlers \ {c \in awaited : handler[c] = "flushing"}
  /\ session' = [c \in Conns |-> IF handler'[c] = "none" THEN "none" ELSE session[c]]
  /\ transport' = [c \in Conns |-> IF handler'[c] = "none" /\ transport[c] = "lost"
                                   THEN "none" ELSE transport[c]]
  /\ UNCHANGED <<server, waits, awaited, clients, unsent, entries>>

\* Every handler of the gather is over.
Gathered ==
  /\ server = "gathering"
  /\ handlers \cap awaited = {}
  /\ server' = "off"
  /\ awaited' = {}
  /\ outcome' = IF outcome = "none" THEN "returned" ELSE outcome
  /\ UNCHANGED <<waits, connVars, entries, cancels>>

-----------------------------------------------------------------------------
(***************************************************************************)
(* The connections.                                                        *)
(***************************************************************************)

\* asyncio accepts a connection and creates the task of its handler.
Accept(c) ==
  /\ server = "serving"
  /\ transport[c] = "none" /\ handler[c] = "none"
  /\ transport' = [transport EXCEPT ![c] = "open"]
  /\ handler' = [handler EXCEPT ![c] = "created"]
  /\ clients' = clients \cup {c}
  /\ UNCHANGED <<server, waits, outcome, handlers, awaited, unsent, session, entries, cancels>>

\* _handle registers itself and begins to read.
Handle(c) ==
  /\ handler[c] = "created"
  /\ handler' = [handler EXCEPT ![c] = "reading"]
  /\ handlers' = handlers \cup {c}
  /\ UNCHANGED <<server, waits, outcome, awaited, clients, transport, unsent, session,
                 entries, cancels>>

\* The first frame starts on_session; the write queue it finds full may end the
\* loop as well.
FirstFrame(c) ==
  /\ handler[c] = "reading"
  /\ session[c] = "none"
  /\ session' = [session EXCEPT ![c] = "running"]
  /\ \E next \in {"reading", "closing"} : handler' = [handler EXCEPT ![c] = next]
  /\ UNCHANGED <<server, waits, outcome, handlers, awaited, clients, transport, unsent,
                 entries, cancels>>

\* The transport buffers bytes that the peer has not taken, or gets rid of them.
Buffers(c) ==
  /\ handler[c] = "reading" /\ transport[c] = "open"
  /\ c \notin unsent
  /\ unsent' = unsent \cup {c}
  /\ UNCHANGED <<server, waits, outcome, handlers, awaited, clients, transport, handler,
                 session, entries, cancels>>

PeerReads(c) ==
  /\ c \in unsent
  /\ unsent' = unsent \ {c}
  /\ UNCHANGED <<server, waits, outcome, handlers, awaited, clients, transport, handler,
                 session, entries, cancels>>

\* The transport is closed and has nothing left to send, or breaks.
Lost(c) ==
  /\ transport[c] \in {"open", "closing"}
  /\ clients' = clients \ {c}
  /\ unsent' = unsent \ {c}
  /\ transport' = [transport EXCEPT ![c] = IF handler[c] = "none" THEN "none" ELSE "lost"]
  /\ UNCHANGED <<server, waits, outcome, handlers, awaited, handler, session, entries, cancels>>

MutantLeaveLoop(c) ==
  /\ handler[c] = "reading"
  /\ transport[c] = "lost"
  /\ handler' = [handler EXCEPT ![c] = "closing"]
  /\ UNCHANGED <<server, waits, outcome, handlers, awaited, clients, transport, unsent,
                 session, entries, cancels>>

\* The read loop ends: end of file, idle timeout, bad bytes, a teardown request.
LeaveLoop(c) ==
  /\ handler[c] = "reading"
  /\ handler' = [handler EXCEPT ![c] = "closing"]
  /\ UNCHANGED <<server, waits, outcome, handlers, awaited, clients, transport, unsent,
                 session, entries, cancels>>

\* on_session (external) ends, by itself or because it is cancelled.
SessionEnds(c) ==
  /\ session[c] = "running"
  /\ session' = [session EXCEPT ![c] = "over"]
  /\ UNCHANGED <<server, waits, outcome, handlers, awaited, clients, transport, unsent,
                 handler, entries, cancels>>

MutantCloseWriter(c) ==
  /\ handler[c] = "closing"
  /\ handler' = [handler EXCEPT ![c] = "flushing"]
  /\ transport' = [transport EXCEPT ![c] = IF @ = "open" THEN "closing" ELSE @]
  /\ UNCHANGED <<server, waits, outcome, handlers, awaited, clients, unsent, session,
                 entries, cancels>>

\* _teardown has awaited its tasks and closes the writer.
CloseWriter(c) ==
  /\ handler[c] = "closing"
  /\ session[c] # "running"
  /\ handler' = [handler EXCEPT ![c] = "flushing"]
  /\ transport' = [transport EXCEPT ![c] = IF @ = "open" THEN "closing" ELSE @]
  /\ UNCHANGED <<server, waits, outcome, handlers, awaited, clients, unsent, session,
                 entries, cancels>>

\* The writer's wait_closed returns, and the done-callback discards the handler.
Done(c) ==
  /\ handler[c] = "flushing"
  /\ transport[c] = "lost"
  /\ handler' = [handler EXCEPT ![c] = "none"]
  /\ handlers' = handlers \ {c}
  /\ transport' = [transport EXCEPT ![c] = "none"]
  /\ session' = [session EXCEPT ![c] = "none"]
  /\ UNCHANGED <<server, waits, outcome, awaited, clients, unsent, entries, cancels>>

\* The server is left for good and nothing of it is left.
Finished ==
  /\ server = "off" /\ entries = MaxEntries
  /\ \A c \in Conns : transport[c] = "none" /\ handler[c] = "none"
  /\ UNCHANGED vars

Use == Enter \/ LeaveBody \/ CancelServing \/ Gather \/ CancelWait \/ CancelGather \/ Gathered

Connect(c) ==
  \/ Accept(c) \/ Handle(c) \/ FirstFrame(c) \/ Buffers(c) \/ PeerReads(c) \/ Lost(c)
  \/ LeaveLoop(c) \/ SessionEnds(c) \/ CloseWriter(c) \/ Done(c)

Next == Use \/ (\E c \in Conns : Connect(c)) \/ Finished

Spec == Init /\ [][Next]_vars

(***************************************************************************)
(* The event loop runs what is ready, a transport that is closed and has   *)
(* nothing left to send reports its end, and a cancelled on_session ends   *)
(* (assumed of the application).  Peers need not read, nor idle_timeout be *)
(* set: PeersRead and IdleTimeouts are premises where they are needed.     *)
(***************************************************************************)
FairSpec ==
  /\ Spec
  /\ WF_vars(Gather) /\ WF_vars(Gathered)
  /\ \A c \in Conns :
       /\ WF_vars(Handle(c))
       /\ WF_vars(transport[c] = "lost" /\ LeaveLoop(c))
       /\ WF_vars(handler[c] = "closing" /\ SessionEnds(c))
       /\ WF_vars(CloseWriter(c))
       /\ WF_vars(transport[c] = "closing" /\ c \notin unsent /\ Lost(c))
       /\ WF_vars(Done(c))

PeersRead == \A c \in Conns : WF_vars(PeerReads(c))
IdleTimeouts == \A c \in Conns : WF_vars(transport[c] = "closing" /\ LeaveLoop(c))

-----------------------------------------------------------------------------
(***************************************************************************)
(* The type of the server's state.                                         *)
(***************************************************************************)
TypeOK ==
  /\ server \in Places /\ outcome \in Outcomes
  /\ waits \in 0 .. 3
  /\ handlers \subseteq Conns /\ awaited \subseteq Conns
  /\ clients \subseteq Conns /\ unsent \subseteq Conns
  /\ transport \in [Conns -> {"none", "open", "closing", "lost"}]
  /\ handler \in [Conns -> {"none", "created", "reading", "closing", "flushing"}]
  /\ session \in [Conns -> {"none", "running", "over"}]
  /\ entries \in 0 .. MaxEntries /\ cancels \in 0 .. MaxCancels

(***************************************************************************)
(* "Leaving the server context closes its accepted connections too": when  *)
(* __aexit__ has returned, or was cancelled in its gather, no handler and  *)
(* no on_session is left, of this use of the server or of an earlier one   *)
(* that was abandoned; when it has returned no transport of this use is.   *)
(***************************************************************************)
NothingOutlivesExit ==
  server = "off" /\ outcome \in {"returned", "cancelled"} =>
    /\ \A c \in Conns : handler[c] = "none" /\ session[c] # "running"
    /\ outcome = "returned" => clients = {}

(***************************************************************************)
(* __aexit__ ends, if the peers take what is buffered for them.            *)
(***************************************************************************)
ExitReturns == PeersRead => (server = "stopping" ~> server = "off")

(***************************************************************************)
(* Peers that do not read cannot keep the application's on_session of a    *)
(* stopping server alive when an idle_timeout is set, though __aexit__ may *)
(* not return.                                                             *)
(***************************************************************************)
StopEndsSessions ==
  IdleTimeouts =>
    \A c \in Conns :
      server = "stopping" /\ c \in clients /\ session[c] = "running" ~> session[c] # "running"

Tasks(c) == INSTANCE Handler WITH
  handler <- IF handler[c] = "created" THEN "none" ELSE handler[c],
  session <- session[c]

(***************************************************************************)
(* Each connection goes through the life that Connection shows in detail.  *)
(***************************************************************************)
HandlersLive == [][\A c \in Conns : [Tasks(c)!Next]_(Tasks(c)!vars)]_vars

=============================================================================
