# A specification of spcedp

spcedp is an asyncio server for Vanderbilt SPC alarm panels. A panel dials in over TCP, polls, and pushes SIA
events; the application sends it XML and binary commands and keeps a snapshot of its areas and zones. This
directory holds TLA+ modules that model the parts of the library in which tasks, messages and failures meet,
the TLC configurations that check them, and TLAPS proofs of their safety properties.

    tlc -config CommandChannel.cfg MCCommandChannel     # a run; the tables below name module and cfg
    tlapm CommandChannelProofs.tla                      # the proofs of a module

`PROJECT.json` lists the components, runs, hazards, findings and theorems, and ties every definition to the
lines of `src/` it models.

## The system

asyncio runs one task at a time and switches only at an `await`. An action of a module is therefore the code
that one task runs between two awaits, with every call it makes; what may go wrong lies between two actions.

| Component | State it keeps | Operations | What makes it hard | What makes it right |
|---|---|---|---|---|
| **Command channel** (`Session.xml_command`, `binary_command`, `_wait_to_send`, `_alloc_seq`, the reply part of `_dispatch`, `fail_pending`) | command lock, sequence counter, two tables of pending futures, time of the last frame | send a command and gather its reply, in fragments; dispatch a reply; fail everything | several callers, each cancelled or timed out at any await; replies that come late or after teardown; a counter the panel can raise and that wraps | one transaction at a time; a reply reaches its own request; no future is forgotten; every command ends |
| **Event stream** (`emit_event`, `events`, `_requeue_event`) | bounded queue; per iterator a get task and a closed task | emit, iterate, requeue, drain | cancellation while a get task already holds an event; disconnection with events buffered; overflow | each event once, in order, lost only by overflow; a closed stream ends, drained |
| **Connection** (`PanelServer._handle`, `_read_chunk`, `_dispatch`, writer task, `on_session` task, `wait_ready`, `_teardown`) | stream buffer, write queue, three tasks, shared `_ready` event, `_closed` | read and dispatch a chunk, acknowledge, write, time out, tear down | a peer that does not read; a full write queue in the middle of a chunk; a task that dies while the loop is blocked; an event cleared under another waiter | acknowledgements without a gap, no lost wakeup, no mute connection, no background task left running |
| **Stream decoder** (`FrameDecoder`) | buffer, resync budget, anchor of the wait | feed | reads that cut frames anywhere; length prefixes that lie | never waits without bound, never swallows a frame |
| **Panel snapshot** (`Panel`, `Area`, `Zone`) | areas and zones with mode, input, alarm flag | refresh_areas, refresh_zones, apply_event, reconcile_event | a reply being gathered while events are applied; dropped events; skipped rows | alarms survive; the snapshot converges |
| **Server lifecycle** (`PanelServer.__aenter__`, `__aexit__`, `serve_forever`, `_handlers`) | listening socket, set of handler tasks | start, stop, serve | handlers that begin and end while the server stops; cancellation in each of the awaits; peers that do not read | leaving the server leaves nothing behind, and comes to an end |
| **XML requests and replies** (`build_request`, `ReplyAssembler`, `parse_reply`) | the bytes of the fragments so far, their number | build, feed, parse | fragments cut anywhere, a limit on their bytes and one on their number | a reply is read as it was sent, or refused |
| **Frame codec**, checksum, AES (`Frame`, `edp_checksum`) | none | encode, decode | widths, padding, the flag that the checksum covers | decode undoes encode and notices damage |
| **SIA parser** (`SiaEvent.parse`) | none | parse | separators within the description, two encodings in one text | every field is read as it was sent |
| Area control (`AreaControl`, `commands.py`) | none | set, set_a, set_b, unset | – | is a binary command |
| Errors, exports, example, tests, mock panel | none | – | – | – |

They interact as follows. A chunk of bytes that **Connection** reads goes through the **decoder**; each frame is
dispatched: a reply resolves a future of the **command channel**, an event is acknowledged on the write queue and
put on the **event stream**, a poll wakes `wait_ready`. Any frame restarts the quiet time and may raise the sequence
counter. Commands go out through the same write queue. Anything that finds the write queue full, a writer or
`on_session` that dies, or the end of the read loop sets `_closed`, which all parts look at. The **panel snapshot**
lives in the application's tasks: it issues commands and is fed from the event stream. The **server** owns one handler
per connection and gathers them when it is left. Codec and parsers are functions that the others call.

Each module takes the others as an environment that can do everything they can do and possibly more: in
CommandChannel the teardown may come at any step, in EventStream the session may close at any step, in Connection
tasks of the application may queue frames at any step while the session is open. What is proved of a module therefore
holds of it in the whole. Where a module relies on less than all of another, the other is shown to keep to it: `Handler`
is the life of a connection as Server takes it, and Connection implements it.

## The modules

| Module | Models |
|---|---|
| `CommandChannel`, `MCCommandChannel`, `CommandChannelProofs` | the command channel |
| `EventStream`, `MCEventStream`, `EventStreamProofs` | the event stream |
| `LossyFifo`, `EventStreamFifo`, `MCEventStreamFifo`, `EventStreamFifoProofs` | what `events()` promises, and the refinement mapping from EventStream to it |
| `Connection`, `MCConnection`, `ConnectionProofs` | one connection |
| `Handler` | the life of a connection's handler and its `on_session`, abstractly |
| `Server`, `ServerProofs` | several connections, and entering and leaving the server |
| `FrameDecoder`, `FrameDecoderProofs` | the stream decoder |
| `PanelSnapshot`, `MCPanelSnapshot`, `PanelSnapshotProofs` | the snapshot, its two tasks, and the panel |
| `FrameCodec`, `SiaEvent`, `XmlReply` | frames, events and replies as functions of bytes |
| `PanelMessages`, `MCPanelMessages`, `PanelMessagesProofs` | a message on its way from the panel through all three |

Next to a definition `D` there may be a `MutantD`: `D` with a bug that somebody could have written. Nothing
uses it; put in the place of `D` it makes the run of `PROJECT.json` "mutants" fail, which shows that the
property is about the code.

### CommandChannel

`cmd[c]` holds the locals of the command that caller `c` is in and the place `pc` where it is suspended: waiting
for the lock, sleeping for the rest of the quiet time, waiting for a reply. `queue` is the lock, holder first
(asyncio's lock is fair). `pending` is the two tables; a future is known by the number of the request it was
created for, and its state is kept with the only task that awaits it. `ToSend` is what runs from the loop condition
of `_wait_to_send` to the next await, and is shared by taking the lock (`Acquire`), waking (`Wake`) and asking for
the next fragment (`ResumeMore`), as in the code. A request that `build_request` refuses ("nonAscii") or that
`Frame.encode` refuses ("oversized") fails at the place where the code raises. `CancelReply` and `Expire` only settle
the future; the task resumes later, so a reply may find it done. `asked` is the panel: it answers a request at most
once, in any order, at any time, also after its command is over. What a reply says is reduced to the verdict
that the command gives it. Clock ticks replace seconds and saturate at the quiet time.

Bounds: 2 callers, 2 calls in all, 2 fragments, 3 sequence numbers, quiet time 1 (4 and 2 in the run of the errors). Two
commands with two fragments make four requests, so the counter passes its end within a run even when the panel does not
raise it, and a late reply to a first command can meet every stage of a second.

### EventStream, LossyFifo, EventStreamFifo

`pc[c]` is where an iterator is suspended: at the consumer, in `asyncio.wait`, in the `gather` of the `finally`, at the
yield of the closing loop. `get[c]` and `item[c]` are its get task. The task that waits for the disconnection has no
state of its own: it is done when `closed` is. Between `Take` and `Yield` the event is neither in the queue nor handed
out; that is where `Cancel` hurts and where `_requeue_completed_get` helps. After `Close` the rest of the chunk may
still be emitted.

`LossyFifo` has only a pipe: put, put at the expense of an old event when it is full, give up the newest (a requeue
into a full queue), get. `EventStreamFifo` maps the pipe to the event in the get task's hand followed by the queue, and
TLC checks, and EventStreamFifoProofs proves, that each step of EventStream with one consumer is a step of the pipe or none. With two consumers there is no
order between them to promise.

Bounds: capacity 2, 4 events and 2 cancellations with two consumers; 5 events and 3 cancellations with one. Twice
the capacity fills the queue, overflows it, and overflows it again while an event is in a task's hand.

### Connection

The `inbox` is the StreamReader's buffer; `ReadData` takes any prefix of it. A frame is one that asks for an
acknowledgement (a poll or an event), one that does not, or bytes at which the decoder gives up: `FrameDecoder.feed`
raises before any frame of that chunk is dispatched. `HandleChunk` dispatches a whole chunk, since the code awaits
nothing in it. `IdleTimeout` is `asyncio.wait` running out of time. `Write` is one turn of the writer's loop, and need
not happen. Cancellations of `_handle` after its first one are not modelled: during `_teardown` asyncio passes them on to
the task being awaited, which is being cancelled anyway. `ready` is the event `_ready`, which `WakeWaiters` sets, waking
the tasks that sleep in it unless it is set already, and which `WaitReady` clears before it sleeps. `on_session` is the application's: it sends, returns, raises or is
cancelled as it likes, and tasks it has started go on sending. A connection without `on_session` is one whose on_session returns at once.

`ImplementsHandler` maps a connection to Handler: in its read loop it is "reading", and its `on_session` is running or over.

Bounds: a write queue of 1, 2 frames, 1 command, a task that waits for one poll and a task that waits for two. Two
acknowledgements in one chunk overflow the write queue in the middle of the chunk.

### Handler and Server

Handler says what a server may take for granted of a connection: its handler reads, then awaits its tasks, then flushes the
socket, then is over; `on_session` is started by the read loop, once, and is over before the socket is closed.

In Server a connection has that life, a transport ("none", "open", "closing", "lost") and, in `unsent`, bytes that its peer has
not taken. `server` is the task that uses the server: outside ("off"), in its body, in `wait_closed` or in the gather
of `__aexit__`. `waits` counts the calls of `wait_closed` that are ahead of it: one for the body, three when `serve_forever` is
cancelled, since asyncio's `serve_forever`, its `async with` and `__aexit__` each close the server and wait. They differ only
for a task that is cancelled again: the first two then pass on to the next, the last abandons `__aexit__` before
it gathers, and the handlers live on. The server may be entered again after that, with the handlers of the first use still in
`_handlers`. `CancelGather` is asyncio passing a cancellation to every handler of the gather, which each takes where it stands.

`Closed` is `wait_closed`: no transport of this server is left, and no handler is still to take its first step. The latter is
asyncio's order of callbacks: the handler's task was scheduled when the connection was made, before anything that ends the
wait. The mutant without it shows what depends on it.

Bounds: 2 connections, each used again when it is over, 2 entries, 4 cancellations. One connection may be stuck at its peer while
the other begins or ends; two entries let handlers of an abandoned use meet the gather of the next; four cancellations
are three to abandon `serve_forever` and one for the gather after it.

### FrameDecoder

Bytes are counted, not represented. `head` is the claim at the front of the buffer: whether the two bytes of
magic are there, the size the prefix gives, and what `Frame.decode` makes of the whole. After a dropped byte or a decoded
frame the next claim is any one at all (after a dropped byte only one of two neighbours can have the magic bytes), so
every stream of bytes is covered, as are many that no bytes spell. One step is one turn of `feed`'s loop.

Bounds: header 3, resync limit 4, plausible frames up to 12, claims up to 13, reads of up to 3. The sizes relate as in the
code: the limit is larger than a header and than a read, the largest plausible frame larger than both together, and one
claim is beyond plausible. TypeOK bounds nothing else; the graph is finite because the decoder never keeps more
than a plausible frame. Deadlock is not checked since a decoder that has raised is over.

### PanelSnapshot

`mode` and `input` are the panel, `areas` and `zones` the snapshot ("gone": no row, no entry). The refresher asks for areas
and then zones, again and again; the consumer takes events, applies those about zones at once and reads the areas for
those about areas. `asking` is the task that has the command channel; `RowArrives` fills in the reply row by row, each
with what is true of the panel at that time, because a reply comes in fragments with events between them. A reply
whose rows are of different ages is more than a panel that answers from one moment would send, and includes it.
`alarmed` and `latched` are history variables: what a reader of the event log would say of each area.

Bounds: two areas (rows of different ages), one zone in the first, an event queue of 1 (so that events are dropped), 3
changes of the panel (2 in the second run), and one fault: a row lost, a row with a bad ID, or a command failed. A bad ID is
one that `_parse_id` skips, or one that passes `isdigit` and that `int` refuses (a superscript): `RefreshAborts` is the
ValueError that ends the refresh then, with the snapshot as it was. SnapshotConverges does not judge
a panel that goes on sending such a row, since faults are bounded.

### FrameCodec, SiaEvent, XmlReply, PanelMessages

The first three are `wire.py`, `events.py` and `xmlcmd.py` as operators on sequences of bytes. FrameCodec has every byte of a
frame, the checksum as the shift register it is, padding, length fields and the frames that are too large for them. Bit operations
are written with division and remainder, loops as recursive functions or `FlattenSeq` of the community modules, so
that the same definitions are checked and proved about. AES is external: a shift of each byte by the key
stands for it, since only that deciphering undoes enciphering matters here. In SiaEvent the envelope and the timestamp are
single symbols, and fields are bytes with UTF-8 of one and two bytes, because separators and encodings are what
parsing can get wrong. In XmlReply a tag is a symbol, but the closing one is two, so that a fragment can end inside it.

PanelMessages has a message go all the way: the panel puts an event or a reply into payloads, cut anywhere and with empty ones
among them, and each into a frame, with its key or none, and polls between them; the line may change any byte of a frame in the clear, to any
other; the receiver, with its key or none, decodes, dispatches and parses. `passes` counts the passes of `xml_command`'s loop, which ends
after `MaxFragments` (MAX_XML_FRAGMENTS) of them with the outcome `Unclosed`; a fragment that brings nothing takes a pass too. The three properties compare what is read with what was said, so the panel's
side (`EventBytes`, `ReplyBytes`, `Send`) is the reference that the code is checked against. RepliesAreRead says which of three outcomes a
reply has, from what the panel has sent of it: read whole, refused for a byte too many, or given up because it was not complete with
the last of the fragments. `cuts`, a history variable, counts the fragments on the panel's side, so the property also says that
no fragment is taken beyond the limit and that none is given up before it.

DamageIsNoticed excepts the bytes of `Unvouched`. `dlen` says which bytes the checksum is over: when it has changed, the
checksum is that of other bytes and may be right by chance. When the encrypted flag of a clear frame has changed, a receiver with
a key deciphers what was never enciphered, and again only chance is left; one without a key refuses the frame. Every other byte is
covered, the length prefix and the checksum itself included.

Bounds: descriptions of up to 2 of the characters that matter ("|", 0xA6, "]", a two-byte character) behind 0 or 13 plain ones,
which puts the encrypted part of a frame before, at and after a boundary of 16 bytes; replies of up to two sections (a leaf,
empty, one row, two rows) with a limit of 9 bytes, which some fit, some fit exactly and some pass; 3 fragments (64 in the code), so that a reply can be whole with the first, with one between and with the
last, and can need more, by its cuts or by fragments that bring nothing; a byte changed in its lowest or its highest bit; one
message, and one changed byte, per behaviour. A behaviour ends with its message, so deadlock is not checked.

## The runs

| Run | Module, cfg | Shows |
|---|---|---|
| command_channel | MCCommandChannel, CommandChannel | commands are serialized; futures and tables agree; replies reach their own request until the counter wraps; requests are sent on an open session after the quiet time; teardown leaves nobody waiting; a session that is closed ends every command without its timeout; with timeouts, every command ends |
| command_only_spc_errors | MCCommandChannel, CommandChannelErrors | *violated*: not only SpcErrors |
| event_stream | MCEventStream, EventStream | events are accounted for, handed out once, dropped only by overflow; streams end, drained, after a close; every event is handed out while the session is up |
| event_stream_fifo | MCEventStreamFifo, EventStreamFifo | one consumer sees a lossy FIFO queue |
| connection | MCConnection, Connection | acknowledgements have no gap; no wakeup is lost; background tasks end before the socket is closed; a stuck writer does not stall reading; failures, requests and silence end the connection; it implements Handler |
| server | Server, Server | leaving the server leaves no handler and no `on_session` behind, whatever is cancelled; it comes to an end if the peers read; peers that do not cannot keep their `on_session` alive if there is an idle timeout; each connection implements Handler |
| frame_decoder | FrameDecoder, FrameDecoder | a wait and the buffer are bounded; no genuine frame of up to HEADER_LEN + RESYNC_LIMIT + 1 bytes is swallowed |
| frame_decoder_plausible | FrameDecoder, FrameDecoderPlausible | *violated*: not every frame up to MAX_PLAUSIBLE_FRAME is waited for |
| panel_snapshot | MCPanelSnapshot, PanelSnapshot | an alarm stays marked until a reply takes it back; the snapshot comes to agree with the panel |
| panel_alarms | MCPanelSnapshot, PanelSnapshotAlarms | *violated*: an alarm can be lost with a skipped row |
| panel_messages | MCPanelMessages, PanelMessages | one changed byte is noticed; events are read with the fields they were sent with; replies are read whole, refused when they are too long, or given up after the last fragment that is taken |
| panel_messages_glyphs | MCPanelMessages, PanelMessagesGlyphs | *violated*: a description in UTF-8 can be read with U+FFFD in it |

### Findings

Four statements of the repository about itself do not hold of the code; each has a run whose counterexample shows it.

1. `xml_command` says that it raises only SpcErrors. A request with a non-ASCII attribute, or one too large for a
   frame, raises UnicodeEncodeError or ValueError; in the second case the future also stays in `_pending_xml`. NoAbandonedEntry
   says that this is the only kind of entry that is left behind, and that no reply of the panel can be for it.
2. `wire.py` says that MAX_PLAUSIBLE_FRAME is the largest frame that is waited for. The wait ends when more than RESYNC_LIMIT
   bytes have come since it began, so a frame of between 8217 and 16384 bytes that arrives in small reads is dropped.
   FramesAreNotSwallowed states the size up to which the claim is true.
3. `refresh_areas` says that alarms are preserved until confirmed disarmed. An area without a row in one reply leaves the
   snapshot, and its flag is not there when it comes back. AlarmsAreKept states what is true instead.
4. `SiaEvent.parse` says that it normalises the byte 0xA6 so that callers never receive U+FFFD. It replaces the byte inside
   UTF-8 characters as well: U+00E6, in UTF-8 C3 A6, is read as U+FFFD and a broken bar. EventsAreRead states what is true:
   descriptions whose characters do not contain that byte, and broken bars sent as one byte, are read as they were sent.

A fifth has no run, since one action of the model is the disagreement: `_parse_id` says that one bad row can't abort a whole
refresh, but it asks `isdigit`, which is true of a superscript two, and `int` then raises ValueError (`RefreshAborts`).

## Fairness

Liveness is checked under weak fairness of what the event loop does by itself, and of nothing else.

- Every ready task and callback runs: asyncio's scheduling queue is FIFO. This covers a caller that can go on, the iterators,
  the read loop once a task it waits for is done, the callbacks of the background tasks.
- Time passes (`Tick`), so a sleep ends. A timeout is a timer too; where a property needs it, it is a hypothesis of the
  property (`Timeouts` in CommandsEnd, the idle timeout in SilenceEndsConnection), because without `timeout` or
  with `idle_timeout=None` it does not exist.
- A read loop whose teardown was requested tears the session down: an assumption of CommandChannel, a checked property
  (MuteIsNotAlive) of Connection.
- An `on_session` task that was cancelled ends: the application's duty, assumed.
- Nothing is assumed of the panel or of the peer's socket: it need not send, answer, read or close. ReadLoopNeverStalls
  holds although the writer may be stuck for ever. The last step of a teardown, `Flushed`, is up to the transport and no
  property depends on it.
- Server: a transport that is closing and has nothing left to send reports its end. That a peer reads (`PeersRead`) and that an
  idle read loop times out (`IdleTimeouts`) are hypotheses of ExitReturns and StopEndsSessions. Neither is true of every
  peer and configuration: with a peer that does not read, `wait_closed` does not return and `__aexit__` with it.
- PanelSnapshot: the application refreshes again and again, as the repository's README tells it to, and a command that does
  not fail gets its rows in the end (CommandChannel shows that it ends in any case). The panel need not change.

## The proofs

Each theorem has the form `Spec => []P` or `Spec => [][A]_vars`, for every value of the constants that meets the module's
assumptions: any set of callers, consumers or waiters, any capacity, any limits. The bounds (`MaxCalls` and so on)
are constants too and need only be natural numbers. For each module one invariant `IInv` is shown to hold initially and to
be preserved by every action; the properties follow from it. PanelMessagesProofs has theorems about functions besides.

- **CommandChannelProofs**: TypeCorrect, CommandsAreSerialized, AwaitedFuturesArePending, EntriesAreNotAbandoned, RepliesAreOwn,
  TeardownFreesCommands, SendsAreQuietAndOpen. Serialized is not inductive: that the next holder has no transaction under
  way needs `LockInv` (the queue holds exactly the callers in a command, each once). OwnReply needs `SequenceInv`: until
  the counter wraps, every request out has a sequence at most `next_seq`, and the table entry under that sequence is
  its own or none. NoAbandonedEntry needs `RequestInv`: a request still out that belongs to a waiting command carries
  that command's table and sequence, so the `finally` clause removes the right entry.
- **EventStreamProofs**: TypeCorrect, EventsAreAccountedFor, EventsAreHandedOutOnce, OnlyFullQueuesDrop, StreamsEndDrained. HandedOutOnce
  needs `Separate` (queue, hands and output are pairwise disjoint and without repetition) and `Numbered` (the next event is
  new); the phases of an iterator (`PhaseInv`) say when a hand holds an event at all.
- **EventStreamFifoProofs**: StreamImplementsFifo, `Spec => Fifo!Spec` for any capacity. Each action is mapped to a step of the pipe or
  to none, from the invariant above; what the proof needs besides is that taking the first element of a sequence and
  putting it back changes nothing, and that appending to a sequence commutes with putting an element before it.
- **ConnectionProofs**: TypeCorrect, AcknowledgementsHaveNoGap, WakeupsAreNotLost, TasksEndBeforeTheSocket. The strengthening is that
  the loop is left only with `_closed` set (`LoopInv`), which keeps later acknowledgements from following a dropped one, and that
  nobody sleeps on an event that is set (`SignalInv`), so that setting it wakes whoever sleeps. ConnectionsLive, `Spec => Tasks!Spec`, is the
  refinement of Handler; NothingOutlivesHandler is the part of the invariant that it needs.
- **ServerProofs**: TypeCorrect, ExitsLeaveNothing, HandlersLiveOn. NothingOutlivesExit is about the end of a gather, and needs that
  all handlers that run are registered (`Registered`) and that all that are registered are gathered, none beginning after
  the copy is made (`GatherIsComplete`).
- **FrameDecoderProofs**: TypeCorrect, StreamIsNotWedged, NothingIsSwallowed. `AnchorInv` and `FreshInv` say that the wait for a
  head began with a header and at most one read more than the head itself; from that, a head given up on
  has more than HEADER_LEN + RESYNC_LIMIT bytes in the buffer and is incomplete all the same, so it claims more than the
  size in FramesAreNotSwallowed.
- **PanelSnapshotProofs**: TypeCorrect, AlarmsStayMarked, from `UnknownInv`: an area that is not in the snapshot is not marked.
- **PanelMessagesProofs**: TypeCorrect, DamageNoticed, EventsRead, RepliesRead, for any key, any characters below 2048 in
  descriptions of any length, any replies of sections and rows, any limits on the bytes and the number of fragments and any noise. They rest on theorems about
  the code that has no state, below.

### The message formats

A run of PanelMessages evaluates the codec and the parsers on a few hundred messages; PanelMessagesProofs says what they compute for
all. Each step from the panel to the application has a theorem, and `Inductive` puts them together.

- RoundTrip: `Frame.decode` gives back the frame that `Frame.encode` was given, whatever its fields and payload, with the padding
  and the checksum right on both sides. KeyIsNeeded: without the key it is refused for that reason.
- DamagedFrame: a clear frame with one changed byte does not decode. The checksum's register is the argument: each of its steps
  can be undone, both in the register (`ShiftKeepsApart`) and in the byte (`ShiftTellsBytes`), so two registers that once differ differ to
  the end while the bytes that follow agree. That the step can be undone is the fact that the polynomial has its lowest bit set and the
  byte is added without a carry. A changed length prefix leaves a frame that is cut short or a `dlen` that overflows it, or the
  very same bytes to sum.
- EventIsParsed: `SiaEvent.parse` gives the fields back. For a legible character (`Legible`) the bytes after normalising are UTF-8
  again and are read as that character, whatever stands before and after it; of the bars of the text, the first two and the last two are
  those between the fields, since only the description can have bars.
- ReplyIsParsed: `parse_reply` gives the sections back. The end of a section is the next end tag, since rows are not end tags. For the
  assembler, a proper beginning of a reply has no closing tag (`Tagged`), so it is not taken for a whole one wherever it is cut.

What joins them is an inductive invariant about the state. `OnItsWay` says that the line holds nothing, or an encoded frame of a
known kind, or one that differs from it in the damaged byte. `Awaited`: while anything is on the line the receiver has not made up its
mind. `EventProgress`: an event is unsent, or on the line, or read. `ReplyProgress`: what was assembled, what is on the line and what
is unsent make up the reply, in that order, and something is left of it as long as nothing was read; the passes made and the fragment
on the line are the fragments sent, fewer than the limit before the last pass; once something was read, it is what `Outcome` says (`Settled`). TypeOK alone is not
inductive, since what a receiver makes of an arbitrary line need not be bytes; DamageIsNoticed needs to know of which frame the line is a
damaged copy; the two others need the places of all the bytes.

The definitions that these theorems are about recurse over data. The library's induction rules take an operator as a parameter and cannot
be used, but an induction over a *set* of numbers can be stated without one: a set of naturals that has 0 and with n also n + 1 has all
(`SetInduction`), from the well-foundedness of `<`. Each use collects the numbers at which a fact holds in a set. `FlattenSeq` is
determined in the same way by its recursion, and the facts about it (`FlattenConcat`, `Spread`) by induction over sequences (`SeqInduction`).

### What is not proved

Only model-checked: all liveness properties (the prover has no rule for fairness) and the four violations. Every other property of a
passing run is a theorem. The lemmas that a proof module states about sequences are proved from the library's theorems about sequences.

## What is assumed, and what is left out

External, modelled from how `client.py` uses it: asyncio (locks are FIFO, a cancelled task resumes with CancelledError, a
done future keeps its result, `wait_for` may time out after the future was resolved), the panel, and the application.

Left out, with the reason:

- The attributes of XML rows, a DTD, two sections with one tag (the later one wins), characters of three and more bytes in SIA
  texts, the panel's number and the digits of a timestamp. AREA fields that are malformed. What an event is about, and which
  verdict a reply gets from the modules that do not parse it, is chosen freely.
- `build_request` but for its failures, and the opcodes of `AreaControl`: they are values that no part of the program looks at again.
- `_normalise_key`: it accepts a key or raises, before there is a server.
- PanelInfo (read once), names and types of areas and zones, the `EventStateUpdate` that `apply_event` returns.
- What a panel does when its connection ends: that it sends what was not acknowledged again on the next one is PROTOCOL.md's
  word and not in this repository's code.
- Logging, `repr`, the release script, the example, the tests and their mock panel.

## Plan

Done, in this order: the command channel, the event stream, the connection, the decoder and the snapshot with their proofs; the
server over several connections, and Handler between it and Connection; rows with bad IDs; codec, parser and reply assembler with
a message's way through them; the refinements as theorems.

Then the properties of PanelMessages as theorems, for which its definitions were rewritten without bitwise operators and RECURSIVE;
the line may now change any byte, `dlen` included, and the property says which changes are not noticed.

What could follow:

1. An abstract command service (ask, answer or fail, in turn) that CommandChannel implements with its lock and tables hidden. Serialized,
   OwnReply and ClosedEndsCommands say of it already what such a specification would.
2. Two Connections and the Server in one state, in place of Handler between them; Handler keeps the state space small.
