--------------------------- MODULE CommandChannel ---------------------------
(***************************************************************************)
(* The command channel of one Session (spcedp/client.py): xml_command and  *)
(* binary_command, the lock that serializes them, the quiet time, the      *)
(* shared sequence counter, the tables of pending futures, and the part of *)
(* the read loop (_dispatch, _teardown) that resolves those futures.       *)
(*                                                                         *)
(* asyncio runs one task at a time, so an action is the code a task runs   *)
(* between two awaits.  A future is known by the number of the request it  *)
(* was created for (0: no future); its state is kept with the caller.      *)
(*                                                                         *)
(* A definition Mutant<D>, just before <D>, is <D> with a bug; nothing     *)
(* uses it but the runs that show that a property would notice the bug.    *)
(***************************************************************************)
EXTENDS Integers, Sequences, SequencesExt

CONSTANTS
  Callers,       \* the tasks that issue commands
  SeqSpace,        \* sequence numbers are taken modulo this (2^32 in the code)
  QuietTime,     \* COMMAND_QUIET_TIME, in clock ticks
  MaxFragments,  \* MAX_XML_FRAGMENTS
  MaxCalls       \* bound of the model: commands issued during a session

ASSUME SeqSpaceAssumption == SeqSpace \in Nat \ {0}
ASSUME QuietAssumption == QuietTime \in Nat \ {0}
ASSUME FragmentsAssumption == MaxFragments \in Nat \ {0}
ASSUME CallsAssumption == MaxCalls \in Nat

VARIABLES
  next_seq,      \* Session.next_seq
  since,         \* ticks since _last_received, saturating at QuietTime
  queue,         \* _command_lock: its holder, then its waiters in FIFO order
  cmd,           \* per caller, the locals of the command it is in
  pending,       \* _pending_xml and _pending_bin: sequence -> future
  asked,         \* requests on their way to the panel and not yet answered
  closed,        \* _closed (set together with _teardown_requested)
  tornDown,      \* _teardown has run: the read loop is over
  sent,          \* futures created so far
  wrapped,       \* history: the sequence counter has passed SeqSpace - 1
  calls          \* commands issued so far (the bound)

vars == <<next_seq, since, queue, cmd, pending, asked, closed, tornDown,
          sent, wrapped, calls>>

Seqs == 0 .. SeqSpace - 1
Tables == {"xml", "bin"}

(***************************************************************************)
(* What a caller asks for.  "nonAscii" and "oversized" are XML commands    *)
(* whose attributes build_request, respectively Frame.encode, refuse.      *)
(***************************************************************************)
Requests == {"xml", "bin", "nonAscii", "oversized"}
Table(what) == IF what = "bin" THEN "bin" ELSE "xml"

(***************************************************************************)
(* What a reply says, as far as a command tells replies apart: a fragment  *)
(* that leaves COMMAND_REPLY open, one that closes it, one that cannot be  *)
(* assembled or parsed; reply code OK, another code, no code.              *)
(***************************************************************************)
Bodies == [xml |-> {"more", "close", "garbled"}, bin |-> {"ok", "other", "empty"}]

(***************************************************************************)
(* How a command ends: its value, or the exception it raises.              *)
(***************************************************************************)
SpcErrors == {"SpcTimeout", "SpcConnectionLost", "SpcProtocolError", "PanelRejected"}
Outcomes == {"none", "reply", "cancelled", "ValueError"} \cup SpcErrors

\* A future other than a pending one holds a reply ("result"), or what awaiting
\* it raises: "SpcTimeout" stands for the TimeoutError that becomes it.
FutureErrors == {"SpcTimeout", "SpcConnectionLost", "cancelled"}
Futures == {"none", "waiting", "result"} \cup FutureErrors

Idle(outcome) ==
  [pc |-> "idle", what |-> "none", start |-> 0, frags |-> 0, timer |-> 0, slot |-> 0,
   id |-> 0, fut |-> "none", of |-> 0, body |-> "none", outcome |-> outcome]

Request(table, seq, id) == [table |-> table, seq |-> seq, id |-> id]

MutantNextSeq(s) == s + 1
NextSeq(s) == (s + 1) % SeqSpace

Empty == [t \in Tables |-> [s \in Seqs |-> 0]]

MutantLarger(a, b) == b
Larger(a, b) == IF a > b THEN a ELSE b

Init ==
  /\ next_seq = 0
  /\ since = QuietTime
  /\ queue = <<>>
  /\ cmd = [c \in Callers |-> Idle("none")]
  /\ pending = Empty
  /\ asked = {}
  /\ closed = FALSE
  /\ tornDown = FALSE
  /\ sent = 0
  /\ wrapped = FALSE
  /\ calls = 0

-----------------------------------------------------------------------------
(***************************************************************************)
(* The callers.                                                            *)
(***************************************************************************)

MutantHolds(c) == \E i \in DOMAIN queue : queue[i] = c
Holds(c) == queue # <<>> /\ Head(queue) = c

MutantLeave(c, outcome) ==
  /\ queue' = IF outcome = "SpcConnectionLost" THEN queue ELSE Tail(queue)
  /\ cmd' = [cmd EXCEPT ![c] = Idle(outcome)]

\* The lock holder's command ends and `async with` releases the lock.
Leave(c, outcome) ==
  /\ queue' = Tail(queue)
  /\ cmd' = [cmd EXCEPT ![c] = Idle(outcome)]

\* _alloc_seq, in the place where every command calls it.
AllocSeq ==
  /\ next_seq' = NextSeq(next_seq)
  /\ wrapped' = (wrapped \/ next_seq = SeqSpace - 1)

MutantRegister(p, t) ==
  /\ sent' = sent + 1
  /\ pending' = [p EXCEPT ![t][next_seq] = sent + 1]

\* A future is created and registered under the sequence just allocated.
Register(p, t) ==
  /\ sent' = sent + 1
  /\ pending' = [p EXCEPT ![t][NextSeq(next_seq)] = sent + 1]

\* build_request raises: a sequence is gone, nothing was registered.
BuildFails(c, r, p) ==
  /\ r.what = "nonAscii"
  /\ AllocSeq
  /\ Leave(c, "ValueError")
  /\ pending' = p
  /\ UNCHANGED <<since, asked, closed, tornDown, sent, calls>>

\* Frame.encode raises inside _send: the future stays registered.
EncodeFails(c, r, p) ==
  /\ r.what = "oversized"
  /\ AllocSeq
  /\ Register(p, "xml")
  /\ Leave(c, "ValueError")
  /\ UNCHANGED <<since, asked, closed, tornDown, calls>>

\* _send queues the frame for the writer, or finds the write queue full and
\* asks for the session's teardown; the caller awaits the reply either way.
Transmit(c, r, p) ==
  /\ r.what \in Tables
  /\ AllocSeq
  /\ Register(p, r.what)
  /\ cmd' = [cmd EXCEPT ![c] = [r EXCEPT !.pc = "reply", !.slot = NextSeq(next_seq),
                                         !.id = sent + 1, !.fut = "waiting"]]
  /\ \/ /\ asked' = asked \cup {Request(r.what, NextSeq(next_seq), sent + 1)}
        /\ UNCHANGED closed
     \/ /\ closed' = TRUE
        /\ UNCHANGED asked
  /\ UNCHANGED <<since, queue, tornDown, calls>>

\* One evaluation of _wait_to_send's loop condition and what follows it up to
\* the next await: give up, sleep for the rest of the quiet time, or send the
\* next fragment.  r is the command's state and p the pending futures as the
\* step has left them so far.
ToSend(c, r, p) ==
  \/ /\ closed
     /\ Leave(c, "SpcConnectionLost")
     /\ pending' = p
     /\ UNCHANGED <<next_seq, since, asked, closed, tornDown, sent, wrapped, calls>>
  \/ /\ ~closed
     /\ since < QuietTime
     /\ cmd' = [cmd EXCEPT ![c] = [r EXCEPT !.pc = "quiet", !.timer = QuietTime - since]]
     /\ pending' = p
     /\ UNCHANGED <<next_seq, since, queue, asked, closed, tornDown, sent, wrapped, calls>>
  \/ /\ ~closed
     /\ since = QuietTime
     /\ BuildFails(c, r, p) \/ EncodeFails(c, r, p) \/ Transmit(c, r, p)

\* A task calls xml_command or binary_command and queues for the lock.
Call(c, what) ==
  /\ cmd[c].pc = "idle"
  /\ calls < MaxCalls
  /\ calls' = calls + 1
  /\ queue' = Append(queue, c)
  /\ cmd' = [cmd EXCEPT ![c] = [Idle("none") EXCEPT !.pc = "lock", !.what = what]]
  /\ UNCHANGED <<next_seq, since, pending, asked, closed, tornDown, sent, wrapped>>

\* The lock is this caller's.
Acquire(c) ==
  /\ cmd[c].pc = "lock"
  /\ Holds(c)
  /\ ToSend(c, [cmd[c] EXCEPT !.start = sent], pending)

MutantWake(c) ==
  /\ cmd[c].pc = "quiet"
  /\ cmd[c].timer = 0
  /\ Transmit(c, cmd[c], pending)

\* asyncio.sleep returns.
Wake(c) ==
  /\ cmd[c].pc = "quiet"
  /\ cmd[c].timer = 0
  /\ ToSend(c, cmd[c], pending)

MutantPopped(c) == pending

\* The pending tables after the `finally` clause of a command.
Popped(c) == [pending EXCEPT ![Table(cmd[c].what)][cmd[c].slot] = 0]

\* The caller resumes after wait_for on a future that raised.
ResumeRaised(c) ==
  /\ cmd[c].pc = "reply"
  /\ cmd[c].fut \in FutureErrors
  /\ pending' = Popped(c)
  /\ Leave(c, cmd[c].fut)
  /\ UNCHANGED <<next_seq, since, asked, closed, tornDown, sent, wrapped, calls>>

\* What a reply makes of the command that was waiting for it.
Verdict(body) ==
  CASE body \in {"close", "ok"} -> "reply"
    [] body = "other" -> "PanelRejected"
    [] OTHER -> "SpcProtocolError"

\* The caller resumes with a reply that ends the command.
ResumeLast(c) ==
  /\ cmd[c].pc = "reply"
  /\ cmd[c].fut = "result"
  /\ cmd[c].body = "more" => cmd[c].frags + 1 = MaxFragments
  /\ pending' = Popped(c)
  /\ Leave(c, Verdict(cmd[c].body))
  /\ UNCHANGED <<next_seq, since, asked, closed, tornDown, sent, wrapped, calls>>

\* The caller resumes with a fragment that leaves the reply open.
ResumeMore(c) ==
  /\ cmd[c].pc = "reply"
  /\ cmd[c].fut = "result"
  /\ cmd[c].body = "more"
  /\ cmd[c].frags + 1 < MaxFragments
  /\ ToSend(c, [cmd[c] EXCEPT !.frags = @ + 1, !.fut = "none", !.of = 0, !.body = "none"],
            Popped(c))

Run(c) == Acquire(c) \/ Wake(c) \/ ResumeRaised(c) \/ ResumeLast(c) \/ ResumeMore(c)

MutantQuietTimeout(c) == FALSE /\ UNCHANGED vars

\* asyncio.timeout fires while the caller sleeps in _wait_to_send.
QuietTimeout(c) ==
  /\ cmd[c].pc = "quiet"
  /\ Leave(c, "SpcTimeout")
  /\ UNCHANGED <<next_seq, since, pending, asked, closed, tornDown, sent, wrapped, calls>>

\* asyncio.wait_for's timeout fires before the caller has resumed; what the
\* future held by then is lost.
Expire(c) ==
  /\ cmd[c].pc = "reply"
  /\ cmd[c].fut \notin {"SpcTimeout", "cancelled"}
  /\ cmd' = [cmd EXCEPT ![c] = [@ EXCEPT !.fut = "SpcTimeout", !.of = 0, !.body = "none"]]
  /\ UNCHANGED <<next_seq, since, queue, pending, asked, closed, tornDown, sent,
                 wrapped, calls>>

\* The caller's task is cancelled while it waits for the lock,
CancelLock(c) ==
  /\ cmd[c].pc = "lock"
  /\ \E i \in DOMAIN queue : queue[i] = c /\ queue' = RemoveAt(queue, i)
  /\ cmd' = [cmd EXCEPT ![c] = Idle("cancelled")]
  /\ UNCHANGED <<next_seq, since, pending, asked, closed, tornDown, sent, wrapped, calls>>

\* in the quiet time,
CancelQuiet(c) ==
  /\ cmd[c].pc = "quiet"
  /\ Leave(c, "cancelled")
  /\ UNCHANGED <<next_seq, since, pending, asked, closed, tornDown, sent, wrapped, calls>>

\* or for its reply: the future is cancelled, the caller has yet to resume.
CancelReply(c) ==
  /\ cmd[c].pc = "reply"
  /\ cmd[c].fut # "cancelled"
  /\ cmd' = [cmd EXCEPT ![c] = [@ EXCEPT !.fut = "cancelled", !.of = 0, !.body = "none"]]
  /\ UNCHANGED <<next_seq, since, queue, pending, asked, closed, tornDown, sent,
                 wrapped, calls>>

-----------------------------------------------------------------------------
(***************************************************************************)
(* The read loop.  The panel answers requests in any order, each at most   *)
(* once, possibly long after the command gave up (external).               *)
(***************************************************************************)

\* The head of _dispatch: any frame restarts the quiet time and raises the
\* sequence counter.
Received(seq) ==
  /\ ~tornDown
  /\ since' = 0
  /\ next_seq' = Larger(next_seq, seq)

\* A reply: its future is popped and, unless it is done, given the payload.
DispatchReply(a, body) ==
  /\ Received(a.seq)
  /\ asked' = asked \ {a}
  /\ pending' = [pending EXCEPT ![a.table][a.seq] = 0]
  /\ cmd' = [c \in Callers |->
               IF cmd[c].fut = "waiting" /\ cmd[c].id = pending[a.table][a.seq]
               THEN [cmd[c] EXCEPT !.fut = "result", !.of = a.id, !.body = body]
               ELSE cmd[c]]
  /\ UNCHANGED <<queue, closed, tornDown, sent, wrapped, calls>>

\* A POLL, HELLO or EVENT frame, or one the receiver does not handle.  Its
\* acknowledgement may find the write queue full.
DispatchOther(seq) ==
  /\ Received(seq)
  /\ closed' \in {closed, TRUE}
  /\ UNCHANGED <<queue, cmd, pending, asked, tornDown, sent, wrapped, calls>>

\* Time passes.
Tick ==
  /\ since < QuietTime \/ \E c \in Callers : cmd[c].timer > 0
  /\ since' = IF since < QuietTime THEN since + 1 ELSE since
  /\ cmd' = [c \in Callers |-> [cmd[c] EXCEPT !.timer = IF @ > 0 THEN @ - 1 ELSE 0]]
  /\ UNCHANGED <<next_seq, queue, pending, asked, closed, tornDown, sent, wrapped, calls>>

\* The writer stops or on_session crashes: request_teardown.
RequestTeardown ==
  /\ ~closed
  /\ closed' = TRUE
  /\ UNCHANGED <<next_seq, since, queue, cmd, pending, asked, tornDown, sent, wrapped,
                 calls>>

\* fail_pending finds the future of this caller in one of the tables.
MutantRegistered(c) == \E s \in Seqs : pending["xml"][s] = cmd[c].id
Registered(c) == \E t \in Tables, s \in Seqs : pending[t][s] = cmd[c].id

\* The read loop ends, for any reason: fail_pending, then request_teardown.
Teardown ==
  /\ ~tornDown
  /\ tornDown' = TRUE
  /\ closed' = TRUE
  /\ pending' = Empty
  /\ cmd' = [c \in Callers |->
               IF cmd[c].fut = "waiting" /\ Registered(c)
               THEN [cmd[c] EXCEPT !.fut = "SpcConnectionLost"]
               ELSE cmd[c]]
  /\ asked' = {}
  /\ UNCHANGED <<next_seq, since, queue, sent, wrapped, calls>>

\* Everything is over: no command is in progress and none will be issued.
Finished ==
  /\ tornDown
  /\ \A c \in Callers : cmd[c].pc = "idle"
  /\ UNCHANGED vars

Next ==
  \/ \E c \in Callers :
       \/ \E what \in Requests : Call(c, what)
       \/ Run(c)
       \/ QuietTimeout(c)
       \/ Expire(c)
       \/ CancelLock(c)
       \/ CancelQuiet(c)
       \/ CancelReply(c)
  \/ \E a \in asked : \E body \in Bodies[a.table] : DispatchReply(a, body)
  \/ \E seq \in Seqs : DispatchOther(seq)
  \/ Tick
  \/ RequestTeardown
  \/ Teardown
  \/ Finished

Spec == Init /\ [][Next]_vars

-----------------------------------------------------------------------------
(***************************************************************************)
(* Fairness.  The event loop runs every task that is ready (Run), time     *)
(* passes (Tick), and a read loop whose teardown is requested wakes up and *)
(* tears the session down; it may otherwise stay open for ever.  Timeouts  *)
(* says that the timeout which every command has does fire.                *)
(***************************************************************************)
FairSpec ==
  /\ Spec
  /\ \A c \in Callers : WF_vars(Run(c))
  /\ WF_vars(Tick)
  /\ WF_vars(closed /\ Teardown)

Timeouts == \A c \in Callers : WF_vars(Expire(c)) /\ WF_vars(QuietTimeout(c))

-----------------------------------------------------------------------------
CommandRecords ==
  [pc : {"idle", "lock", "quiet", "reply"}, what : Requests \cup {"none"},
   start : Nat, frags : 0 .. MaxFragments - 1, timer : 0 .. QuietTime, slot : Seqs,
   id : Nat, fut : Futures, of : Nat,
   body : {"none"} \cup Bodies.xml \cup Bodies.bin, outcome : Outcomes]

(***************************************************************************)
(* The type of the session's state.                                        *)
(***************************************************************************)
TypeOK ==
  /\ next_seq \in Seqs
  /\ since \in 0 .. QuietTime
  /\ queue \in Seq(Callers)
  /\ cmd \in [Callers -> CommandRecords]
  /\ pending \in [Tables -> [Seqs -> Nat]]
  /\ asked \subseteq [table : Tables, seq : Seqs, id : Nat]
  /\ closed \in BOOLEAN
  /\ tornDown \in BOOLEAN
  /\ sent \in Nat
  /\ wrapped \in BOOLEAN
  /\ calls \in Nat

(***************************************************************************)
(* The fragments of one command are consecutive requests: between taking   *)
(* the lock and its last reply no other command allocates a request        *)
(* (xml_command's loop runs inside the lock).                              *)
(***************************************************************************)
Serialized ==
  \A c \in Callers :
    /\ cmd[c].pc \in {"quiet", "reply"} => Holds(c)
    /\ cmd[c].pc = "quiet" => sent = cmd[c].start + cmd[c].frags
    /\ cmd[c].pc = "reply" => /\ sent = cmd[c].start + cmd[c].frags + 1
                              /\ cmd[c].id = sent

(***************************************************************************)
(* A future that is awaited and not done is in its table, under the        *)
(* sequence its request carries, so that a reply or a teardown finds it.   *)
(***************************************************************************)
AwaitedIsPending ==
  \A c \in Callers :
    cmd[c].fut = "waiting" =>
      pending[Table(cmd[c].what)][cmd[c].slot] = cmd[c].id

(***************************************************************************)
(* A future left in a table by a command that is over belongs to a request *)
(* that was never sent: no late reply finds an entry nobody waits for.     *)
(***************************************************************************)
NoAbandonedEntry ==
  \A a \in asked :
    pending[a.table][a.seq] = a.id =>
      \E c \in Callers : cmd[c].pc = "reply" /\ cmd[c].id = a.id

(***************************************************************************)
(* Until the sequence counter wraps, a command is given the reply to its   *)
(* own latest request, never a late one to a command that timed out.       *)
(***************************************************************************)
OwnReply ==
  ~wrapped => \A c \in Callers : cmd[c].fut = "result" => cmd[c].of = cmd[c].id

(***************************************************************************)
(* Once the read loop is over nobody is left waiting for a reply: what     *)
(* fail_pending misses would wait until its timeout.                       *)
(***************************************************************************)
NoWaitAfterTeardown ==
  tornDown => \A c \in Callers : cmd[c].fut # "waiting"

(***************************************************************************)
(* A request is created only after a full quiet time, measured again after *)
(* every sleep, and never on a session that is closed.                     *)
(***************************************************************************)
QuietOpenSend == [][sent' > sent => since = QuietTime /\ ~closed]_vars

(***************************************************************************)
(* When the connection is over every command ends, without the help of its *)
(* timeout: those waiting for a reply, for quiet, and for the lock.        *)
(***************************************************************************)
ClosedEndsCommands == \A c \in Callers : closed ~> cmd[c].pc = "idle"

(***************************************************************************)
(* With its timeout every command ends, whatever the panel does.           *)
(***************************************************************************)
CommandsEnd ==
  Timeouts => \A c \in Callers : cmd[c].pc # "idle" ~> cmd[c].pc = "idle"

(***************************************************************************)
(* client.py:233, "Raises only SpcError subclasses": a command that is not *)
(* cancelled ends with its value or with one of them.                      *)
(***************************************************************************)
OnlySpcErrors ==
  \A c \in Callers : cmd[c].outcome \in {"none", "reply", "cancelled"} \cup SpcErrors

=============================================================================
