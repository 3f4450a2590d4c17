-------------------------- MODULE ConnectionProofs --------------------------
(***************************************************************************)
(* The safety of Connection, for every number of waiters and every bound.  *)
(***************************************************************************)
EXTENDS Connection, FiniteSetTheorems, TLAPS

\* Outside the read loop the teardown has been announced.
LoopInv == handler \notin Loop => closed

\* A task sleeps in _ready.wait() only while the event is not set.
SignalInv == \A w \in Waiters : wait[w] = "blocked" => ~ready

IInv == TypeOK /\ LoopInv /\ SignalInv /\ AcksHaveNoGap /\ NoLostWakeup /\ NothingOutlivesHandler

-----------------------------------------------------------------------------
(***************************************************************************)
(* What a batch of n frames leaves in the write queue.                     *)
(***************************************************************************)
LEMMA RoomFacts ==
  ASSUME NEW n \in Nat, backlog \in 0 .. WriteMax
  PROVE  Room(n) \in 0 .. n /\ backlog + Room(n) \in 0 .. WriteMax
BY WriteMaxAssumption DEF Room

\* The n smallest of a finite set: they precede the others, and are all of the
\* set when it has at most n.
LEMMA LeastFacts ==
  ASSUME NEW S \in SUBSET Nat, IsFiniteSet(S), NEW n \in Nat
  PROVE  /\ Least(S, n) \subseteq S
         /\ \A a \in Least(S, n), b \in S \ Least(S, n) : a < b
         /\ Cardinality(S) <= n => Least(S, n) = S
<1> DEFINE Below(a) == {b \in S : b < a}
<1>1. \A a \in S : IsFiniteSet(Below(a)) /\ Cardinality(Below(a)) \in Nat
  BY FS_Subset, FS_CardinalityType
<1>2. Least(S, n) \subseteq S /\ \A a \in S : a \in Least(S, n) <=> Cardinality(Below(a)) < n
  BY DEF Least
<1>3. ASSUME NEW a \in Least(S, n), NEW b \in S \ Least(S, n)
      PROVE  a < b
  <2>1. a \in S /\ b \in S /\ a \in Nat /\ b \in Nat
    BY <1>2
  <2>2. CASE b <= a
    <3>1. \A x \in Nat : x < b => x < a
      BY <2>1, <2>2
    <3>2. Below(b) \in SUBSET Below(a)
      BY <3>1
    <3>3. IsFiniteSet(Below(a)) /\ Cardinality(Below(a)) \in Nat /\ Cardinality(Below(b)) \in Nat
      BY <2>1, <1>1
    <3> HIDE DEF Below
    <3>4. Cardinality(Below(b)) <= Cardinality(Below(a))
      BY <3>2, <3>3, FS_Subset
    <3>5. Cardinality(Below(a)) < n /\ ~(Cardinality(Below(b)) < n)
      BY <1>2, <2>1
    <3> QED
      BY <3>3, <3>4, <3>5
  <2> QED
    BY <2>1, <2>2
<1>4. ASSUME Cardinality(S) <= n, NEW a \in S
      PROVE  a \in Least(S, n)
  <2>1. Below(a) \in SUBSET S /\ S # Below(a)
    BY <1>4
  <2>2. Cardinality(S) \in Nat /\ Cardinality(Below(a)) \in Nat
    BY <1>1, <1>4, FS_CardinalityType
  <2> HIDE DEF Below
  <2>3. /\ Cardinality(Below(a)) <= Cardinality(S)
        /\ Cardinality(S) # Cardinality(Below(a))
    BY <2>1, FS_Subset
  <2> QED
    BY <2>2, <2>3, <1>2, <1>4
<1> QED
  BY <1>2, <1>3, <1>4

\* The positions of a chunk are finitely many.
LEMMA PositionsFinite ==
  ASSUME NEW s \in Seq(Kinds), NEW P \in SUBSET DOMAIN s
  PROVE  IsFiniteSet(P) /\ Cardinality(P) \in Nat
<1>1. DOMAIN s = 1 .. Len(s) /\ Len(s) \in Nat
  OBVIOUS
<1>2. IsFiniteSet(1 .. Len(s))
  BY <1>1, FS_Interval
<1> QED
  BY <1>1, <1>2, FS_Subset, FS_CardinalityType

-----------------------------------------------------------------------------
(***************************************************************************)
(* IInv is an invariant, action by action.                                 *)
(***************************************************************************)
LEMMA InitInv == Init => IInv
<1> SUFFICES ASSUME Init PROVE IInv
  OBVIOUS
<1>1. inbox \in Seq(Kinds) /\ chunk \in Seq(Kinds) /\ backlog \in 0 .. WriteMax
  BY WriteMaxAssumption DEF Init
<1>2. wait \in [Waiters -> {"out", "blocked", "woken", "ready", "lost"}]
  BY DEF Init
<1>3. TypeOK
  BY <1>1, <1>2 DEF Init, TypeOK, Loop, Over
<1>4. LoopInv /\ SignalInv /\ AcksHaveNoGap /\ NoLostWakeup /\ NothingOutlivesHandler
  BY DEF Init, LoopInv, SignalInv, AcksHaveNoGap, NoLostWakeup, NothingOutlivesHandler, Loop, Over
<1> QED
  BY <1>3, <1>4 DEF IInv

\* Whoever was blocked is woken: the event cannot have been set already.
LEMMA WakeFacts ==
  ASSUME TypeOK, SignalInv, WakeWaiters
  PROVE  /\ ready' = TRUE
         /\ wait' \in [Waiters -> {"out", "blocked", "woken", "ready", "lost"}]
         /\ \A w \in Waiters : wait'[w] # "blocked"
BY DEF TypeOK, SignalInv, WakeWaiters

\* Steps of the panel, of the transport and of the read task.
LEMMA ReadInv ==
  ASSUME IInv,
         \/ \E kind \in Kinds : Arrive(kind)
         \/ PeerCloses \/ ReadData \/ ReadEnds \/ ReadWoken \/ IdleTimeout \/ CancelHandler
  PROVE  IInv'
<1>1. UNCHANGED <<handled, owed, acked, polls, backlog, writer, session, closed, ready, wait,
                commands>>
  BY DEF Arrive, PeerCloses, ReadData, ReadEnds, ReadWoken, IdleTimeout, StopWaiting,
         CancelHandler
<1>2. handler' = handler \/ (handler \in Loop /\ handler' \in Loop)
  BY DEF Arrive, PeerCloses, ReadData, ReadEnds, ReadWoken, IdleTimeout, StopWaiting,
         CancelHandler, Loop
<1>3. inbox' \in Seq(Kinds) /\ chunk' \in Seq(Kinds)
  <2>1. CASE \E kind \in Kinds : Arrive(kind)
    BY <2>1 DEF IInv, TypeOK, Arrive
  <2>2. CASE ReadData
    <3>1. PICK k \in 1 .. Len(inbox) : /\ chunk' = SubSeq(inbox, 1, k)
                                       /\ inbox' = SubSeq(inbox, k + 1, Len(inbox))
      BY <2>2 DEF ReadData
    <3>2. inbox \in Seq(Kinds) /\ Len(inbox) \in Nat
      BY DEF IInv, TypeOK
    <3>3. SubSeq(inbox, 1, k) \in Seq(Kinds)
      BY <3>2
    <3>4. SubSeq(inbox, k + 1, Len(inbox)) \in Seq(Kinds)
      BY <3>2
    <3> QED
      BY <3>1, <3>3, <3>4
  <2>3. CASE PeerCloses \/ ReadEnds \/ ReadWoken \/ IdleTimeout \/ CancelHandler
    BY <2>3 DEF IInv, TypeOK, PeerCloses, ReadEnds, ReadWoken, IdleTimeout, StopWaiting,
                CancelHandler
  <2> QED
    BY <2>1, <2>2, <2>3
<1>4. arrived' \in Nat /\ eof' \in BOOLEAN /\ cancelled' \in BOOLEAN
      /\ read' \in {"running", "data", "ended", "cancelled"}
  <2>1. CASE \E kind \in Kinds : Arrive(kind)
    BY <2>1 DEF IInv, TypeOK, Arrive
  <2>2. CASE PeerCloses \/ ReadData \/ ReadEnds
    BY <2>2 DEF IInv, TypeOK, PeerCloses, ReadData, ReadEnds
  <2>3. CASE ReadWoken \/ IdleTimeout \/ CancelHandler
    BY <2>3 DEF IInv, TypeOK, ReadWoken, IdleTimeout, StopWaiting, CancelHandler
  <2> QED
    BY <2>1, <2>2, <2>3
<1>5. TypeOK'
  BY <1>1, <1>2, <1>3, <1>4 DEF IInv, TypeOK
<1>6. LoopInv' /\ SignalInv' /\ AcksHaveNoGap' /\ NoLostWakeup' /\ NothingOutlivesHandler'
  BY <1>1, <1>2 DEF IInv, LoopInv, SignalInv, AcksHaveNoGap, NoLostWakeup,
                    NothingOutlivesHandler, Loop, Over
<1> QED
  BY <1>5, <1>6 DEF IInv

\* A teardown announced, or begun.
LEMMA CloseInv == ASSUME IInv, LeaveLoop \/ WriterDone \/ SessionDone PROVE IInv'
<1>1. /\ closed' = TRUE /\ ready' = TRUE
      /\ wait' \in [Waiters -> {"out", "blocked", "woken", "ready", "lost"}]
      /\ \A w \in Waiters : wait'[w] # "blocked"
  BY WakeFacts DEF IInv, LeaveLoop, WriterDone, SessionDone, CloseSession
<1>2. /\ UNCHANGED <<arrived, inbox, eof, cancelled, read, handled, owed, acked, polls, backlog,
                     writer, session, commands>>
      /\ handler' = handler \/ handler' = "closing"
      /\ chunk' = chunk \/ chunk' = <<>>
  BY DEF LeaveLoop, WriterDone, SessionDone
<1>3. chunk' \in Seq(Kinds)
  <2>1. chunk \in Seq(Kinds) /\ <<>> \in Seq(Kinds)
    BY DEF IInv, TypeOK
  <2> QED
    BY <2>1, <1>2
<1>4. TypeOK'
  BY <1>1, <1>2, <1>3 DEF IInv, TypeOK
<1>5. LoopInv' /\ SignalInv' /\ AcksHaveNoGap' /\ NoLostWakeup' /\ NothingOutlivesHandler'
  BY <1>1, <1>2 DEF IInv, LoopInv, SignalInv, AcksHaveNoGap, NoLostWakeup,
                    NothingOutlivesHandler, Loop, Over
<1> QED
  BY <1>4, <1>5 DEF IInv

\* A chunk is dispatched.
LEMMA HandleInv == ASSUME IInv, HandleChunk PROVE IInv'
<1> DEFINE acks == {handled + i : i \in {j \in DOMAIN chunk : chunk[j] \in Acknowledged}}
<1> DEFINE polled == {i \in DOMAIN chunk : chunk[i] = "poll"}
<1> DEFINE n == Cardinality(acks)
<1> DEFINE full == Room(n) < n
<1>1. /\ handler = "reaping" /\ acked = owed /\ owed \subseteq 1 .. handled
      /\ handled \in Nat /\ polls \in Nat /\ backlog \in 0 .. WriteMax
      /\ chunk \in Seq(Kinds) /\ Len(chunk) \in Nat /\ DOMAIN chunk = 1 .. Len(chunk)
  BY DEF IInv, TypeOK, AcksHaveNoGap, HandleChunk, Loop
<1>2. /\ owed' = owed \cup acks
      /\ acked' = acked \cup Least(acks, Room(n))
      /\ backlog' = backlog + Room(n)
      /\ handled' = handled + Len(chunk)
      /\ polls' = polls + Cardinality(polled)
      /\ session' = IF session = "none" THEN "running" ELSE session
      /\ chunk' = <<>>
      /\ UNCHANGED <<arrived, inbox, eof, cancelled, writer, commands>>
  BY DEF HandleChunk, DispatchAcks
<1>3. IF closed \/ full
      THEN handler' = "closing" /\ CloseSession /\ UNCHANGED read
      ELSE /\ handler' = "reading" /\ read' = "running" /\ UNCHANGED closed
           /\ IF polled = {} THEN UNCHANGED <<ready, wait>> ELSE WakeWaiters
  BY DEF HandleChunk, TearsDown
<1>4. IsFiniteSet(acks) /\ n \in Nat /\ acks \subseteq handled + 1 .. handled + Len(chunk)
  <2>1. acks \in SUBSET (handled + 1 .. handled + Len(chunk))
    BY <1>1
  <2>2. IsFiniteSet(handled + 1 .. handled + Len(chunk))
    BY <1>1, FS_Interval
  <2> HIDE DEF acks
  <2>3. IsFiniteSet(acks)
    BY <2>1, <2>2, FS_Subset
  <2> QED
    BY <2>1, <2>3, FS_CardinalityType
<1>5. Cardinality(polled) \in Nat
  BY <1>1, PositionsFinite
<1>6. polled = {} => Cardinality(polled) = 0
  BY FS_EmptySet
<1> HIDE DEF acks, polled
<1>7. Room(n) \in 0 .. n /\ backlog + Room(n) \in 0 .. WriteMax
  BY <1>1, <1>4, RoomFacts
<1> HIDE DEF n
<1>8. /\ Least(acks, Room(n)) \subseteq acks
      /\ \A a \in Least(acks, Room(n)), b \in acks \ Least(acks, Room(n)) : a < b
      /\ n <= Room(n) => Least(acks, Room(n)) = acks
  <2>1. acks \in SUBSET Nat /\ Room(n) \in Nat
    BY <1>1, <1>4, <1>7
  <2> QED
    BY <2>1, <1>4, LeastFacts DEF n
<1>9. /\ wait' \in [Waiters -> {"out", "blocked", "woken", "ready", "lost"}]
      /\ ready' \in BOOLEAN
      /\ handler' \in {"closing", "reading"}
      /\ closed' \in BOOLEAN /\ read' \in {"running", "data", "ended", "cancelled"}
      /\ handler' = "closing" => closed'
      /\ handler' = "reading" => ~closed /\ ~closed' /\ ~full
  BY <1>3, WakeFacts DEF IInv, TypeOK, CloseSession
<1>10. owed' \subseteq 1 .. handled' /\ acked' \subseteq owed'
  BY <1>1, <1>2, <1>4, <1>8
<1>11. TypeOK'
  <2>1. chunk' \in Seq(Kinds) /\ handled' \in Nat /\ polls' \in Nat
    BY <1>1, <1>2, <1>5
  <2>2. session' \in {"none", "running", "returned", "crashed", "cancelled"}
    BY <1>2 DEF IInv, TypeOK
  <2> QED
    BY <2>1, <2>2, <1>2, <1>7, <1>9, <1>10 DEF IInv, TypeOK, Loop, Over
<1>12. AcksHaveNoGap'
  <2>1. ASSUME NEW a \in acked', NEW b \in owed' \ acked' PROVE a < b
    BY <2>1, <1>1, <1>2, <1>4, <1>8
  <2>2. handler' \in Loop => acked' = owed'
    BY <1>1, <1>2, <1>4, <1>7, <1>8, <1>9 DEF Loop
  <2> QED
    BY <2>1, <2>2 DEF AcksHaveNoGap
<1>13. NoLostWakeup' /\ SignalInv'
  <2>1. CASE closed \/ full \/ polled # {}
    BY <2>1, <1>3, WakeFacts DEF IInv, CloseSession, NoLostWakeup, SignalInv
  <2>2. CASE ~(closed \/ full \/ polled # {})
    BY <2>2, <1>1, <1>2, <1>3, <1>6 DEF IInv, NoLostWakeup, SignalInv
  <2> QED
    BY <2>1, <2>2
<1>14. LoopInv' /\ NothingOutlivesHandler'
  BY <1>9 DEF LoopInv, NothingOutlivesHandler, Loop, Over
<1> QED
  BY <1>11, <1>12, <1>13, <1>14 DEF IInv

\* The end of _teardown.
LEMMA EndInv == ASSUME IInv, CloseWriter \/ Flushed PROVE IInv'
<1>1. /\ UNCHANGED <<arrived, inbox, eof, cancelled, read, chunk, handled, owed, acked, polls,
                     backlog, writer, session, closed, ready, wait, commands>>
      /\ handler' \in Over /\ handler \notin Loop
      /\ handler \in Over \/ (writer # "running" /\ session # "running")
  BY DEF CloseWriter, Flushed, TasksAwaited, Over, Loop
<1>2. TypeOK'
  BY <1>1 DEF IInv, TypeOK
<1> QED
  BY <1>1, <1>2 DEF IInv, LoopInv, SignalInv, AcksHaveNoGap, NoLostWakeup,
                    NothingOutlivesHandler, Loop, Over

\* The writer, and the end of on_session.
LEMMA TaskInv ==
  ASSUME IInv, Write \/ WriterFails \/ WriterCancelled \/ SessionEnds
  PROVE  IInv'
<1>1. /\ UNCHANGED <<arrived, inbox, eof, handler, cancelled, read, chunk, handled, owed, acked,
                     polls, closed, ready, wait, commands>>
      /\ writer # "running" => writer' # "running"
      /\ session # "running" => session' # "running"
  BY DEF Write, WriterFails, WriterCancelled, SessionEnds
<1>2. /\ backlog' \in 0 .. WriteMax
      /\ writer' \in {"running", "failed", "cancelled"}
      /\ session' \in {"none", "running", "returned", "crashed", "cancelled"}
  BY WriteMaxAssumption DEF IInv, TypeOK, Write, WriterFails, WriterCancelled, SessionEnds
<1>3. TypeOK'
  BY <1>1, <1>2 DEF IInv, TypeOK
<1> QED
  BY <1>1, <1>3 DEF IInv, LoopInv, SignalInv, AcksHaveNoGap, NoLostWakeup, NothingOutlivesHandler

LEMMA SendInv == ASSUME IInv, SendCommand PROVE IInv'
<1>1. /\ UNCHANGED <<arrived, inbox, eof, handler, cancelled, read, chunk, handled, owed, acked,
                     polls, writer, session>>
      /\ ~closed /\ commands' = commands + 1 /\ backlog' = backlog + Room(1)
      /\ IF Room(1) = 0 THEN CloseSession ELSE UNCHANGED <<closed, ready, wait>>
  BY DEF SendCommand
<1>2. backlog' \in 0 .. WriteMax
  BY <1>1, RoomFacts DEF IInv, TypeOK
<1>3. CASE Room(1) = 0
  <2>1. closed' = TRUE /\ ready' = TRUE
        /\ wait' \in [Waiters -> {"out", "blocked", "woken", "ready", "lost"}]
        /\ \A w \in Waiters : wait'[w] # "blocked"
    BY <1>1, <1>3, WakeFacts DEF IInv, CloseSession
  <2>2. TypeOK'
    BY <2>1, <1>1, <1>2 DEF IInv, TypeOK
  <2> QED
    BY <2>1, <2>2, <1>1 DEF IInv, LoopInv, SignalInv, AcksHaveNoGap, NoLostWakeup,
                            NothingOutlivesHandler
<1>4. CASE Room(1) # 0
  <2>1. TypeOK'
    BY <1>1, <1>2, <1>4 DEF IInv, TypeOK
  <2> QED
    BY <2>1, <1>1, <1>4 DEF IInv, LoopInv, SignalInv, AcksHaveNoGap, NoLostWakeup,
                            NothingOutlivesHandler
<1> QED
  BY <1>3, <1>4

\* A task goes to sleep only if it lacks polls and the session is open.
LEMMA WaitInv == ASSUME IInv, NEW w \in Waiters, WaitReady(w) PROVE IInv'
<1>1. /\ UNCHANGED <<arrived, inbox, eof, handler, cancelled, read, chunk, handled, owed, acked,
                     polls, backlog, writer, session, closed, commands>>
      /\ wait' = [wait EXCEPT ![w] = IF polls >= MinPolls[w] THEN "ready"
                                     ELSE IF closed THEN "lost" ELSE "blocked"]
      /\ ready' = (ready /\ wait'[w] # "blocked")
  BY DEF WaitReady
<1>2. wait' \in [Waiters -> {"out", "blocked", "woken", "ready", "lost"}]
  BY <1>1 DEF IInv, TypeOK
<1>3. TypeOK'
  BY <1>1, <1>2 DEF IInv, TypeOK
<1>4. NoLostWakeup' /\ SignalInv'
  <2>1. polls \in Nat /\ MinPolls[w] \in Nat
    BY MinPollsAssumption DEF IInv, TypeOK
  <2> QED
    BY <2>1, <1>1, <1>2 DEF IInv, TypeOK, NoLostWakeup, SignalInv
<1> QED
  BY <1>1, <1>3, <1>4 DEF IInv, LoopInv, AcksHaveNoGap, NothingOutlivesHandler

LEMMA StutterInv == IInv /\ UNCHANGED vars => IInv'
<1> SUFFICES ASSUME IInv, UNCHANGED vars PROVE IInv'
  OBVIOUS
<1>1. TypeOK'
  BY DEF IInv, TypeOK, vars
<1> QED
  BY <1>1 DEF IInv, LoopInv, SignalInv, AcksHaveNoGap, NoLostWakeup, NothingOutlivesHandler, vars

LEMMA NextInv == IInv /\ [Next]_vars => IInv'
<1> SUFFICES ASSUME IInv, [Next]_vars PROVE IInv'
  OBVIOUS
<1>1. CASE (\E kind \in Kinds : Arrive(kind)) \/ PeerCloses \/ ReadData \/ ReadEnds
           \/ ReadWoken \/ IdleTimeout \/ CancelHandler
  BY <1>1, ReadInv
<1>2. CASE LeaveLoop \/ WriterDone \/ SessionDone
  BY <1>2, CloseInv
<1>3. CASE HandleChunk
  BY <1>3, HandleInv
<1>4. CASE CloseWriter \/ Flushed
  BY <1>4, EndInv
<1>5. CASE Write \/ WriterFails \/ WriterCancelled \/ SessionEnds
  BY <1>5, TaskInv
<1>6. CASE SendCommand
  BY <1>6, SendInv
<1>7. CASE \E w \in Waiters : WaitReady(w)
  BY <1>7, WaitInv
<1>8. CASE UNCHANGED vars
  BY <1>8, StutterInv
<1> QED
  BY <1>1, <1>2, <1>3, <1>4, <1>5, <1>6, <1>7, <1>8 DEF Next, Finished

-----------------------------------------------------------------------------
(***************************************************************************)
(* The strengthened invariant is an invariant.                             *)
(***************************************************************************)
THEOREM Invariance == Spec => []IInv
<1>1. Init => IInv
  BY InitInv
<1>2. IInv /\ [Next]_vars => IInv'
  BY NextInv
<1> QED
  BY <1>1, <1>2, PTL DEF Spec

(***************************************************************************)
(* TypeOK holds; in particular the write queue never exceeds its bound.    *)
(***************************************************************************)
THEOREM TypeCorrect == Spec => []TypeOK
<1>1. IInv => TypeOK
  BY DEF IInv
<1> QED
  BY <1>1, Invariance, PTL

(***************************************************************************)
(* AcksHaveNoGap: no acknowledgement is dropped and followed by another.   *)
(***************************************************************************)
THEOREM AcknowledgementsHaveNoGap == Spec => []AcksHaveNoGap
<1>1. IInv => AcksHaveNoGap
  BY DEF IInv
<1> QED
  BY <1>1, Invariance, PTL

(***************************************************************************)
(* NoLostWakeup: nobody sleeps in wait_ready on a session that is ready    *)
(* enough or closed.                                                       *)
(***************************************************************************)
THEOREM WakeupsAreNotLost == Spec => []NoLostWakeup
<1>1. IInv => NoLostWakeup
  BY DEF IInv
<1> QED
  BY <1>1, Invariance, PTL

(***************************************************************************)
(* NothingOutlivesHandler: the socket is closed after the tasks are over.  *)
(***************************************************************************)
THEOREM TasksEndBeforeTheSocket == Spec => []NothingOutlivesHandler
<1>1. IInv => NothingOutlivesHandler
  BY DEF IInv
<1> QED
  BY <1>1, Invariance, PTL

-----------------------------------------------------------------------------
(***************************************************************************)
(* The handler is not over, and its on_session does not change, but where  *)
(* Handler says so.                                                        *)
(***************************************************************************)
LEMMA StepLives ==
  ASSUME IInv, [Next]_vars
  PROVE  [Tasks!Next]_(Tasks!vars)
<1> USE DEF Loop, Over, Tasks!vars
<1>0. /\ handler \in {"reading", "reaping", "closing", "flushing", "done"}
      /\ session \in {"none", "running", "returned", "crashed", "cancelled"}
      /\ handler \in {"flushing", "done"} => session # "running"
  BY DEF IInv, TypeOK, NothingOutlivesHandler
<1>1. CASE LeaveLoop
  <2>1. Tasks!LeaveLoop
    BY <1>1 DEF LeaveLoop, Tasks!LeaveLoop
  <2> QED BY <2>1 DEF Tasks!Next
<1>2. CASE HandleChunk
  <2>1. /\ handler = "reaping" /\ handler' \in {"reading", "closing"}
        /\ session' = IF session = "none" THEN "running" ELSE session
    BY <1>2 DEF HandleChunk
  <2>2. CASE session = "none"
    <3>1. Tasks!Dispatch
      BY <2>1, <2>2 DEF Tasks!Dispatch
    <3> QED BY <3>1 DEF Tasks!Next
  <2>3. CASE session # "none" /\ handler' = "closing"
    <3>1. Tasks!LeaveLoop
      BY <2>1, <2>3 DEF Tasks!LeaveLoop
    <3> QED BY <3>1 DEF Tasks!Next
  <2>4. CASE session # "none" /\ handler' = "reading"
    BY <2>1, <2>4
  <2> QED BY <2>1, <2>2, <2>3, <2>4
<1>3. CASE CloseWriter
  <2>1. Tasks!CloseWriter
    BY <1>0, <1>3 DEF CloseWriter, TasksAwaited, Tasks!CloseWriter
  <2> QED BY <2>1 DEF Tasks!Next
<1>4. CASE Flushed
  <2>1. Tasks!Done
    BY <1>4 DEF Flushed, Tasks!Done
  <2> QED BY <2>1 DEF Tasks!Next
<1>5. CASE SessionEnds
  <2>1. Tasks!SessionEnds
    BY <1>0, <1>5 DEF SessionEnds, Tasks!SessionEnds
  <2> QED BY <2>1 DEF Tasks!Next
<1>6. CASE ReadWoken \/ IdleTimeout
  <2>1. handler = "reading" /\ handler' = "reaping" /\ session' = session
    BY <1>6 DEF ReadWoken, IdleTimeout, StopWaiting
  <2> QED BY <2>1
<1>7. CASE ~(LeaveLoop \/ HandleChunk \/ CloseWriter \/ Flushed \/ SessionEnds
             \/ ReadWoken \/ IdleTimeout)
  <2>1. UNCHANGED <<handler, session>>
    BY <1>7 DEF Next, vars, Arrive, PeerCloses, ReadData, ReadEnds, CancelHandler, Write,
                WriterFails, WriterCancelled, WriterDone, SendCommand, SessionDone, WaitReady,
                Finished
  <2> QED BY <2>1
<1> QED BY <1>1, <1>2, <1>3, <1>4, <1>5, <1>6, <1>7

(***************************************************************************)
(* ImplementsHandler: a connection, whatever its panel, its writer and the *)
(* application do, goes through the life that Server relies on.            *)
(***************************************************************************)
THEOREM ConnectionsLive == Spec => ImplementsHandler
<1>1. Init => Tasks!Init
  BY DEF Init, Tasks!Init, Loop
<1>2. IInv /\ [Next]_vars => [Tasks!Next]_(Tasks!vars)
  BY StepLives
<1> QED BY Invariance, <1>1, <1>2, PTL DEF Spec, ImplementsHandler, Tasks!Spec

=============================================================================
