----------------------------- MODULE ServerProofs -----------------------------
(***************************************************************************)
(* Proofs about Server: type correctness, NothingOutlivesExit and          *)
(* HandlersLive, for any connections, any number of entries and of         *)
(* cancellations.                                                          *)
(***************************************************************************)
EXTENDS Server, TLAPS

(***************************************************************************)
(* The task waits for the asyncio server as often as it has yet to.        *)
(***************************************************************************)
Waiting == server = "stopping" => waits >= 1

(***************************************************************************)
(* A handler is registered from its first step to its last, and owns an    *)
(* on_session only in between.                                             *)
(***************************************************************************)
Registered ==
  \A c \in Conns :
    /\ c \in handlers <=> handler[c] \notin {"none", "created"}
    /\ handler[c] \in {"none", "created"} => session[c] = "none"

(***************************************************************************)
(* The handlers that __aexit__ gathers, a copy of a set that changes, are  *)
(* all that run: none begins after the copy is made, as the asyncio server *)
(* accepts none and has none in hand by then.                              *)
(***************************************************************************)
GatherIsComplete ==
  server = "gathering" =>
    clients = {} /\ \A c \in Conns : handler[c] # "created" /\ (c \in handlers => c \in awaited)

\* What NothingOutlivesExit says, of handlers: their sessions follow.
NoHandlerLeft ==
  server = "off" /\ outcome \in {"returned", "cancelled"} =>
    /\ \A c \in Conns : handler[c] = "none"
    /\ outcome = "returned" => clients = {}

IInv == TypeOK /\ Waiting /\ Registered /\ GatherIsComplete /\ NoHandlerLeft

-----------------------------------------------------------------------------
(***************************************************************************)
(* The initial states satisfy the invariant.                               *)
(***************************************************************************)
LEMMA InitInv == Init => IInv
BY EntriesAssumption, CancelsAssumption
DEF Init, IInv, TypeOK, Waiting, Registered, GatherIsComplete, NoHandlerLeft, Places, Outcomes

(***************************************************************************)
(* What the task does that uses the server keeps the invariant.            *)
(***************************************************************************)
LEMMA UseKeeps ==
  ASSUME IInv, Use
  PROVE  IInv'
<1> USE EntriesAssumption, CancelsAssumption DEF IInv, TypeOK, connVars, Places, Outcomes
<1>1. CASE Enter
  BY <1>1 DEF Enter, Waiting, Registered, GatherIsComplete, NoHandlerLeft
<1>2. CASE LeaveBody
  BY <1>2 DEF LeaveBody, Stop, Waiting, Registered, GatherIsComplete, NoHandlerLeft
<1>3. CASE CancelServing
  BY <1>3 DEF CancelServing, Stop, Waiting, Registered, GatherIsComplete, NoHandlerLeft
<1>4. CASE Gather
  <2>1. TypeOK'
    BY <1>4 DEF Gather
  <2>2. Waiting' /\ Registered'
    BY <1>4 DEF Gather, Waiting, Registered
  <2>3. GatherIsComplete' /\ NoHandlerLeft'
    BY <1>4 DEF Gather, Closed, Registered, GatherIsComplete, NoHandlerLeft
  <2> QED BY <2>1, <2>2, <2>3
<1>5. CASE CancelWait
  BY <1>5 DEF CancelWait, Waiting, Registered, GatherIsComplete, NoHandlerLeft
<1>6. CASE CancelGather
  <2>1. TypeOK'
    BY <1>6 DEF CancelGather
  <2>2. Waiting' /\ GatherIsComplete' /\ NoHandlerLeft'
    BY <1>6 DEF CancelGather, Waiting, GatherIsComplete, NoHandlerLeft
  <2>3. Registered'
    BY <1>6 DEF CancelGather, Registered
  <2> QED BY <2>1, <2>2, <2>3
<1>7. CASE Gathered
  <2>1. TypeOK' /\ Waiting' /\ Registered' /\ GatherIsComplete'
    BY <1>7 DEF Gathered, Waiting, Registered, GatherIsComplete
  <2>2. NoHandlerLeft'
    BY <1>7 DEF Gathered, Registered, GatherIsComplete, NoHandlerLeft
  <2> QED BY <2>1, <2>2
<1> QED BY <1>1, <1>2, <1>3, <1>4, <1>5, <1>6, <1>7 DEF Use

(***************************************************************************)
(* What happens to a connection keeps the invariant.                       *)
(***************************************************************************)
LEMMA ConnectKeeps ==
  ASSUME IInv, NEW c \in Conns, Connect(c)
  PROVE  IInv'
<1> USE DEF IInv, TypeOK
<1>1. CASE Accept(c)
  BY <1>1 DEF Accept, Waiting, Registered, GatherIsComplete, NoHandlerLeft
<1>2. CASE Handle(c)
  BY <1>2 DEF Handle, Waiting, Registered, GatherIsComplete, NoHandlerLeft
<1>3. CASE FirstFrame(c)
  BY <1>3 DEF FirstFrame, Waiting, Registered, GatherIsComplete, NoHandlerLeft
<1>4. CASE Buffers(c) \/ PeerReads(c)
  BY <1>4 DEF Buffers, PeerReads, Waiting, Registered, GatherIsComplete, NoHandlerLeft
<1>5. CASE Lost(c)
  BY <1>5 DEF Lost, Waiting, Registered, GatherIsComplete, NoHandlerLeft
<1>6. CASE LeaveLoop(c)
  BY <1>6 DEF LeaveLoop, Waiting, Registered, GatherIsComplete, NoHandlerLeft
<1>7. CASE SessionEnds(c)
  BY <1>7 DEF SessionEnds, Waiting, Registered, GatherIsComplete, NoHandlerLeft
<1>8. CASE CloseWriter(c)
  BY <1>8 DEF CloseWriter, Waiting, Registered, GatherIsComplete, NoHandlerLeft
<1>9. CASE Done(c)
  BY <1>9 DEF Done, Waiting, Registered, GatherIsComplete, NoHandlerLeft
<1> QED BY <1>1, <1>2, <1>3, <1>4, <1>5, <1>6, <1>7, <1>8, <1>9 DEF Connect

(***************************************************************************)
(* The invariant holds throughout.                                         *)
(***************************************************************************)
LEMMA Invariance == Spec => []IInv
<1>1. IInv /\ [Next]_vars => IInv'
  <2> SUFFICES ASSUME IInv, [Next]_vars
               PROVE  IInv'
    OBVIOUS
  <2>1. CASE Use
    BY <2>1, UseKeeps
  <2>2. CASE \E c \in Conns : Connect(c)
    BY <2>2, ConnectKeeps
  <2>3. CASE UNCHANGED vars
    BY <2>3 DEF vars, IInv, TypeOK, Waiting, Registered, GatherIsComplete, NoHandlerLeft
  <2> QED BY <2>1, <2>2, <2>3 DEF Next, Finished
<1> QED BY InitInv, <1>1, PTL DEF Spec

(***************************************************************************)
(* The server's state is of its type: wait_closed returns at most as often *)
(* as it was called, whenever the task is cancelled.                       *)
(***************************************************************************)
THEOREM TypeCorrect == Spec => []TypeOK
<1>1. IInv => TypeOK
  BY DEF IInv
<1> QED BY Invariance, <1>1, PTL

(***************************************************************************)
(* Leaving the server leaves no handler and no on_session behind: all that *)
(* run are registered, all that are registered are gathered, and none      *)
(* begins once they are.                                                   *)
(***************************************************************************)
THEOREM ExitsLeaveNothing == Spec => []NothingOutlivesExit
<1>1. IInv => NothingOutlivesExit
  BY DEF IInv, TypeOK, Registered, NoHandlerLeft, NothingOutlivesExit
<1> QED BY Invariance, <1>1, PTL

-----------------------------------------------------------------------------
(***************************************************************************)
(* The server's own steps leave a connection's life alone, but for the     *)
(* cancellation of the gather, which ends a read loop or the wait for the  *)
(* transport.                                                              *)
(***************************************************************************)
LEMMA UseLives ==
  ASSUME IInv, Use, NEW c \in Conns
  PROVE  [Tasks(c)!Next]_(Tasks(c)!vars)
<1> USE DEF Tasks!vars
<1>1. CASE CancelGather
  <2>1. CASE c \in awaited /\ handler[c] = "reading"
    <3>1. Tasks(c)!LeaveLoop
      BY <1>1, <2>1 DEF CancelGather, Tasks!LeaveLoop, IInv, TypeOK
    <3> QED BY <3>1 DEF Tasks!Next
  <2>2. CASE c \in awaited /\ handler[c] = "flushing"
    <3>1. Tasks(c)!Done
      BY <1>1, <2>2 DEF CancelGather, Tasks!Done, IInv, TypeOK
    <3> QED BY <3>1 DEF Tasks!Next
  <2>3. CASE ~(c \in awaited /\ handler[c] \in {"reading", "flushing"})
    <3>1. handler'[c] = handler[c] /\ session'[c] = session[c]
      BY <1>1, <2>3 DEF CancelGather, IInv, TypeOK, Registered
    <3> QED BY <3>1
  <2> QED BY <2>1, <2>2, <2>3
<1>2. CASE Enter \/ LeaveBody \/ CancelServing \/ Gather \/ CancelWait \/ Gathered
  <2>1. UNCHANGED <<handler, session>>
    BY <1>2 DEF Enter, LeaveBody, CancelServing, Gather, CancelWait, Gathered, connVars
  <2> QED BY <2>1
<1> QED BY <1>1, <1>2 DEF Use

(***************************************************************************)
(* Each step of a connection is a step of its own life, or of none.        *)
(***************************************************************************)
LEMMA ConnectLives ==
  ASSUME IInv, NEW d \in Conns, Connect(d), NEW c \in Conns
  PROVE  [Tasks(c)!Next]_(Tasks(c)!vars)
<1> USE DEF IInv, TypeOK, Tasks!vars
<1>1. CASE c # d
  <2>1. handler'[c] = handler[c] /\ session'[c] = session[c]
    BY <1>1 DEF Connect, Accept, Handle, FirstFrame, Buffers, PeerReads, Lost, LeaveLoop,
                SessionEnds, CloseWriter, Done
  <2> QED BY <2>1
<1>2. CASE c = d
  <2>1. CASE Accept(c) \/ Buffers(c) \/ PeerReads(c) \/ Lost(c)
    BY <2>1 DEF Accept, Buffers, PeerReads, Lost
  <2>2. CASE Handle(c)
    BY <2>2 DEF Handle, Tasks!Next, Tasks!Begin
  <2>3. CASE FirstFrame(c)
    BY <2>3 DEF FirstFrame, Tasks!Next, Tasks!Dispatch
  <2>4. CASE LeaveLoop(c)
    BY <2>4 DEF LeaveLoop, Tasks!Next, Tasks!LeaveLoop
  <2>5. CASE SessionEnds(c)
    BY <2>5 DEF SessionEnds, Tasks!Next, Tasks!SessionEnds
  <2>6. CASE CloseWriter(c)
    BY <2>6 DEF CloseWriter, Tasks!Next, Tasks!CloseWriter
  <2>7. CASE Done(c)
    BY <2>7 DEF Done, Tasks!Next, Tasks!Done
  <2> QED BY <1>2, <2>1, <2>2, <2>3, <2>4, <2>5, <2>6, <2>7 DEF Connect
<1> QED BY <1>1, <1>2

(***************************************************************************)
(* Every step of the server is, for each connection, a step of the life    *)
(* that Handler describes, or leaves it alone.                             *)
(***************************************************************************)
THEOREM HandlersLiveOn == Spec => HandlersLive
<1>1. IInv /\ [Next]_vars => [\A c \in Conns : [Tasks(c)!Next]_(Tasks(c)!vars)]_vars
  <2> SUFFICES ASSUME IInv, [Next]_vars, NEW c \in Conns
               PROVE  [Tasks(c)!Next]_(Tasks(c)!vars)
    OBVIOUS
  <2>1. CASE Use
    BY <2>1, UseLives
  <2>2. CASE \E d \in Conns : Connect(d)
    BY <2>2, ConnectLives
  <2>3. CASE UNCHANGED vars
    BY <2>3 DEF vars, Tasks!vars
  <2> QED BY <2>1, <2>2, <2>3 DEF Next, Finished
<1> QED BY Invariance, <1>1, PTL DEF Spec, HandlersLive

=============================================================================
