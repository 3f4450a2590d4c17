------------------------- MODULE PanelSnapshotProofs -------------------------
(***************************************************************************)
(* Proofs about PanelSnapshot: type correctness and AlarmsAreKept, for any *)
(* areas and zones, any length of the event queue, any number of changes   *)
(* and of faults.                                                          *)
(***************************************************************************)
EXTENDS PanelSnapshot, SequenceTheorems, TLAPS

(***************************************************************************)
(* An area that is not in the snapshot has no flag to keep.                *)
(***************************************************************************)
UnknownInv == \A a \in Areas : ~Known(a) => ~areas[a].triggered

IInv == TypeOK /\ UnknownInv /\ AlarmsAreKept

-----------------------------------------------------------------------------
(***************************************************************************)
(* No event is one that the consumer has none of, and the two kinds of     *)
(* events are told apart by their codes.                                   *)
(***************************************************************************)
LEMMA EventKinds ==
  /\ NoEvent \notin AreaEvents
  /\ \A e \in AreaEvents : e.about \in Areas
  /\ \A e \in ZoneEvents : e.about \in Zones
BY DEF NoEvent, AreaEvents, ZoneEvents

(***************************************************************************)
(* The queue of events keeps its type and its bound.                       *)
(***************************************************************************)
QueueOK == events \in Seq(Events) /\ Len(events) <= QueueMax

LEMMA EmitKeepsQueue ==
  ASSUME QueueOK, NEW e \in Events, Emit(e)
  PROVE  QueueOK'
<1>1. Len(events) \in Nat /\ events \in Seq(Events)
  BY LenProperties DEF QueueOK
<1>2. CASE Len(events) = QueueMax
  <2>1. events # <<>>
    BY <1>2, QueueAssumption, EmptySeq
  <2>2. Tail(events) \in Seq(Events) /\ Len(Tail(events)) = QueueMax - 1
    BY <1>1, <1>2, <2>1, HeadTailProperties
  <2>3. Append(Tail(events), e) \in Seq(Events) /\ Len(Append(Tail(events), e)) = QueueMax
    BY <2>2, AppendProperties, QueueAssumption
  <2>4. events' = Append(Tail(events), e)
    BY <1>2 DEF Emit
  <2> QED BY <2>3, <2>4, QueueAssumption DEF QueueOK
<1>3. CASE Len(events) # QueueMax
  <2>1. Len(events) + 1 <= QueueMax
    BY <1>1, <1>3, QueueAssumption DEF QueueOK
  <2>2. Append(events, e) \in Seq(Events) /\ Len(Append(events, e)) = Len(events) + 1
    BY <1>1, AppendProperties
  <2>3. events' = Append(events, e)
    BY <1>3 DEF Emit
  <2> QED BY <2>1, <2>2, <2>3 DEF QueueOK
<1> QED BY <1>2, <1>3

LEMMA TakingKeepsQueue ==
  ASSUME QueueOK, events # <<>>, events' = Tail(events)
  PROVE  QueueOK' /\ Head(events) \in Events
<1>1. /\ Tail(events) \in Seq(Events) /\ Head(events) \in Events
      /\ Len(Tail(events)) = Len(events) - 1 /\ Len(events) \in Nat
  BY HeadTailProperties, LenProperties DEF QueueOK
<1> QED BY <1>1, QueueAssumption DEF QueueOK

(***************************************************************************)
(* What the panel does leaves all but itself and the queue alone.          *)
(***************************************************************************)
LEMMA PanelKeeps ==
  ASSUME IInv, PanelNext
  PROVE  IInv'
<1> USE DEF snapshot, tasks
<1>1. QueueOK /\ changes \in Nat /\ mode \in [Areas -> Modes] /\ input \in [Zones -> Inputs]
  BY DEF IInv, TypeOK, QueueOK
<1>2. /\ changes' \in 0..MaxChanges
      /\ UNCHANGED <<areas, zones, alarmed, latched, wants, current, asking, answer, faults>>
  <2>1. Changes
    BY DEF PanelNext, ZoneChanges, ZoneAlarms, AreaChanges, AlarmVerified, Reprogrammed
  <2>2. changes < MaxChanges /\ changes' = changes + 1 /\ UNCHANGED <<snapshot, tasks, faults>>
    BY <2>1 DEF Changes
  <2> QED BY <1>1, <2>2, BoundsAssumption
<1>3. QueueOK'
  <2>1. CASE \E z \in Zones : ZoneChanges(z) \/ ZoneAlarms(z)
    <3>1. PICK z \in Zones : ZoneChanges(z) \/ ZoneAlarms(z)
      BY <2>1
    <3>2. PICK c \in {"ZO", "ZC", "BA"} : Emit([code |-> c, about |-> z])
      BY <3>1 DEF ZoneChanges, ZoneAlarms
    <3>3. [code |-> c, about |-> z] \in Events
      BY DEF Events, ZoneEvents
    <3> QED BY <1>1, <3>2, <3>3, EmitKeepsQueue
  <2>2. CASE \E a \in Areas : AreaChanges(a) \/ AlarmVerified(a)
    <3>1. PICK a \in Areas : AreaChanges(a) \/ AlarmVerified(a)
      BY <2>2
    <3>2. PICK c \in {"OP", "BV"} : Emit([code |-> c, about |-> a])
      BY <3>1 DEF AreaChanges, AlarmVerified
    <3>3. [code |-> c, about |-> a] \in Events
      BY DEF Events, AreaEvents
    <3> QED BY <1>1, <3>2, <3>3, EmitKeepsQueue
  <2>3. CASE Reprogrammed
    BY <1>1, <2>3 DEF Reprogrammed, QueueOK
  <2> QED BY <2>1, <2>2, <2>3 DEF PanelNext
<1>4. mode' \in [Areas -> Modes]
  BY <1>1 DEF PanelNext, ZoneChanges, ZoneAlarms, AreaChanges, AlarmVerified, Reprogrammed, Modes
<1>5. input' \in [Zones -> Inputs]
  BY <1>1 DEF PanelNext, ZoneChanges, ZoneAlarms, AreaChanges, AlarmVerified, Reprogrammed, Inputs
<1>6. TypeOK'
  BY <1>2, <1>3, <1>4, <1>5 DEF IInv, TypeOK, QueueOK
<1>7. UnknownInv' /\ AlarmsAreKept'
  BY <1>2 DEF IInv, UnknownInv, AlarmsAreKept, Known
<1> QED BY <1>6, <1>7 DEF IInv

(***************************************************************************)
(* The end of a command leaves the lock free and no row behind.            *)
(***************************************************************************)
CommandOK ==
  /\ wants \in [Tasks -> Wants]
  /\ current \in AreaEvents \cup {NoEvent}
  /\ wants["consumer"] = IF current = NoEvent THEN "nothing" ELSE "areas"
  /\ asking \in Tasks \cup {"nobody"}
  /\ asking \in Tasks => wants[asking] # "nothing"
  /\ \A a \in Areas : answer[a] \in Modes \cup {"due", "bad"}
  /\ \A z \in Zones : answer[z] \in Inputs \cup {"due", "bad"}
  /\ DOMAIN answer = Areas \cup Zones

LEMMA GoingKeeps ==
  ASSUME CommandOK, NEW t \in Tasks, NEW next \in Wants, Goes(t, next),
         current' = IF t = "consumer" THEN NoEvent ELSE current,
         t = "consumer" => next = "nothing"
  PROVE  CommandOK'
<1>1. wants' \in [Tasks -> Wants] /\ asking' = "nobody" /\ "nobody" \notin Tasks
  BY DEF CommandOK, Goes, Tasks
<1>2. current' \in AreaEvents \cup {NoEvent}
  BY DEF CommandOK
<1>3. wants'["consumer"] = IF current' = NoEvent THEN "nothing" ELSE "areas"
  BY DEF CommandOK, Goes, Tasks
<1>4. /\ \A a \in Areas : answer'[a] = "due"
      /\ \A z \in Zones : answer'[z] = "due"
      /\ DOMAIN answer' = Areas \cup Zones
  BY DEF Goes, Unread
<1> QED BY <1>1, <1>2, <1>3, <1>4 DEF CommandOK

(***************************************************************************)
(* The rest of TypeOK.                                                     *)
(***************************************************************************)
DataOK ==
  /\ mode \in [Areas -> Modes]
  /\ input \in [Zones -> Inputs]
  /\ areas \in [Areas -> [mode : Modes, triggered : BOOLEAN]]
  /\ zones \in [Zones -> Inputs]
  /\ alarmed \in [Areas -> BOOLEAN]
  /\ latched \in [Areas -> BOOLEAN]
  /\ changes \in 0..MaxChanges
  /\ faults \in 0..MaxFaults

LEMMA TypeParts ==
  /\ TypeOK <=> QueueOK /\ CommandOK /\ DataOK
  /\ TypeOK' <=> QueueOK' /\ CommandOK' /\ DataOK'
BY DEF TypeOK, QueueOK, CommandOK, DataOK

LEMMA AreasReadKeeps ==
  ASSUME IInv, NEW t \in Tasks, AreasRead(t)
  PROVE  IInv'
<1> DEFINE verified == {a \in Areas : t = "consumer" /\ Verified(a)}
<1>1. /\ areas' = [a \in Areas |->
            IF a \in verified THEN [Refreshed[a] EXCEPT !.triggered = TRUE] ELSE Refreshed[a]]
      /\ alarmed' = [a \in Areas |->
            a \in verified \/ (alarmed[a] /\ answer[a] \notin {"unset", "gone"})]
      /\ latched' = [a \in Areas |-> a \in verified \/ (latched[a] /\ answer[a] # "unset")]
  BY DEF AreasRead
<1>2. /\ current' = IF t = "consumer" THEN NoEvent ELSE current
      /\ Goes(t, IF t = "refresher" THEN "zones" ELSE "nothing")
      /\ UNCHANGED <<mode, input, changes, events, zones, faults>>
  BY DEF AreasRead, panelVars
<1>3. \A a \in Areas : answer[a] \in Modes
  BY TypeParts DEF AreasRead, Answered, Whole, Rows, IInv, CommandOK
<1>4. \A a \in verified : answer[a] # "gone"
  BY DEF Verified
<1>5. ASSUME NEW a \in Areas
      PROVE  /\ areas'[a].mode = answer[a]
             /\ areas'[a].triggered =
                  (a \in verified \/ (answer[a] = "set" /\ Known(a) /\ areas[a].triggered))
             /\ areas'[a] \in [mode : Modes, triggered : BOOLEAN]
  <2>1. /\ Refreshed[a] = [mode |-> answer[a],
                           triggered |-> answer[a] = "set" /\ Known(a) /\ areas[a].triggered]
        /\ areas[a].triggered \in BOOLEAN
    BY TypeParts DEF Refreshed, IInv, DataOK
  <2>2. areas'[a] = IF a \in verified THEN [Refreshed[a] EXCEPT !.triggered = TRUE] ELSE Refreshed[a]
    BY <1>1
  <2> HIDE DEF verified
  <2>3. CASE a \in verified
    <3>1. areas'[a] = [Refreshed[a] EXCEPT !.triggered = TRUE]
      BY <2>2, <2>3
    <3>2. Refreshed[a] \in [mode : Modes, triggered : BOOLEAN] /\ Refreshed[a].mode = answer[a]
      <4>1. (answer[a] = "set" /\ Known(a) /\ areas[a].triggered) \in BOOLEAN
        OBVIOUS
      <4> QED BY <1>3, <2>1, <4>1
    <3>3. /\ areas'[a].mode = answer[a] /\ areas'[a].triggered = TRUE
          /\ areas'[a] \in [mode : Modes, triggered : BOOLEAN]
      BY <3>1, <3>2
    <3> QED BY <2>3, <3>3
  <2>4. CASE a \notin verified
    <3>1. areas'[a] = [mode |-> answer[a],
                       triggered |-> answer[a] = "set" /\ Known(a) /\ areas[a].triggered]
      BY <2>1, <2>2, <2>4
    <3>2. (answer[a] = "set" /\ Known(a) /\ areas[a].triggered) \in BOOLEAN
      OBVIOUS
    <3> QED BY <1>3, <2>4, <3>1, <3>2
  <2> QED BY <2>3, <2>4
<1> HIDE DEF verified
<1>6. DataOK'
  <2>1. DOMAIN areas' = Areas /\ areas' = [a \in Areas |-> areas'[a]]
    BY <1>1
  <2>2. areas' \in [Areas -> [mode : Modes, triggered : BOOLEAN]]
    BY <1>5, <2>1
  <2>3. alarmed' \in [Areas -> BOOLEAN] /\ latched' \in [Areas -> BOOLEAN]
    BY <1>1
  <2> QED BY <1>2, <2>2, <2>3, TypeParts DEF IInv, DataOK
<1>7. CommandOK'
  <2>1. (IF t = "refresher" THEN "zones" ELSE "nothing") \in Wants
    BY DEF Wants
  <2>2. t = "consumer" => (IF t = "refresher" THEN "zones" ELSE "nothing") = "nothing"
    OBVIOUS
  <2> QED BY <1>2, <2>1, <2>2, TypeParts, GoingKeeps DEF IInv
<1>8. QueueOK'
  BY <1>2, TypeParts DEF IInv, QueueOK
<1>9. UnknownInv'
  BY <1>4, <1>5 DEF UnknownInv, Known
<1>10. AlarmsAreKept'
  <2> SUFFICES ASSUME NEW a \in Areas PROVE areas'[a].triggered = alarmed'[a]
    BY DEF AlarmsAreKept
  <2>1. alarmed'[a] = (a \in verified \/ (alarmed[a] /\ answer[a] \notin {"unset", "gone"}))
    BY <1>1
  <2>2. areas[a].triggered = alarmed[a] /\ (areas[a].triggered => Known(a))
    BY TypeParts DEF IInv, DataOK, AlarmsAreKept, UnknownInv
  <2>3. (answer[a] \notin {"unset", "gone"}) = (answer[a] = "set")
    BY <1>3 DEF Modes
  <2> QED BY <1>5, <2>1, <2>2, <2>3
<1> QED BY <1>6, <1>7, <1>8, <1>9, <1>10, TypeParts DEF IInv

LEMMA ApplyEventKeeps ==
  ASSUME IInv, ApplyEvent
  PROVE  IInv'
<1> DEFINE e == Head(events)
           raised == {a \in Areas : e.code = "BA" /\ a = AreaOf[e.about] /\ Known(a)}
<1>1. /\ events # <<>> /\ e \in ZoneEvents /\ events' = Tail(events)
      /\ UNCHANGED <<mode, input, changes, wants, current, asking, answer, faults>>
  BY DEF ApplyEvent, panelVars, tasks
<1>2. QueueOK' /\ CommandOK'
  BY <1>1, TypeParts, TakingKeepsQueue DEF IInv, CommandOK
<1>3. CASE UNCHANGED snapshot
  BY <1>1, <1>2, <1>3, TypeParts DEF snapshot, IInv, DataOK, UnknownInv, Known, AlarmsAreKept
<1>4. CASE /\ Applied(e)
           /\ alarmed' = [a \in Areas |-> alarmed[a] \/ a \in raised]
           /\ latched' = [a \in Areas |-> latched[a] \/ a \in raised]
  <2>1. e.about \in Zones /\ AreaOf[e.about] \in Areas
    BY <1>1, EventKinds, AreaOfAssumption
  <2>2. /\ zones' = [zones EXCEPT ![e.about] = IF e.code = "ZC" THEN "closed" ELSE "open"]
        /\ areas' = [areas EXCEPT ![AreaOf[e.about]].triggered =
                       @ \/ (e.code = "BA" /\ Known(AreaOf[e.about]))]
    BY <1>4 DEF Applied
  <2>3. areas \in [Areas -> [mode : Modes, triggered : BOOLEAN]] /\ zones \in [Zones -> Inputs]
    BY TypeParts DEF IInv, DataOK
  <2>4. ASSUME NEW a \in Areas
        PROVE  /\ areas'[a].mode = areas[a].mode
               /\ areas'[a].triggered = (areas[a].triggered \/ a \in raised)
               /\ areas'[a] \in [mode : Modes, triggered : BOOLEAN]
    <3>1. CASE a = AreaOf[e.about]
      <4>1. areas'[a] = [areas[a] EXCEPT !.triggered = @ \/ (e.code = "BA" /\ Known(a))]
        BY <2>2, <2>3, <3>1
      <4>2. areas[a].triggered \in BOOLEAN
        BY <2>3
      <4>3. a \in raised <=> (e.code = "BA" /\ Known(a))
        BY <3>1
      <4> HIDE DEF e, raised
      <4>4. areas'[a].mode = areas[a].mode
            /\ areas'[a].triggered = (areas[a].triggered \/ (e.code = "BA" /\ Known(a)))
        BY <2>3, <4>1
      <4>5. (areas[a].triggered \/ (e.code = "BA" /\ Known(a))) \in BOOLEAN
        OBVIOUS
      <4> QED BY <2>3, <4>1, <4>3, <4>4, <4>5
    <3>2. CASE a # AreaOf[e.about]
      <4>1. areas'[a] = areas[a] /\ a \notin raised
        BY <2>2, <2>3, <3>2
      <4>2. areas[a].triggered \in BOOLEAN
        BY <2>3
      <4> HIDE DEF e, raised
      <4> QED BY <2>3, <4>1, <4>2
    <3> QED BY <3>1, <3>2
  <2>5. zones' \in [Zones -> Inputs]
    BY <2>2, <2>3 DEF Inputs
  <2> HIDE DEF e, raised
  <2>6. DataOK'
    <3>1. areas' = [a \in Areas |-> areas'[a]]
      BY <2>2, <2>3
    <3>2. areas' \in [Areas -> [mode : Modes, triggered : BOOLEAN]]
      BY <2>4, <3>1
    <3>3. alarmed' \in [Areas -> BOOLEAN] /\ latched' \in [Areas -> BOOLEAN]
      BY <1>4
    <3> QED BY <1>1, <2>5, <3>2, <3>3, TypeParts DEF IInv, DataOK
  <2>7. UnknownInv'
    BY <2>4 DEF IInv, UnknownInv, Known, raised
  <2>8. AlarmsAreKept'
    BY <1>4, <2>4 DEF IInv, AlarmsAreKept
  <2> QED BY <1>2, <2>6, <2>7, <2>8, TypeParts DEF IInv
<1> QED BY <1>3, <1>4 DEF ApplyEvent

-----------------------------------------------------------------------------
(***************************************************************************)
(* The invariant is inductive.                                             *)
(***************************************************************************)
THEOREM Invariance == Spec => []IInv
<1>1. Init => IInv
  <2> SUFFICES ASSUME Init PROVE IInv
    OBVIOUS
  <2>1. QueueOK
    BY QueueAssumption DEF Init, QueueOK
  <2>2. CommandOK
    BY DEF Init, CommandOK, Tasks, Wants, Unread
  <2>3. DataOK
    BY BoundsAssumption DEF Init, DataOK, Modes, Inputs
  <2>4. UnknownInv /\ AlarmsAreKept
    BY DEF Init, UnknownInv, AlarmsAreKept
  <2> QED BY <2>1, <2>2, <2>3, <2>4, TypeParts DEF IInv
<1>2. IInv /\ [Next]_vars => IInv'
  <2> SUFFICES ASSUME IInv, [Next]_vars PROVE IInv'
    OBVIOUS
  <2> USE DEF panelVars, snapshot, tasks
  <2>0. QueueOK /\ CommandOK /\ DataOK /\ UnknownInv /\ AlarmsAreKept
    BY TypeParts DEF IInv
  <2>1. CASE PanelNext
    BY <2>1, PanelKeeps
  <2>2. ASSUME NEW t \in Tasks, Ask(t) PROVE IInv'
    <3>1. CommandOK'
      BY <2>0, <2>2 DEF Ask, CommandOK
    <3>2. QueueOK' /\ DataOK' /\ UnknownInv' /\ AlarmsAreKept'
      BY <2>0, <2>2 DEF Ask, QueueOK, DataOK, UnknownInv, Known, AlarmsAreKept
    <3> QED BY <3>1, <3>2, TypeParts DEF IInv
  <2>3. ASSUME NEW t \in Tasks, AreasRead(t) PROVE IInv'
    BY <2>3, AreasReadKeeps
  <2>4. ASSUME NEW t \in Tasks, ZonesRead(t) PROVE IInv'
    <3>1. \A z \in Zones : answer[z] \in Inputs
      BY <2>0, <2>4 DEF ZonesRead, Answered, Whole, Rows, CommandOK
    <3>2. zones' \in [Zones -> Inputs]
      BY <2>4, <3>1 DEF ZonesRead
    <3>3. t # "consumer"
      BY <2>0, <2>4 DEF ZonesRead, CommandOK
    <3>4. CommandOK'
      BY <2>0, <2>4, <3>3, GoingKeeps DEF ZonesRead, Wants
    <3>5. QueueOK' /\ DataOK' /\ UnknownInv' /\ AlarmsAreKept'
      BY <2>0, <2>4, <3>2 DEF ZonesRead, QueueOK, DataOK, UnknownInv, Known, AlarmsAreKept
    <3> QED BY <3>4, <3>5, TypeParts DEF IInv
  <2>5. ASSUME NEW t \in Tasks, CommandFails(t) PROVE IInv'
    <3>1. CommandOK'
      BY <2>0, <2>5, GoingKeeps DEF CommandFails, Wants
    <3>2. faults' \in 0..MaxFaults
      BY <2>0, <2>5, BoundsAssumption DEF CommandFails, DataOK
    <3>3. QueueOK' /\ DataOK' /\ UnknownInv' /\ AlarmsAreKept'
      BY <2>0, <2>5, <3>2 DEF CommandFails, QueueOK, DataOK, UnknownInv, Known, AlarmsAreKept
    <3> QED BY <3>1, <3>3, TypeParts DEF IInv
  <2>6. ASSUME NEW x \in Areas \cup Zones, RowArrives(x) PROVE IInv'
    <3>1. faults' \in 0..MaxFaults
      BY <2>0, <2>6, BoundsAssumption DEF RowArrives, DataOK
    <3>2. PICK v : /\ answer' = [answer EXCEPT ![x] = v]
                   /\ x \in Areas => v \in Modes \cup {"bad"}
                   /\ x \notin Areas => v \in Inputs \cup {"bad"}
      BY <2>0, <2>6 DEF RowArrives, DataOK, Modes, Inputs
    <3>3. CommandOK'
      <4>1. \A y \in Areas \cup Zones : answer'[y] = IF y = x THEN v ELSE answer[y]
        BY <2>0, <3>2 DEF CommandOK
      <4>2. \A a \in Areas : answer'[a] \in Modes \cup {"due", "bad"}
        BY <2>0, <3>2, <4>1 DEF CommandOK
      <4>3. \A z \in Zones : answer'[z] \in Inputs \cup {"due", "bad"}
        BY <2>0, <3>2, <4>1, DistinctAssumption DEF CommandOK
      <4>4. DOMAIN answer' = Areas \cup Zones
        BY <2>0, <3>2 DEF CommandOK
      <4> QED BY <2>0, <2>6, <4>2, <4>3, <4>4 DEF RowArrives, CommandOK
    <3>4. QueueOK' /\ DataOK' /\ UnknownInv' /\ AlarmsAreKept'
      BY <2>0, <2>6, <3>1 DEF RowArrives, QueueOK, DataOK, UnknownInv, Known, AlarmsAreKept
    <3> QED BY <3>3, <3>4, TypeParts DEF IInv
  <2>7. CASE Refresh
    <3>1. CommandOK'
      BY <2>0, <2>7 DEF Refresh, CommandOK, Tasks, Wants
    <3>2. QueueOK' /\ DataOK' /\ UnknownInv' /\ AlarmsAreKept'
      BY <2>0, <2>7 DEF Refresh, QueueOK, DataOK, UnknownInv, Known, AlarmsAreKept
    <3> QED BY <3>1, <3>2, TypeParts DEF IInv
  <2>8. CASE ApplyEvent
    BY <2>8, ApplyEventKeeps
  <2>9. CASE Reconcile
    <3>1. current' \in AreaEvents /\ current' # NoEvent
      BY <2>9, EventKinds DEF Reconcile
    <3>2. CommandOK'
      BY <2>0, <2>9, <3>1 DEF Reconcile, CommandOK, Tasks, Wants
    <3>3. QueueOK'
      BY <2>0, <2>9, TakingKeepsQueue DEF Reconcile
    <3>4. DataOK' /\ UnknownInv' /\ AlarmsAreKept'
      BY <2>0, <2>9 DEF Reconcile, DataOK, UnknownInv, Known, AlarmsAreKept
    <3> QED BY <3>2, <3>3, <3>4, TypeParts DEF IInv
  <2>10. ASSUME NEW t \in Tasks, RefreshAborts(t) PROVE IInv'
    <3>1. CommandOK'
      BY <2>0, <2>10, GoingKeeps DEF RefreshAborts, Wants
    <3>2. QueueOK' /\ DataOK' /\ UnknownInv' /\ AlarmsAreKept'
      BY <2>0, <2>10 DEF RefreshAborts, QueueOK, DataOK, UnknownInv, Known, AlarmsAreKept
    <3> QED BY <3>1, <3>2, TypeParts DEF IInv
  <2>11. CASE UNCHANGED vars
    BY <2>0, <2>11, TypeParts
      DEF vars, IInv, QueueOK, CommandOK, DataOK, UnknownInv, Known, AlarmsAreKept
  <2> QED BY <2>1, <2>2, <2>3, <2>4, <2>5, <2>6, <2>7, <2>8, <2>9, <2>10, <2>11 DEF Next, Commands
<1> QED BY <1>1, <1>2, PTL DEF Spec

(***************************************************************************)
(* Type correctness; a command is under way only for a task that waits.    *)
(***************************************************************************)
THEOREM TypeCorrect == Spec => []TypeOK
<1>1. IInv => TypeOK
  BY DEF IInv
<1> QED BY <1>1, Invariance, PTL

(***************************************************************************)
(* An alarm stays marked until a reply takes it back, whatever the         *)
(* interleaving of refreshes, events and changes of the panel.             *)
(***************************************************************************)
THEOREM AlarmsStayMarked == Spec => []AlarmsAreKept
<1>1. IInv => AlarmsAreKept
  BY DEF IInv
<1> QED BY <1>1, Invariance, PTL
=============================================================================
