---------------------------- MODULE PanelSnapshot ----------------------------
(***************************************************************************)
(* Panel of spcedp/panel.py: the snapshot of areas and zones, refreshed    *)
(* from AREA_STATUS and ZONE_STATUS replies and updated by pushed events,  *)
(* while the panel goes on changing.                                       *)
(*                                                                         *)
(* Two tasks of the application share a Panel: "refresher" reads both      *)
(* states, first in from_session and then again and again, "consumer"      *)
(* passes the events to reconcile_event.  Session lets one command be      *)
(* under way at a time (CommandChannel), and a reply may come in fragments *)
(* with events between them, so each of its rows has its own age.          *)
(*                                                                         *)
(* A definition Mutant<D>, just before <D>, is <D> with a bug; nothing     *)
(* uses it but the runs that show that a property would notice the bug.    *)
(***************************************************************************)
EXTENDS Naturals, Sequences

CONSTANTS
  Areas,      \* area IDs
  Zones,      \* zone IDs
  AreaOf,     \* the area of each zone (Zone.area_id)
  QueueMax,   \* EVENT_QUEUE_MAXSIZE
  MaxChanges, \* bound of the model: changes of the panel
  MaxFaults   \* bound of the model: rows lost and commands failed

ASSUME AreaOfAssumption == AreaOf \in [Zones -> Areas]
ASSUME DistinctAssumption == Areas \cap Zones = {}
ASSUME QueueAssumption == QueueMax \in Nat \ {0}
ASSUME BoundsAssumption == MaxChanges \in Nat /\ MaxFaults \in Nat

VARIABLES
  mode,     \* the panel's areas
  input,    \* the panel's zones
  events,   \* events in the session's queue
  areas,    \* Panel.areas, with mode "gone" for an ID it does not have
  zones,    \* Panel.zones, with input "gone" for an ID it does not have
  wants,    \* per task, the status it is about to ask for or is awaiting
  current,  \* the event that the consumer is reconciling, if any
  asking,   \* the task whose command is under way
  answer,   \* the rows received so far in reply to it
  alarmed,  \* history: an alarm was shown, and no reply has taken it back
  latched,  \* history: an alarm was shown, and no reply has said "unset"
  changes,  \* changes of the panel so far (the bound)
  faults    \* faults so far (the bound)

panelVars == <<mode, input, changes>>
snapshot == <<areas, zones, alarmed, latched>>
tasks == <<wants, current, asking, answer>>
vars == <<panelVars, events, snapshot, tasks, faults>>

(***************************************************************************)
(* What the code tells apart: MODE is UNSET or is not (an unknown token is *)
(* not), INPUT is OPEN, or CLOSED.  "gone" is an ID without a row.         *)
(***************************************************************************)
Modes == {"gone", "unset", "set"}
Inputs == {"gone", "closed", "open"}
Tasks == {"refresher", "consumer"}
Wants == {"nothing", "areas", "zones"}

(***************************************************************************)
(* "OP" stands for the codes that only call for a read of AREA_STATUS,     *)
(* "BA" for the alarms that name a zone.  BV names an area.                *)
(***************************************************************************)
ZoneEvents == [code : {"ZO", "ZC", "BA"}, about : Zones]
AreaEvents == [code : {"OP", "BV"}, about : Areas]
Events == ZoneEvents \cup AreaEvents
NoEvent == [code |-> "none"]

Unread == [x \in Areas \cup Zones |-> "due"]
Rows(t) == IF wants[t] = "areas" THEN Areas ELSE Zones

Init ==
  /\ mode \in [Areas -> {"unset", "set"}]
  /\ input \in [Zones -> {"closed"}]
  /\ events = <<>>
  /\ areas = [a \in Areas |-> [mode |-> "gone", triggered |-> FALSE]]
  /\ zones = [z \in Zones |-> "gone"]
  /\ wants = [t \in Tasks |-> "nothing"]
  /\ current = NoEvent
  /\ asking = "nobody"
  /\ answer = Unread
  /\ alarmed = [a \in Areas |-> FALSE]
  /\ latched = [a \in Areas |-> FALSE]
  /\ changes = 0
  /\ faults = 0

-----------------------------------------------------------------------------
(***************************************************************************)
(* The panel.  It pushes an event with a change, and emit_event drops the  *)
(* oldest one from a full queue; reprogramming it pushes none.             *)
(***************************************************************************)
MutantEmit(e) ==
  events' = Append(IF Len(events) > QueueMax THEN Tail(events) ELSE events, e)
Emit(e) ==
  events' = Append(IF Len(events) = QueueMax THEN Tail(events) ELSE events, e)

Changes ==
  /\ changes < MaxChanges
  /\ changes' = changes + 1
  /\ UNCHANGED <<snapshot, tasks, faults>>

ZoneChanges(z) ==
  /\ input[z] # "gone"
  /\ input' = [input EXCEPT ![z] = IF @ = "open" THEN "closed" ELSE "open"]
  /\ Emit([code |-> IF input[z] = "open" THEN "ZC" ELSE "ZO", about |-> z])
  /\ UNCHANGED mode
  /\ Changes

ZoneAlarms(z) ==
  /\ input[z] # "gone"
  /\ input' = [input EXCEPT ![z] = "open"]
  /\ Emit([code |-> "BA", about |-> z])
  /\ UNCHANGED mode
  /\ Changes

AreaChanges(a) ==
  /\ mode[a] # "gone"
  /\ mode' = [mode EXCEPT ![a] = IF @ = "set" THEN "unset" ELSE "set"]
  /\ Emit([code |-> "OP", about |-> a])
  /\ UNCHANGED input
  /\ Changes

AlarmVerified(a) ==
  /\ mode[a] # "gone"
  /\ Emit([code |-> "BV", about |-> a])
  /\ UNCHANGED <<mode, input>>
  /\ Changes

Reprogrammed ==
  /\ \/ \E a \in Areas : mode' = [mode EXCEPT ![a] = IF @ = "gone" THEN "unset" ELSE "gone"]
                         /\ UNCHANGED input
     \/ \E z \in Zones : input' = [input EXCEPT ![z] = IF @ = "gone" THEN "closed" ELSE "gone"]
                         /\ UNCHANGED mode
  /\ UNCHANGED events
  /\ Changes

-----------------------------------------------------------------------------
(***************************************************************************)
(* A command of a task: the request takes the command lock, the rows come  *)
(* in any order and at any time, each with what is true of the panel then; *)
(* a row whose ID is missing or not numeric is skipped (_parse_id), one    *)
(* whose ID isdigit takes and int does not, as a superscript, is "bad".    *)
(***************************************************************************)
Ask(t) ==
  /\ wants[t] # "nothing"
  /\ asking = "nobody"
  /\ asking' = t
  /\ UNCHANGED <<panelVars, events, snapshot, wants, current, answer, faults>>

RowArrives(x) ==
  /\ asking \in Tasks
  /\ x \in Rows(asking) /\ answer[x] = "due"
  /\ \/ /\ answer' = [answer EXCEPT ![x] = IF x \in Areas THEN mode[x] ELSE input[x]]
        /\ UNCHANGED faults
     \/ /\ faults < MaxFaults /\ faults' = faults + 1
        /\ \E row \in {"gone", "bad"} : answer' = [answer EXCEPT ![x] = row]
  /\ UNCHANGED <<panelVars, events, snapshot, wants, current, asking>>

Whole(t) == asking = t /\ \A x \in Rows(t) : answer[x] # "due"
Answered(t) == Whole(t) /\ \A x \in Rows(t) : answer[x] # "bad"

(***************************************************************************)
(* The command is over: the lock is free and the task goes on.             *)
(***************************************************************************)
Goes(t, next) ==
  /\ asking' = "nobody"
  /\ answer' = Unread
  /\ wants' = [wants EXCEPT ![t] = next]

(***************************************************************************)
(* It raises an SpcError, or the task is cancelled: the snapshot stays.    *)
(***************************************************************************)
CommandFails(t) ==
  /\ asking = t
  /\ faults < MaxFaults /\ faults' = faults + 1
  /\ Goes(t, "nothing")
  /\ current' = IF t = "consumer" THEN NoEvent ELSE current
  /\ UNCHANGED <<panelVars, events, snapshot>>

(***************************************************************************)
(* int raises ValueError on a bad row, out of the refresh.                 *)
(***************************************************************************)
RefreshAborts(t) ==
  /\ Whole(t)
  /\ \E x \in Rows(t) : answer[x] = "bad"
  /\ Goes(t, "nothing")
  /\ current' = IF t = "consumer" THEN NoEvent ELSE current
  /\ UNCHANGED <<panelVars, events, snapshot, faults>>

-----------------------------------------------------------------------------
Known(a) == areas[a].mode # "gone"

(***************************************************************************)
(* refresh_areas with the reply: areas without a row go, and "triggered"   *)
(* stays as it is now for an area that was there and is not unset.         *)
(***************************************************************************)
MutantRefreshed ==
  [a \in Areas |->
     [mode |-> IF answer[a] = "gone" THEN areas[a].mode ELSE answer[a],
      triggered |-> answer[a] = "set" /\ areas[a].triggered]]
Refreshed ==
  [a \in Areas |->
     [mode |-> answer[a],
      triggered |-> answer[a] = "set" /\ Known(a) /\ areas[a].triggered]]

(***************************************************************************)
(* reconcile_event marks the area of a BV after its refresh, if it is      *)
(* there.                                                                  *)
(***************************************************************************)
Verified(a) == current.code = "BV" /\ a = current.about /\ answer[a] # "gone"

AreasRead(t) ==
  /\ wants[t] = "areas"
  /\ Answered(t)
  /\ LET verified == {a \in Areas : t = "consumer" /\ Verified(a)} IN
       /\ areas' = [a \in Areas |->
            IF a \in verified THEN [Refreshed[a] EXCEPT !.triggered = TRUE] ELSE Refreshed[a]]
       /\ alarmed' = [a \in Areas |->
            a \in verified \/ (alarmed[a] /\ answer[a] \notin {"unset", "gone"})]
       /\ latched' = [a \in Areas |->
            a \in verified \/ (latched[a] /\ answer[a] # "unset")]
  /\ current' = IF t = "consumer" THEN NoEvent ELSE current
  /\ Goes(t, IF t = "refresher" THEN "zones" ELSE "nothing")
  /\ UNCHANGED <<panelVars, events, zones, faults>>

(***************************************************************************)
(* refresh_zones with the reply.                                           *)
(***************************************************************************)
ZonesRead(t) ==
  /\ wants[t] = "zones"
  /\ Answered(t)
  /\ zones' = [z \in Zones |-> answer[z]]
  /\ Goes(t, "nothing")
  /\ UNCHANGED <<panelVars, events, areas, alarmed, latched, current, faults>>

(***************************************************************************)
(* The application refreshes: areas, then zones.                           *)
(***************************************************************************)
Refresh ==
  /\ wants["refresher"] = "nothing"
  /\ wants' = [wants EXCEPT !["refresher"] = "areas"]
  /\ UNCHANGED <<panelVars, events, snapshot, current, asking, answer, faults>>

(***************************************************************************)
(* apply_event: the zone's input and, for an alarm, its area's flag; an    *)
(* event about a zone that the snapshot does not have changes nothing.     *)
(***************************************************************************)
MutantApplied(e) ==
  LET a == AreaOf[e.about] IN
    /\ zones' = [zones EXCEPT ![e.about] = IF e.code = "ZC" THEN "closed" ELSE "open"]
    /\ areas' = [areas EXCEPT ![a].triggered = e.code = "BA" /\ Known(a)]
Applied(e) ==
  LET a == AreaOf[e.about] IN
    /\ zones' = [zones EXCEPT ![e.about] = IF e.code = "ZC" THEN "closed" ELSE "open"]
    /\ areas' = [areas EXCEPT ![a].triggered = @ \/ (e.code = "BA" /\ Known(a))]

ApplyEvent ==
  /\ current = NoEvent
  /\ events # <<>> /\ Head(events) \in ZoneEvents
  /\ events' = Tail(events)
  /\ LET e == Head(events) IN
       \/ /\ zones[e.about] = "gone"
          /\ UNCHANGED snapshot
       \/ /\ zones[e.about] # "gone"
          /\ Applied(e)
          /\ LET raised == {a \in Areas : e.code = "BA" /\ a = AreaOf[e.about] /\ Known(a)} IN
               /\ alarmed' = [a \in Areas |-> alarmed[a] \/ a \in raised]
               /\ latched' = [a \in Areas |-> latched[a] \/ a \in raised]
  /\ UNCHANGED <<panelVars, tasks, faults>>

(***************************************************************************)
(* reconcile_event with one of AREA_STATUS_SIA_CODES calls refresh_areas.  *)
(***************************************************************************)
Reconcile ==
  /\ current = NoEvent
  /\ events # <<>> /\ Head(events) \in AreaEvents
  /\ events' = Tail(events)
  /\ current' = Head(events)
  /\ wants' = [wants EXCEPT !["consumer"] = "areas"]
  /\ UNCHANGED <<panelVars, snapshot, asking, answer, faults>>

-----------------------------------------------------------------------------
PanelNext ==
  \/ \E z \in Zones : ZoneChanges(z) \/ ZoneAlarms(z)
  \/ \E a \in Areas : AreaChanges(a) \/ AlarmVerified(a)
  \/ Reprogrammed

Commands(t) == Ask(t) \/ AreasRead(t) \/ ZonesRead(t) \/ RefreshAborts(t)

Next ==
  \/ PanelNext
  \/ \E t \in Tasks : Commands(t) \/ CommandFails(t)
  \/ \E x \in Areas \cup Zones : RowArrives(x)
  \/ Refresh
  \/ ApplyEvent
  \/ Reconcile

Spec == Init /\ [][Next]_vars

(***************************************************************************)
(* The event loop runs the tasks, a command that does not fail is answered *)
(* in the end (or CommandChannel times it out), and the application        *)
(* refreshes again and again, as README.md tells it to.  The panel need    *)
(* not change.                                                             *)
(***************************************************************************)
FairSpec ==
  /\ Spec
  /\ \A t \in Tasks : WF_vars(Commands(t))
  /\ \A x \in Areas \cup Zones : WF_vars(RowArrives(x))
  /\ WF_vars(Refresh)
  /\ WF_vars(ApplyEvent \/ Reconcile)

-----------------------------------------------------------------------------
(***************************************************************************)
(* Every variable is in its range; only a task that wants a status awaits  *)
(* one, and the consumer wants one exactly while it reconciles an event.   *)
(***************************************************************************)
TypeOK ==
  /\ mode \in [Areas -> Modes]
  /\ input \in [Zones -> Inputs]
  /\ events \in Seq(Events) /\ Len(events) <= QueueMax
  /\ areas \in [Areas -> [mode : Modes, triggered : BOOLEAN]]
  /\ zones \in [Zones -> Inputs]
  /\ wants \in [Tasks -> Wants]
  /\ current \in AreaEvents \cup {NoEvent}
  /\ wants["consumer"] = IF current = NoEvent THEN "nothing" ELSE "areas"
  /\ asking \in Tasks \cup {"nobody"}
  /\ asking \in Tasks => wants[asking] # "nothing"
  /\ \A a \in Areas : answer[a] \in Modes \cup {"due", "bad"}
  /\ \A z \in Zones : answer[z] \in Inputs \cup {"due", "bad"}
  /\ DOMAIN answer = Areas \cup Zones
  /\ alarmed \in [Areas -> BOOLEAN]
  /\ latched \in [Areas -> BOOLEAN]
  /\ changes \in 0..MaxChanges
  /\ faults \in 0..MaxFaults

(***************************************************************************)
(* An area is marked as triggered from the alarm on, however events and    *)
(* replies are interleaved and however old a reply is, until a reply says  *)
(* that it is unset or has no row for it; and never without an alarm.      *)
(***************************************************************************)
AlarmsAreKept == \A a \in Areas : areas[a].triggered = alarmed[a]

(***************************************************************************)
(* What the docstring of refresh_areas says: alarms are preserved until    *)
(* confirmed disarmed.  An area in the snapshot that raised an alarm is    *)
(* marked as triggered until a reply says that it is unset.                *)
(***************************************************************************)
AlarmsUntilDisarmed ==
  \A a \in Areas : Known(a) /\ latched[a] => areas[a].triggered

(***************************************************************************)
(* Events that were dropped, replies older than an event applied before    *)
(* them, rows that were lost, areas and zones that came and went: once the *)
(* panel stays as it is, refreshing brings the snapshot to what the panel  *)
(* is, for good.                                                           *)
(***************************************************************************)
SnapshotConverges ==
  <>[](zones = input /\ \A a \in Areas : areas[a].mode = mode[a])
=============================================================================
