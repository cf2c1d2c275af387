----------------------------- MODULE IncidentRecords -----------------------------
(***************************************************************************)
(* What incidents leave behind and how it is read: their updated_at, the   *)
(* audit events and outbox rows of the same transactions, and the clients  *)
(* that fetch the list of incidents or of audit events page by page while  *)
(* both go on changing (internal/store/sqlite/hazard.go and audit.go).     *)
(*                                                                         *)
(* Ids are numbers, in the order in which SQL compares them.  The clock    *)
(* begins on a whole second, so that texts of times are out of order from  *)
(* the start.  The count of all incidents, a query of its own that a page  *)
(* carries as its total, is left out.                                      *)
(***************************************************************************)
EXTENDS Incidents, Sequences, FiniteSets, Clock

CONSTANTS
  Readers,     \* slots for clients that fetch page after page
  Filters,     \* the sets of statuses a list of incidents may be asked for
  PageSize,    \* limit of a page
  MaxTime      \* bound on the clock

ASSUME RecordsAssumption ==
  /\ Incidents \subseteq Nat /\ IsFiniteSet(Incidents)
  /\ Filters \subseteq SUBSET IncidentStatus
  /\ PageSize \in 1 .. 100
  /\ MaxTime \in Nat \ {0, 1}

VARIABLES
  now,      \* the clock
  updated,  \* column updated_at of the table incidents
  read,     \* what a transition knows: the status it read, and when it last read
  trail,    \* table audit_events: those of each action and object_id, as inserted
  outbox,   \* table outbox_events: pending rows, by the incident they announce
  walk      \* the pages that each reader has fetched

records == <<updated, read, trail, outbox>>
recordsVars == <<vars, now, records, walk>>

Times == 2 .. MaxTime
Never == 0
Unread == [from |-> "none", at |-> Never]
NoWalk == [op |-> "none"]

\* The action of an event with its object_id: an activation is told of the reference
\* in the command, before the incident has its id, and a transition of the id.
Activation(i) == <<"incident.activate", RefOf[i]>>
Transition(i) == <<"incident.transition", i>>
Objects == {Activation(i) : i \in Incidents} \cup {Transition(i) : i \in Incidents}
AuditEvents == [from : IncidentStatus \cup {"none"}, to : IncidentStatus, at : Times]
Places == Int \X Incidents
Walks ==
  [op : {"incidents"}, filter : Filters, before : [Incidents -> Nat],
   seen : SUBSET (Incidents \X Nat), items : Nat, after : Places \cup {<<>>}, more : BOOLEAN]
    \cup [op : {"audit", "refused"}, cursor : {"String", "RFC3339Nano"}, more : BOOLEAN]

Version(i) == IF incident[i] = NoIncident THEN 0 ELSE incident[i].version

RecordsInit ==
  /\ Init
  /\ now = 2
  /\ updated = [i \in Incidents |-> Never]
  /\ read = [c \in Clients |-> Unread]
  /\ trail = [o \in Objects |-> <<>>]
  /\ outbox = {}
  /\ walk = [r \in Readers |-> NoWalk]

-------------------------------------------------------------------------------
(* The transactions of module Incidents, with what they write beside the row. *)

Log(o, from, to, t) ==
  trail' = [trail EXCEPT ![o] = Append(@, [from |-> from, to |-> to, at |-> t])]
Touch(i, t) == updated' = [updated EXCEPT ![i] = t]

\* The clock is read once, before the transaction, and may be old by now.
ActivateRecorded(c) ==
  /\ Activate(c)
  /\ \E i \in Incidents, t \in 2 .. now :
       /\ incident'[i] # incident[i]
       /\ Touch(i, t)
       /\ Log(Activation(i), "none", "active", t)
       /\ outbox' = outbox \cup {i}
  /\ UNCHANGED read

BeginTransitionRecorded(c) ==
  /\ BeginTransition(c)
  /\ read' = [read EXCEPT ![c] =
                [from |-> incident[frame'[c].incident].status, at |-> now]]
  /\ UNCHANGED <<updated, trail, outbox>>

CountDependenciesRecorded(c) ==
  /\ CountDependencies(c)
  /\ read' = [read EXCEPT ![c].at = now]
  /\ UNCHANGED <<updated, trail, outbox>>

\* The clock was read after the last query and before the transaction; the event
\* tells the status that the service had read.
TransitionRecorded(c) ==
  LET i == frame[c].incident
  IN /\ TransitionIncident(c)
     /\ \E t \in read[c].at .. now :
          Touch(i, t) /\ Log(Transition(i), read[c].from, frame[c].to, t)
     /\ read' = [read EXCEPT ![c] = Unread]
     /\ UNCHANGED outbox

RollBackRecorded(c) ==
  /\ RollBack(c)
  /\ read' = [read EXCEPT ![c] = Unread]
  /\ UNCHANGED <<updated, trail, outbox>>

RecordedStep(c) ==
  \/ ActivateRecorded(c)
  \/ BeginTransitionRecorded(c) \/ CountDependenciesRecorded(c) \/ TransitionRecorded(c)
  \/ RollBackRecorded(c)

-------------------------------------------------------------------------------
(* GET /v1/incidents: "ORDER BY updated_at DESC, id DESC LIMIT ?".          *)

Place(i) == <<Text(updated[i]), i>>
Ahead(p, q) == p[1] > q[1] \/ (p[1] = q[1] /\ p[2] > q[2])

\* "updated_at < ? OR (updated_at = ? AND id < ?)"
BelowTimesOnly(p, q) == p[1] < q[1]
Below(p, q) == p[1] < q[1] \/ (p[1] = q[1] /\ p[2] < q[2])

Shown(r, filter) ==
  {i \in Incidents :
     /\ incident[i] # NoIncident
     /\ RegionOf[r] \in {"", RegionOf[i]}
     /\ filter = {} \/ incident[i].status \in filter}

\* One page of the walk w: the first of the incidents that its cursor leaves.  One
\* more than the page is fetched to see whether there is a next one.
Fetched(r, w) ==
  LET rest == {i \in Shown(r, w.filter) : w.after = <<>> \/ Below(Place(i), w.after)}
      Rank(i) == Cardinality({j \in rest : Ahead(Place(j), Place(i))})
      page == {i \in rest : Rank(i) < PageSize}
      more == page # rest
  IN [w EXCEPT !.seen = @ \cup {<<i, Version(i)>> : i \in page},
               !.items = @ + Cardinality(page),
               !.more = more,
               !.after = IF more
                         THEN Place(CHOOSE i \in page : Rank(i) = PageSize - 1) ELSE <<>>]

ListIncidents(r) ==
  \E filter \in Filters :
    /\ walk[r] = NoWalk
    /\ RoleOf[r] \in {"commander", "field_operator", "auditor"}
    /\ walk' = [walk EXCEPT ![r] =
         Fetched(r, [op |-> "incidents", filter |-> filter,
                     before |-> [i \in Incidents |->
                                   IF i \in Shown(r, filter) THEN Version(i) ELSE 0],
                     seen |-> {}, items |-> 0, after |-> <<>>, more |-> TRUE])]

ListMoreIncidents(r) ==
  /\ walk[r].op = "incidents" /\ walk[r].more
  /\ walk' = [walk EXCEPT ![r] = Fetched(r, walk[r])]

-------------------------------------------------------------------------------
(* GET /v1/audit-events.  Of a page only its cursor matters here: the time of *)
(* the last event, written by Time.String(), with its id.                   *)

Events == UNION {{<<o, k>> : k \in 1 .. Len(trail[o])} : o \in Objects}

Search(r) ==
  /\ walk[r] = NoWalk
  /\ RoleOf[r] \in {"commander", "auditor"}
  /\ walk' = [walk EXCEPT ![r] =
       [op |-> "audit", cursor |-> "String", more |-> Cardinality(Events) > PageSize]]

\* decodeAuditCursor parses the time as RFC3339Nano, and only then looks for events.
Readable(cursor) == cursor = "RFC3339Nano"

SearchMore(r) ==
  /\ walk[r].op = "audit" /\ walk[r].more
  /\ walk' = [walk EXCEPT ![r].op = IF Readable(walk[r].cursor) THEN "audit" ELSE "refused"]

\* The reader has what it wanted, or gives up.
EndWalk(r) ==
  /\ walk[r] # NoWalk
  /\ walk' = [walk EXCEPT ![r] = NoWalk]

ReaderStep(r) ==
  \/ ListIncidents(r) \/ ListMoreIncidents(r)
  \/ Search(r) \/ SearchMore(r)
  \/ EndWalk(r)

TimePasses == now < MaxTime /\ now' = now + 1

RecordsNext ==
  \/ \E c \in Clients : RecordedStep(c) /\ UNCHANGED <<busy, now, walk>>
  \/ WorkMoves /\ UNCHANGED <<now, records, walk>>
  \/ \E r \in Readers : ReaderStep(r) /\ UNCHANGED <<vars, now, records>>
  \/ TimePasses /\ UNCHANGED <<vars, records, walk>>

RecordsSpec == RecordsInit /\ [][RecordsNext]_recordsVars

-------------------------------------------------------------------------------
(* Properties *)

\* What is kept beside the incidents, and what the readers hold, has its type.
RecordsTypeOK ==
  /\ TypeOK
  /\ now \in Times
  /\ updated \in [Incidents -> Times \cup {Never}]
  /\ \A c \in Clients :
       IF frame[c] = Idle THEN read[c] = Unread
       ELSE <<read[c].from, frame[c].to>> \in IncidentTransitions /\ read[c].at \in Times
  /\ \A o \in Objects : \A k \in 1 .. Len(trail[o]) : trail[o][k] \in AuditEvents
  /\ outbox \subseteq Incidents
  /\ \A r \in Readers : walk[r] = NoWalk \/ walk[r] \in Walks

\* Events that are the whole story of an incident: one for each version, each
\* beginning where the one before ended, in the order of their times.
IsStory(i, events) ==
  LET last == Len(events)
  IN /\ last = Version(i)
     /\ events[1].from = "none"
     /\ events[last].to = incident[i].status
     /\ events[last].at = updated[i]
     /\ \A k \in 2 .. last :
          events[k].from = events[k - 1].to /\ events[k].at >= events[k - 1].at

\* The incidents that bear the reference of i, as it was written, in any region.
Namesakes(i) == {j \in Incidents : incident[j] # NoIncident /\ RefOf[j] = RefOf[i]}

\* One of the activations that name an incident's reference, followed by all the
\* transitions that name the incident, tells its whole story, although the service
\* made each event and read the clock before the transaction; no activation is lost
\* or told twice; and each incident was announced in the outbox.  Which activation
\* is whose the table does not say: namesakes are of different regions, and an
\* event names no region.
AuditTellsTheStory ==
  \A i \in Incidents :
    /\ Len(trail[Activation(i)]) = Cardinality(Namesakes(i))
    /\ i \in outbox <=> incident[i] # NoIncident
    /\ IF incident[i] = NoIncident THEN trail[Transition(i)] = <<>>
       ELSE /\ \A j \in Namesakes(i) : RegionOf[j] = RegionOf[i] => j = i
            /\ \E k \in 1 .. Len(trail[Activation(i)]) :
                 IsStory(i, <<trail[Activation(i)][k]>> \o trail[Transition(i)])

\* Whatever moves between two pages, a list that was read to its end has every
\* incident that matched when it began and was left alone, and has no version of an
\* incident twice.
WalksAreWhole ==
  \A r \in Readers :
    walk[r].op = "incidents" =>
      /\ walk[r].items = Cardinality(walk[r].seen)
      /\ walk[r].more \/ \A i \in Incidents :
           (walk[r].before[i] = Version(i) /\ incident[i] # NoIncident)
             => <<i, Version(i)>> \in walk[r].seen

\* "exposes filtered cursor-ordered audit evidence": the cursor of a page leads to
\* the next page.
CursorsAreAccepted == \A r \in Readers : walk[r].op # "refused"
================================================================================
