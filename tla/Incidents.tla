------------------------------- MODULE Incidents -------------------------------
(***************************************************************************)
(* Incidents from activation to their end.                                 *)
(*                                                                         *)
(* Transition is a frame of up to three steps: service Transition reads    *)
(* the incident and checks the move (internal/hazard/service.go), for a    *)
(* closure it counts the open plans and deployments in a second query, and *)
(* the store writes (internal/store/sqlite/hazard.go).  Only the version   *)
(* is checked again when it writes.                                        *)
(***************************************************************************)
EXTENDS Integers, Lifecycle

CONSTANTS
  Clients,     \* slots for concurrent requests
  Incidents,   \* ids that newID may hand out
  RoleOf,      \* the role of the user behind each client
  RegionOf,    \* region of a client ("" is any) or an incident
  RefOf,       \* external_ref in the command that activates an incident
  MaxVersion   \* bound: an incident at this version is left alone

ASSUME IncidentsAssumption ==
  /\ \A c \in Clients : RoleOf[c] \in Roles
  /\ \A i \in Incidents : RefOf[i].padded \in BOOLEAN
  /\ MaxVersion \in Nat

VARIABLES
  incident,    \* table incidents; closed: closed_at is set
  frame,       \* the request each client has in flight
  busy         \* incidents with an open plan or an active deployment

vars == <<incident, frame, busy>>

NoIncident == [status |-> "none"]
Idle == [op |-> "idle"]

IncidentRows ==
  [status : IncidentStatus, version : Nat \ {0}, closed : BOOLEAN]
Frames ==
  [op : {"transition"}, incident : Incidents, version : Nat,
   to : IncidentStatus, counted : BOOLEAN]

Empty ==
  /\ incident = [i \in Incidents |-> NoIncident]
  /\ frame = [c \in Clients |-> Idle]

Init == Empty /\ busy = {}

Return(c) == frame' = [frame EXCEPT ![c] = Idle]

\* The row that Activate inserts.
InsertedAtZero == [status |-> "active", version |-> 0, closed |-> FALSE]
Inserted == [status |-> "active", version |-> 1, closed |-> FALSE]

\* A reference as the client writes it is a name, with spaces around it or not.
TrimSpace(ref) == [ref EXCEPT !.padded = FALSE]

\* "UNIQUE(region_id, external_ref)", of the reference that was trimmed.
Key(i) == <<RegionOf[i], TrimSpace(RefOf[i])>>
KeyIsFree(i) == \A j \in Incidents : incident[j] # NoIncident => Key(j) # Key(i)

\* service Activate and store ActivateIncident: the incident, its zones and an
\* outbox event in one transaction, after a read of the region only.
Activate(c) ==
  \E i \in Incidents :
    /\ RoleOf[c] = "commander"
    /\ RegionOf[c] \in {"", RegionOf[i]}
    /\ incident[i] = NoIncident
    /\ KeyIsFree(i)
    /\ incident' = [incident EXCEPT ![i] = Inserted]
    /\ UNCHANGED frame

\* The quoted version has to be the one that is read.
BeginTransition(c) ==
  \E i \in Incidents, to \in IncidentStatus :
    /\ frame[c] = Idle
    /\ RoleOf[c] = "commander"
    /\ RegionOf[c] \in {"", RegionOf[i]}
    /\ <<incident[i].status, to>> \in IncidentTransitions
    /\ incident[i].version < MaxVersion
    /\ frame' = [frame EXCEPT ![c] =
                   [op |-> "transition", incident |-> i,
                    version |-> incident[i].version, to |-> to,
                    counted |-> to # "closed"]]
    /\ UNCHANGED incident

\* CountOpenDependencies found none: a read of its own, outside the transaction.
CountDependencies(c) ==
  /\ frame[c].op = "transition"
  /\ ~frame[c].counted
  /\ frame[c].incident \notin busy
  /\ frame' = [frame EXCEPT ![c].counted = TRUE]
  /\ UNCHANGED incident

\* "WHERE id = ? AND version = ?"
AtAnyVersion(i, v) == TRUE
AtVersion(i, v) == incident[i].version = v

\* "SET status = ?, closed_at = ?, version = version + 1"
MoveKeepingVersion(i, to) ==
  incident' = [incident EXCEPT ![i] =
                 [@ EXCEPT !.status = to, !.closed = (to = "closed")]]
Move(i, to) ==
  incident' = [incident EXCEPT ![i] =
                 [status |-> to, version |-> incident[i].version + 1,
                  closed |-> to = "closed"]]

TransitionIncident(c) ==
  /\ frame[c].op = "transition"
  /\ frame[c].counted
  /\ AtVersion(frame[c].incident, frame[c].version)
  /\ Move(frame[c].incident, frame[c].to)
  /\ Return(c)

\* Refused, or lost with its connection or the process.
RollBack(c) ==
  /\ frame[c] # Idle
  /\ Return(c)
  /\ UNCHANGED incident

\* Plans and deployments begin and end (modules Evacuation and Dispatch).
WorkMoves ==
  \E i \in Incidents :
    /\ busy' \in {busy \cup {i}, busy \ {i}}
    /\ UNCHANGED <<incident, frame>>

Step(c) ==
  \/ Activate(c)
  \/ BeginTransition(c) \/ CountDependencies(c) \/ TransitionIncident(c)
  \/ RollBack(c)

Next ==
  \/ \E c \in Clients : Step(c) /\ UNCHANGED busy
  \/ WorkMoves

Spec == Init /\ [][Next]_vars

-------------------------------------------------------------------------------
(* Properties *)

\* Rows and frames have their types, and a frame's incident was inserted.
TypeOK ==
  /\ incident \in [Incidents -> IncidentRows \cup {NoIncident}]
  /\ frame \in [Clients -> Frames \cup {Idle}]
  /\ \A c \in Clients : frame[c] # Idle => incident[frame[c].incident] # NoIncident
  /\ busy \in SUBSET Incidents

\* The parity of the version tells the state, since every move of a live incident
\* is between active and stabilizing: a commander who quotes a version names the
\* state that was read.  closed_at is set exactly on closure.
VersionNamesStatus ==
  \A i \in Incidents :
    incident[i] # NoIncident =>
      /\ incident[i].status \in (IF incident[i].version % 2 = 1
                                 THEN {"active", "closed"}
                                 ELSE {"stabilizing", "cancelled"})
      /\ incident[i].closed <=> incident[i].status = "closed"
      /\ incident[i].status = "closed" => incident[i].version >= 3

\* Although the transaction never looks at the status that it replaces, an
\* incident moves only along incidentTransitions.
IncidentFollowsLifecycle ==
  [][\A i \in Incidents :
       (incident[i] # NoIncident /\ incident'[i] # incident[i]) =>
         /\ <<incident[i].status, incident'[i].status>> \in IncidentTransitions
         /\ incident'[i].version = incident[i].version + 1]_vars
================================================================================
