---------------------------- MODULE IncidentsProofs ----------------------------
(***************************************************************************)
(* Theorems about Incidents and IncidentRecords for any clients, readers,  *)
(* incidents, filters, page size and times.                                *)
(***************************************************************************)
EXTENDS IncidentRecords, TLAPS, FiniteSetTheorems, SequenceTheorems

-------------------------------------------------------------------------------
(* Types of incidents and frames *)

LEMMA IncidentRowFacts ==
  ASSUME NEW row \in IncidentRows
  PROVE  /\ row.status \in IncidentStatus /\ row.version \in Nat /\ row.version > 0
         /\ row.closed \in BOOLEAN /\ row # NoIncident
BY DEF IncidentRows, NoIncident, IncidentStatus

LEMMA FrameFacts ==
  ASSUME TypeOK, NEW c \in Clients, frame[c] # Idle
  PROVE  /\ frame[c] \in Frames
         /\ frame[c].op = "transition" /\ frame[c].incident \in Incidents
         /\ frame[c].version \in Nat /\ frame[c].to \in IncidentStatus
         /\ frame[c].counted \in BOOLEAN
         /\ incident[frame[c].incident] \in IncidentRows
BY DEF TypeOK, Frames

\* What a committed transaction does to the incidents: it inserts one, or it moves
\* one, which raises the version.
Inserts(i) ==
  /\ i \in Incidents /\ incident[i] = NoIncident /\ KeyIsFree(i)
  /\ incident'[i] = Inserted
  /\ \A j \in Incidents \ {i} : incident'[j] = incident[j]

Moves(i, to) ==
  /\ i \in Incidents /\ incident[i] \in IncidentRows /\ to \in IncidentStatus
  /\ incident'[i] \in IncidentRows /\ incident'[i].status = to
  /\ incident'[i].version = incident[i].version + 1
  /\ incident'[i].closed = (to = "closed")
  /\ \A j \in Incidents \ {i} : incident'[j] = incident[j]

LEMMA TransitionMoves ==
  ASSUME TypeOK, NEW c \in Clients, TransitionIncident(c)
  PROVE  /\ Moves(frame[c].incident, frame[c].to)
         /\ incident' \in [Incidents -> IncidentRows \cup {NoIncident}]
         /\ frame[c] # Idle
<1>1. frame[c] # Idle
  BY DEF TransitionIncident, Idle
<1>2. PICK i \in Incidents, to \in IncidentStatus :
        i = frame[c].incident /\ to = frame[c].to /\ incident[i] \in IncidentRows
  BY <1>1, FrameFacts
<1> DEFINE row == [status |-> to, version |-> incident[i].version + 1,
                   closed |-> to = "closed"]
<1>3. incident' = [incident EXCEPT ![i] = row]
  BY <1>2 DEF TransitionIncident, Move
<1>4. row \in IncidentRows
  <2>1. incident[i].version + 1 \in Nat \ {0} /\ (to = "closed") \in BOOLEAN
    BY <1>2, IncidentRowFacts
  <2> QED
    BY <2>1 DEF IncidentRows
<1>a. row.status = to /\ row.version = incident[i].version + 1 /\ row.closed = (to = "closed")
  OBVIOUS
<1> HIDE DEF row
<1>5. incident' \in [Incidents -> IncidentRows \cup {NoIncident}]
  BY <1>3, <1>4 DEF TypeOK
<1>6. incident'[i] = row /\ \A j \in Incidents \ {i} : incident'[j] = incident[j]
  BY <1>3 DEF TypeOK
<1> QED
  BY <1>1, <1>2, <1>4, <1>5, <1>6, <1>a DEF Moves

LEMMA ActivateInserts ==
  ASSUME TypeOK, NEW c \in Clients, Activate(c)
  PROVE  /\ \E i \in Incidents : Inserts(i)
         /\ incident' \in [Incidents -> IncidentRows \cup {NoIncident}]
<1>1. PICK i \in Incidents :
        /\ incident[i] = NoIncident /\ KeyIsFree(i)
        /\ incident' = [incident EXCEPT ![i] = Inserted]
  BY DEF Activate
<1>2. Inserted \in IncidentRows
  BY DEF Inserted, IncidentRows, IncidentStatus
<1>3. Inserts(i)
  BY <1>1 DEF Inserts, TypeOK
<1> QED
  BY <1>1, <1>2, <1>3 DEF TypeOK

\* The frame that a transition begins with names the status and the version that
\* it read.
BeginFrame(i, to) ==
  [op |-> "transition", incident |-> i, version |-> incident[i].version, to |-> to,
   counted |-> to # "closed"]

LEMMA BeginFacts ==
  ASSUME TypeOK, NEW c \in Clients, BeginTransition(c)
  PROVE  \E i \in Incidents, to \in IncidentStatus :
           /\ frame[c] = Idle
           /\ incident[i] \in IncidentRows
           /\ <<incident[i].status, to>> \in IncidentTransitions
           /\ BeginFrame(i, to) \in Frames
           /\ frame' = [frame EXCEPT ![c] = BeginFrame(i, to)]
           /\ incident' = incident
<1>1. PICK i \in Incidents, to \in IncidentStatus :
        /\ frame[c] = Idle
        /\ <<incident[i].status, to>> \in IncidentTransitions
        /\ frame' = [frame EXCEPT ![c] = BeginFrame(i, to)]
        /\ incident' = incident
  BY DEF BeginTransition, BeginFrame
<1>2. incident[i] \in IncidentRows
  <2>1. incident[i].status # "none"
    BY <1>1 DEF IncidentTransitions
  <2> QED
    BY <2>1 DEF TypeOK, NoIncident
<1>3. BeginFrame(i, to) \in Frames
  <2>1. incident[i].version \in Nat /\ (to # "closed") \in BOOLEAN
    BY <1>2, IncidentRowFacts
  <2> QED
    BY <2>1 DEF BeginFrame, Frames
<1> QED
  BY <1>1, <1>2, <1>3

\* What counting the open work leaves in the frame.
LEMMA CountFacts ==
  ASSUME TypeOK, NEW c \in Clients, CountDependencies(c)
  PROVE  \E f \in Frames :
           /\ frame[c] # Idle
           /\ frame' = [frame EXCEPT ![c] = f]
           /\ f.incident = frame[c].incident /\ f.version = frame[c].version
           /\ f.to = frame[c].to
           /\ incident' = incident
<1>1. frame[c] # Idle
  BY DEF CountDependencies, Idle
<1> DEFINE f == [frame[c] EXCEPT !.counted = TRUE]
<1>2. frame[c] \in Frames
  BY <1>1, FrameFacts
<1>3. /\ f \in Frames /\ f.incident = frame[c].incident /\ f.version = frame[c].version
      /\ f.to = frame[c].to
  BY <1>2 DEF Frames
<1>4. frame' = [frame EXCEPT ![c] = f] /\ incident' = incident
  BY DEF CountDependencies, TypeOK
<1> QED
  BY <1>1, <1>3, <1>4

LEMMA TypeStep ==
  ASSUME TypeOK, [Next]_vars
  PROVE  TypeOK'
<1>1. incident \in [Incidents -> IncidentRows \cup {NoIncident}]
      /\ frame \in [Clients -> Frames \cup {Idle}]
      /\ \A c \in Clients : frame[c] # Idle => incident[frame[c].incident] # NoIncident
  BY DEF TypeOK
<1>2. busy' \in SUBSET Incidents
  BY DEF TypeOK, Next, WorkMoves, vars
<1>3. CASE UNCHANGED <<incident, frame>>
  BY <1>2, <1>3 DEF TypeOK
<1>4. ASSUME incident' \in [Incidents -> IncidentRows \cup {NoIncident}],
             \A i \in Incidents : incident[i] # NoIncident => incident'[i] # NoIncident,
             \/ frame' = frame
             \/ \E c \in Clients : Return(c)
             \/ \E c \in Clients, f \in Frames : /\ frame' = [frame EXCEPT ![c] = f]
                                                 /\ incident[f.incident] # NoIncident
      PROVE  TypeOK'
  <2>1. \/ frame' = frame
        \/ \E c \in Clients, f \in Frames \cup {Idle} :
             /\ frame' = [frame EXCEPT ![c] = f]
             /\ f # Idle => incident[f.incident] # NoIncident
    BY <1>4 DEF Return
  <2>2. \A f \in Frames : f.incident \in Incidents
    BY DEF Frames
  <2>3. frame' \in [Clients -> Frames \cup {Idle}]
    BY <1>1, <2>1
  <2>4. \A c \in Clients : frame'[c] # Idle => incident'[frame'[c].incident] # NoIncident
    BY <1>1, <1>4, <2>1, <2>2
  <2> QED
    BY <1>2, <1>4, <2>3, <2>4 DEF TypeOK
<1>5. ASSUME NEW c \in Clients, Activate(c)
      PROVE  TypeOK'
  <2>1. frame' = frame
    BY <1>5 DEF Activate
  <2> QED
    BY <1>4, <1>5, <2>1, ActivateInserts DEF Inserts
<1>6. ASSUME NEW c \in Clients, BeginTransition(c)
      PROVE  TypeOK'
  <2>1. PICK i \in Incidents, to \in IncidentStatus :
          /\ incident[i] \in IncidentRows
          /\ BeginFrame(i, to) \in Frames
          /\ frame' = [frame EXCEPT ![c] = BeginFrame(i, to)]
          /\ incident' = incident
    BY <1>6, BeginFacts
  <2>2. incident[BeginFrame(i, to).incident] # NoIncident
    BY <2>1, IncidentRowFacts DEF BeginFrame
  <2> QED
    BY <1>1, <1>4, <2>1, <2>2
<1>7. ASSUME NEW c \in Clients, CountDependencies(c)
      PROVE  TypeOK'
  BY <1>1, <1>4, <1>7, CountFacts
<1>8. ASSUME NEW c \in Clients, TransitionIncident(c)
      PROVE  TypeOK'
  <2>1. \A i \in Incidents : incident[i] # NoIncident => incident'[i] # NoIncident
    BY <1>8, TransitionMoves, IncidentRowFacts DEF Moves
  <2> QED
    BY <1>4, <1>8, <2>1, TransitionMoves DEF TransitionIncident
<1>9. ASSUME NEW c \in Clients, RollBack(c)
      PROVE  TypeOK'
  BY <1>1, <1>4, <1>9 DEF RollBack
<1> QED
  BY <1>3, <1>5, <1>6, <1>7, <1>8, <1>9 DEF Next, Step, WorkMoves, vars

LEMMA TypeInit == Init => TypeOK
BY DEF Init, Empty, TypeOK

\* Incidents and requests in flight have their types, and no incident disappears
\* under a request that names it.
THEOREM TypeCorrect == Spec => []TypeOK
BY TypeInit, TypeStep, PTL DEF Spec

-------------------------------------------------------------------------------
(* Lifecycle *)

\* What a transition knows of its incident: the version it read is not ahead of the
\* row, and if the row has not moved since, then the move is still in the table.
\* The transaction compares nothing but the version, so this is all it relies on.
FrameFresh(c) ==
  LET i == frame[c].incident
  IN frame[c] # Idle =>
       /\ frame[c].version <= incident[i].version
       /\ frame[c].version = incident[i].version
            => <<incident[i].status, frame[c].to>> \in IncidentTransitions
Fresh == \A c \in Clients : FrameFresh(c)

LEMMA CommitFollows ==
  ASSUME TypeOK, Fresh, NEW c \in Clients, TransitionIncident(c)
  PROVE  /\ Moves(frame[c].incident, frame[c].to)
         /\ <<incident[frame[c].incident].status, frame[c].to>> \in IncidentTransitions
BY TransitionMoves DEF Fresh, FrameFresh, TransitionIncident, AtVersion

\* What one step does to the incidents.
LEMMA IncidentSteps ==
  ASSUME TypeOK, Fresh, [Next]_vars
  PROVE  \/ UNCHANGED incident
         \/ \E i \in Incidents : Inserts(i)
         \/ \E i \in Incidents, to \in IncidentStatus :
              Moves(i, to) /\ <<incident[i].status, to>> \in IncidentTransitions
<1>1. ASSUME NEW c \in Clients, TransitionIncident(c)
      PROVE  \E i \in Incidents, to \in IncidentStatus :
               Moves(i, to) /\ <<incident[i].status, to>> \in IncidentTransitions
  BY <1>1, CommitFollows DEF Moves
<1> QED
  BY <1>1, ActivateInserts
  DEF Next, Step, BeginTransition, CountDependencies, RollBack, WorkMoves, vars

\* The version of an incident only rises, and rises when anything else changes.
LEMMA VersionsRise ==
  ASSUME TypeOK, Fresh, [Next]_vars, NEW i \in Incidents, incident[i] # NoIncident
  PROVE  \/ incident'[i] = incident[i]
         \/ incident'[i].version = incident[i].version + 1
BY IncidentSteps DEF Inserts, Moves

LEMMA FreshKept ==
  ASSUME TypeOK, Fresh, [Next]_vars, NEW c \in Clients, frame[c] # Idle,
         frame'[c].incident = frame[c].incident, frame'[c].version = frame[c].version,
         frame'[c].to = frame[c].to
  PROVE  FrameFresh(c)'
<1>1. PICK i \in Incidents, v \in Nat :
        i = frame[c].incident /\ v = frame[c].version /\ incident[i] \in IncidentRows
  BY FrameFacts
<1>2. incident[i].version \in Nat /\ incident[i] # NoIncident
  BY <1>1, IncidentRowFacts
<1>3. incident'[i] = incident[i] \/ incident'[i].version = incident[i].version + 1
  BY <1>2, VersionsRise
<1>4. v <= incident[i].version
      /\ (v = incident[i].version => <<incident[i].status, frame[c].to>> \in IncidentTransitions)
  BY <1>1 DEF Fresh, FrameFresh
<1>5. v <= incident'[i].version
      /\ (v = incident'[i].version => <<incident'[i].status, frame[c].to>> \in IncidentTransitions)
  BY <1>2, <1>3, <1>4
<1> QED
  BY <1>1, <1>5 DEF FrameFresh

LEMMA FreshStep ==
  ASSUME TypeOK, Fresh, [Next]_vars
  PROVE  Fresh'
<1> SUFFICES ASSUME NEW c \in Clients, frame'[c] # Idle PROVE FrameFresh(c)'
  BY DEF Fresh, FrameFresh
<1>1. frame \in [Clients -> Frames \cup {Idle}]
  BY DEF TypeOK
<1>2. CASE frame'[c] = frame[c]
  BY <1>2, FreshKept
<1>3. CASE frame'[c] # frame[c]
  <2>1. PICK d \in Clients : Step(d)
    BY <1>3 DEF Next, WorkMoves, vars
  <2>2. BeginTransition(d) \/ CountDependencies(d)
    BY <1>1, <1>3, <2>1
    DEF Step, Activate, TransitionIncident, RollBack, Return
  <2>3. CASE BeginTransition(d)
    <3>1. PICK i \in Incidents, to \in IncidentStatus :
            /\ incident[i] \in IncidentRows
            /\ <<incident[i].status, to>> \in IncidentTransitions
            /\ frame' = [frame EXCEPT ![d] = BeginFrame(i, to)]
            /\ incident' = incident
      BY <2>3, BeginFacts
    <3>2. frame'[c] = BeginFrame(i, to) /\ incident[i].version \in Nat
      BY <1>1, <1>3, <3>1, IncidentRowFacts
    <3> QED
      BY <3>1, <3>2 DEF FrameFresh, BeginFrame
  <2>4. CASE CountDependencies(d)
    BY <1>1, <1>3, <2>4, CountFacts, FreshKept
  <2> QED
    BY <2>2, <2>3, <2>4
<1> QED
  BY <1>2, <1>3

LEMMA FreshAlways == Spec => []Fresh
<1>1. Init => Fresh
  BY DEF Init, Empty, Fresh, FrameFresh
<1>2. TypeOK /\ Fresh /\ [Next]_vars => Fresh'
  BY FreshStep
<1> QED
  BY <1>1, <1>2, TypeCorrect, PTL DEF Spec

\* However stale the reads of the requests that race, an incident moves only along
\* incidentTransitions and one version at a time.
THEOREM LifecycleCorrect == Spec => IncidentFollowsLifecycle
<1> DEFINE Follows ==
      \A i \in Incidents :
        (incident[i] # NoIncident /\ incident'[i] # incident[i]) =>
          /\ <<incident[i].status, incident'[i].status>> \in IncidentTransitions
          /\ incident'[i].version = incident[i].version + 1
<1>1. TypeOK /\ Fresh /\ [Next]_vars => [Follows]_vars
  BY IncidentSteps DEF Inserts, Moves
<1> QED
  BY <1>1, TypeCorrect, FreshAlways, PTL DEF Spec, IncidentFollowsLifecycle

LEMMA VersionNamesStep ==
  ASSUME TypeOK, Fresh, VersionNamesStatus, [Next]_vars
  PROVE  VersionNamesStatus'
<1>1. ASSUME NEW i \in Incidents, Inserts(i)
      PROVE  VersionNamesStatus'
  BY <1>1 DEF VersionNamesStatus, Inserts, Inserted
<1>2. ASSUME NEW i \in Incidents, NEW to, Moves(i, to),
             <<incident[i].status, to>> \in IncidentTransitions
      PROVE  VersionNamesStatus'
  <2>1. incident[i] # NoIncident /\ incident[i].version \in Nat /\ incident[i].version > 0
    BY <1>2, IncidentRowFacts DEF Moves
  <2>2. incident'[i].status = to /\ incident'[i].closed = (to = "closed")
        /\ incident'[i].version = incident[i].version + 1
    BY <1>2 DEF Moves
  <2>3. incident[i].status \in (IF incident[i].version % 2 = 1
                                THEN {"active", "closed"} ELSE {"stabilizing", "cancelled"})
    BY <2>1 DEF VersionNamesStatus
  <2>4. CASE incident[i].version % 2 = 1
    <3>1. to \in {"stabilizing", "cancelled"}
      BY <1>2, <2>3, <2>4 DEF IncidentTransitions
    <3>2. (incident[i].version + 1) % 2 # 1
      BY <2>1, <2>4
    <3> QED
      BY <1>2, <2>2, <3>1, <3>2 DEF VersionNamesStatus, Moves
  <2>5. CASE incident[i].version % 2 # 1
    <3>1. to \in {"active", "closed"}
      BY <1>2, <2>3, <2>5 DEF IncidentTransitions
    <3>2. (incident[i].version + 1) % 2 = 1 /\ incident[i].version + 1 >= 3
      BY <2>1, <2>5
    <3> QED
      BY <1>2, <2>2, <3>1, <3>2 DEF VersionNamesStatus, Moves
  <2> QED
    BY <2>4, <2>5
<1> QED
  BY <1>1, <1>2, IncidentSteps DEF VersionNamesStatus

\* A version names the state it was read in, since live incidents only ever move
\* between active and stabilizing, and closed_at is set exactly on closure.
THEOREM VersionsCorrect == Spec => []VersionNamesStatus
<1>1. Init => VersionNamesStatus
  BY DEF Init, Empty, VersionNamesStatus
<1>2. TypeOK /\ Fresh /\ VersionNamesStatus /\ [Next]_vars => VersionNamesStatus'
  BY VersionNamesStep
<1> QED
  BY <1>1, <1>2, TypeCorrect, FreshAlways, PTL DEF Spec

-------------------------------------------------------------------------------
(* Records: each step of IncidentRecords is a step of Incidents or stutters *)

LEMMA RecordsStepIsStep ==
  ASSUME [RecordsNext]_recordsVars
  PROVE  [Next]_vars
<1>1. ASSUME NEW c \in Clients, RecordedStep(c), UNCHANGED busy
      PROVE  Next
  BY <1>1
  DEF RecordedStep, ActivateRecorded, BeginTransitionRecorded, CountDependenciesRecorded,
      TransitionRecorded, RollBackRecorded, Step, Next
<1> QED
  BY <1>1 DEF RecordsNext, recordsVars, vars, Next

\* Keeping the records beside the rows changes nothing in the behaviour of the
\* incidents, so what is proved of module Incidents holds of them.
THEOREM RecordsImplementIncidents == RecordsSpec => Spec
<1>1. RecordsInit => Init
  BY DEF RecordsInit
<1>2. [RecordsNext]_recordsVars => [Next]_vars
  BY RecordsStepIsStep
<1> QED
  BY <1>1, <1>2, PTL DEF RecordsSpec, Spec

LEMMA IncidentsAlways == RecordsSpec => [](TypeOK /\ Fresh)
BY RecordsImplementIncidents, TypeCorrect, FreshAlways, PTL

-------------------------------------------------------------------------------
(* What each step records *)

\* RecordsTypeOK, with the domains that the proofs below need.
Reads == [from : IncidentStatus \cup {"none"}, at : Times \cup {Never}]
RecordsTyped ==
  /\ now \in Times
  /\ updated \in [Incidents -> Times \cup {Never}]
  /\ read \in [Clients -> Reads]
  /\ \A c \in Clients :
       IF frame[c] = Idle THEN read[c] = Unread
       ELSE <<read[c].from, frame[c].to>> \in IncidentTransitions /\ read[c].at \in Times
  /\ trail \in [Objects -> Seq(AuditEvents)]
  /\ outbox \subseteq Incidents

\* Activations are told apart by the reference, transitions by the incident.
LEMMA ObjectFacts ==
  /\ \A i \in Incidents : Activation(i) \in Objects /\ Transition(i) \in Objects
  /\ \A i, j \in Incidents :
       /\ Activation(i) # Transition(j)
       /\ Activation(i) = Activation(j) <=> RefOf[i] = RefOf[j]
       /\ Transition(i) = Transition(j) <=> i = j
BY DEF Activation, Transition, Objects

Event(from, to, t) == [from |-> from, to |-> to, at |-> t]

\* The row of an incident is touched and an event is appended under an object.
Records(i, o, from, to, t) ==
  /\ t \in Times /\ t <= now
  /\ Event(from, to, t) \in AuditEvents
  /\ updated' \in [Incidents -> Times \cup {Never}]
  /\ o \in Objects /\ trail' \in [Objects -> Seq(AuditEvents)]
  /\ updated'[i] = t /\ \A j \in Incidents \ {i} : updated'[j] = updated[j]
  /\ trail'[o] = Append(trail[o], Event(from, to, t))
  /\ \A p \in Objects \ {o} : trail'[p] = trail[p]

InsertsRecorded(i, t) ==
  /\ Inserts(i) /\ Records(i, Activation(i), "none", "active", t)
  /\ outbox' = outbox \cup {i}
  /\ UNCHANGED <<frame, read, now>>

MovesRecorded(c, t) ==
  LET i == frame[c].incident
  IN /\ c \in Clients /\ frame[c] # Idle
     /\ frame[c].version = incident[i].version
     /\ Moves(i, frame[c].to)
     /\ read[c].at <= t
     /\ Records(i, Transition(i), read[c].from, frame[c].to, t)
     /\ Return(c)
     /\ read' = [read EXCEPT ![c] = Unread]
     /\ UNCHANGED <<outbox, now>>

LEMMA RecordsOne ==
  ASSUME RecordsTyped, NEW i \in Incidents, NEW t \in 2 .. now,
         NEW o \in Objects,
         NEW from \in IncidentStatus \cup {"none"}, NEW to \in IncidentStatus,
         Touch(i, t), Log(o, from, to, t)
  PROVE  Records(i, o, from, to, t)
<1>1. now \in Nat /\ now <= MaxTime
  BY RecordsAssumption DEF RecordsTyped, Times, RecordsAssumption
<1>2. t \in Times /\ t <= now
  BY <1>1, RecordsAssumption DEF Times, RecordsAssumption
<1>3. Event(from, to, t) \in AuditEvents
  BY <1>2 DEF Event, AuditEvents
<1>4. trail' = [trail EXCEPT ![o] = Append(trail[o], Event(from, to, t))]
  BY DEF Log, Event
<1>5. \A s \in Seq(AuditEvents) : Append(s, Event(from, to, t)) \in Seq(AuditEvents)
  BY <1>3
<1>6. updated' = [updated EXCEPT ![i] = t]
  BY DEF Touch
<1> QED
  BY <1>2, <1>3, <1>4, <1>5, <1>6 DEF Records, RecordsTyped

LEMMA ActivateRecords ==
  ASSUME TypeOK, RecordsTyped, NEW c \in Clients, ActivateRecorded(c), UNCHANGED now
  PROVE  \E i \in Incidents, t \in Times : InsertsRecorded(i, t)
<1>1. PICK i \in Incidents, t \in 2 .. now :
        /\ incident'[i] # incident[i]
        /\ Touch(i, t) /\ Log(Activation(i), "none", "active", t)
        /\ outbox' = outbox \cup {i}
  BY DEF ActivateRecorded
<1>2. PICK j \in Incidents : Inserts(j)
  BY ActivateInserts DEF ActivateRecorded
<1>3. i = j
  BY <1>1, <1>2 DEF Inserts
<1>4. Records(i, Activation(i), "none", "active", t)
  BY <1>1, RecordsOne, ObjectFacts DEF IncidentStatus
<1>5. InsertsRecorded(i, t)
  BY <1>1, <1>2, <1>3, <1>4 DEF InsertsRecorded, ActivateRecorded, Activate
<1> QED
  BY <1>4, <1>5 DEF Records

LEMMA TransitionRecords ==
  ASSUME TypeOK, RecordsTyped, NEW c \in Clients, TransitionRecorded(c), UNCHANGED now
  PROVE  \E t \in Times : MovesRecorded(c, t)
<1>1. frame[c] # Idle
  BY DEF TransitionRecorded, TransitionIncident, Idle
<1>2. PICK i \in Incidents, to \in IncidentStatus :
        i = frame[c].incident /\ to = frame[c].to
  BY <1>1, FrameFacts
<1>3. PICK t \in read[c].at .. now : Touch(i, t) /\ Log(Transition(i), read[c].from, to, t)
  BY <1>2 DEF TransitionRecorded
<1>4. read[c].at \in Nat /\ read[c].at >= 2 /\ read[c].from \in IncidentStatus \cup {"none"}
      /\ now \in Nat
  <2>1. read[c] \in Reads /\ read[c].at \in Times /\ now \in Times
    BY <1>1 DEF RecordsTyped
  <2>2. read[c].from \in IncidentStatus \cup {"none"}
    BY <2>1 DEF Reads
  <2>3. MaxTime \in Nat
    BY RecordsAssumption DEF RecordsAssumption
  <2> QED
    BY <2>1, <2>2, <2>3 DEF Times
<1>5. t \in 2 .. now /\ read[c].at <= t
  BY <1>3, <1>4
<1>6. Records(i, Transition(i), read[c].from, to, t)
  BY <1>3, <1>4, <1>5, RecordsOne, ObjectFacts
<1>7. MovesRecorded(c, t)
  BY <1>1, <1>2, <1>5, <1>6, TransitionMoves
  DEF MovesRecorded, TransitionRecorded, TransitionIncident, AtVersion
<1> QED
  BY <1>6, <1>7 DEF Records

\* The steps that write no record: what changes is a frame and what it has read.
Silent == UNCHANGED <<incident, updated, trail, outbox>>

Begins(c) ==
  /\ Silent /\ UNCHANGED now
  /\ \E i \in Incidents, to \in IncidentStatus :
       /\ frame[c] = Idle
       /\ incident[i] \in IncidentRows
       /\ <<incident[i].status, to>> \in IncidentTransitions
       /\ frame' = [frame EXCEPT ![c] = BeginFrame(i, to)]
       /\ read' = [read EXCEPT ![c] = [from |-> incident[i].status, at |-> now]]

CountsWork(c) ==
  /\ Silent /\ UNCHANGED now
  /\ frame[c] # Idle
  /\ \E f \in Frames :
       /\ frame' = [frame EXCEPT ![c] = f]
       /\ f.incident = frame[c].incident /\ f.version = frame[c].version
       /\ f.to = frame[c].to
  /\ read' = [read EXCEPT ![c].at = now]

GivesUp(c) ==
  /\ Silent /\ UNCHANGED now
  /\ Return(c)
  /\ read' = [read EXCEPT ![c] = Unread]

Stands ==
  /\ Silent /\ UNCHANGED <<frame, read>>
  /\ now' = now \/ (now < MaxTime /\ now' = now + 1)

LEMMA BeginRecords ==
  ASSUME TypeOK, NEW c \in Clients, BeginTransitionRecorded(c), UNCHANGED now
  PROVE  Begins(c)
<1>1. PICK i \in Incidents, to \in IncidentStatus :
        /\ frame[c] = Idle
        /\ incident[i] \in IncidentRows
        /\ <<incident[i].status, to>> \in IncidentTransitions
        /\ frame' = [frame EXCEPT ![c] = BeginFrame(i, to)]
        /\ incident' = incident
  BY BeginFacts DEF BeginTransitionRecorded
<1>2. frame'[c].incident = i
  BY <1>1 DEF BeginFrame, TypeOK
<1>3. read' = [read EXCEPT ![c] = [from |-> incident[i].status, at |-> now]]
  BY <1>2 DEF BeginTransitionRecorded
<1>4. UNCHANGED <<updated, trail, outbox>>
  BY DEF BeginTransitionRecorded
<1> QED
  BY <1>1, <1>3, <1>4 DEF Begins, Silent

LEMMA CountRecords ==
  ASSUME TypeOK, NEW c \in Clients, CountDependenciesRecorded(c), UNCHANGED now
  PROVE  CountsWork(c)
BY CountFacts DEF CountDependenciesRecorded, CountsWork, Silent

\* Every step, by what it does to the incidents and to their records.
LEMMA RecordsEffect ==
  ASSUME TypeOK, RecordsTyped, [RecordsNext]_recordsVars
  PROVE  \/ Stands
         \/ \E c \in Clients : Begins(c) \/ CountsWork(c) \/ GivesUp(c)
         \/ \E i \in Incidents, t \in Times : InsertsRecorded(i, t)
         \/ \E c \in Clients, t \in Times : MovesRecorded(c, t)
<1>1. ASSUME NEW c \in Clients, RecordedStep(c), UNCHANGED now
      PROVE  \/ Begins(c) \/ CountsWork(c) \/ GivesUp(c)
             \/ \E i \in Incidents, t \in Times : InsertsRecorded(i, t)
             \/ \E t \in Times : MovesRecorded(c, t)
  <2>1. RollBackRecorded(c) => GivesUp(c)
    BY <1>1 DEF RollBackRecorded, RollBack, GivesUp, Silent
  <2> QED
    BY <1>1, <2>1, ActivateRecords, TransitionRecords, BeginRecords, CountRecords
    DEF RecordedStep
<1>2. CASE UNCHANGED recordsVars
  BY <1>2 DEF recordsVars, vars, records, Stands, Silent
<1>3. ASSUME NEW r \in Readers, ReaderStep(r) /\ UNCHANGED <<vars, now, records>>
      PROVE  Stands
  BY <1>3 DEF vars, records, Stands, Silent
<1>4. CASE WorkMoves /\ UNCHANGED <<now, records, walk>>
  BY <1>4 DEF WorkMoves, records, Stands, Silent
<1>5. CASE TimePasses /\ UNCHANGED <<vars, records, walk>>
  BY <1>5 DEF TimePasses, vars, records, Stands, Silent
<1> QED
  BY <1>1, <1>2, <1>3, <1>4, <1>5 DEF RecordsNext

LEMMA RecordsTypedStep ==
  ASSUME TypeOK, RecordsTyped, [RecordsNext]_recordsVars
  PROVE  RecordsTyped'
<1>1. /\ now \in Times /\ now \in Nat /\ MaxTime \in Nat /\ MaxTime >= 2
      /\ read \in [Clients -> Reads]
      /\ frame \in [Clients -> Frames \cup {Idle}]
  BY RecordsAssumption DEF RecordsTyped, Times, RecordsAssumption, TypeOK
<1>2. Unread \in Reads /\ Idle \notin Frames
  BY DEF Unread, Reads, Idle, Frames
<1>3. ASSUME Silent
      PROVE  /\ updated' \in [Incidents -> Times \cup {Never}]
             /\ trail' \in [Objects -> Seq(AuditEvents)]
             /\ outbox' \subseteq Incidents
  BY <1>3 DEF Silent, RecordsTyped
<1>4. ASSUME UNCHANGED <<frame, read>>
      PROVE  /\ read' \in [Clients -> Reads]
             /\ \A c \in Clients :
                  IF frame'[c] = Idle THEN read'[c] = Unread
                  ELSE <<read'[c].from, frame'[c].to>> \in IncidentTransitions
                       /\ read'[c].at \in Times
  BY <1>4 DEF RecordsTyped
<1>5. ASSUME NEW c \in Clients, NEW f \in Frames, NEW x \in Reads,
             frame' = [frame EXCEPT ![c] = f], read' = [read EXCEPT ![c] = x],
             <<x.from, f.to>> \in IncidentTransitions, x.at \in Times
      PROVE  /\ read' \in [Clients -> Reads]
             /\ \A d \in Clients :
                  IF frame'[d] = Idle THEN read'[d] = Unread
                  ELSE <<read'[d].from, frame'[d].to>> \in IncidentTransitions
                       /\ read'[d].at \in Times
  BY <1>1, <1>2, <1>5 DEF RecordsTyped
<1>6. ASSUME NEW c \in Clients, Return(c), read' = [read EXCEPT ![c] = Unread]
      PROVE  /\ read' \in [Clients -> Reads]
             /\ \A d \in Clients :
                  IF frame'[d] = Idle THEN read'[d] = Unread
                  ELSE <<read'[d].from, frame'[d].to>> \in IncidentTransitions
                       /\ read'[d].at \in Times
  BY <1>1, <1>2, <1>6 DEF RecordsTyped, Return
<1>7. CASE Stands
  <2>1. now' \in Times
    BY <1>1, <1>7 DEF Stands, Times
  <2> QED
    BY <1>3, <1>4, <1>7, <2>1 DEF Stands, RecordsTyped
<1>8. ASSUME NEW c \in Clients, Begins(c)
      PROVE  RecordsTyped'
  <2>1. PICK i \in Incidents, to \in IncidentStatus :
          /\ <<incident[i].status, to>> \in IncidentTransitions
          /\ incident[i] \in IncidentRows
          /\ frame' = [frame EXCEPT ![c] = BeginFrame(i, to)]
          /\ read' = [read EXCEPT ![c] = [from |-> incident[i].status, at |-> now]]
    BY <1>8 DEF Begins
  <2> DEFINE x == [from |-> incident[i].status, at |-> now]
  <2>2. x \in Reads /\ x.from = incident[i].status /\ x.at = now
    BY <1>1, <2>1, IncidentRowFacts DEF Reads
  <2>3. BeginFrame(i, to) \in Frames /\ BeginFrame(i, to).to = to
    <3>1. incident[i].version \in Nat /\ (to # "closed") \in BOOLEAN
      BY <2>1, IncidentRowFacts
    <3> QED
      BY <3>1 DEF BeginFrame, Frames
  <2> HIDE DEF x
  <2>4. read' = [read EXCEPT ![c] = x]
    BY <2>1 DEF x
  <2> QED
    BY <1>1, <1>3, <1>5, <1>8, <2>1, <2>2, <2>3, <2>4 DEF Begins, RecordsTyped
<1>9. ASSUME NEW c \in Clients, CountsWork(c)
      PROVE  RecordsTyped'
  <2>1. PICK f \in Frames : frame' = [frame EXCEPT ![c] = f] /\ f.to = frame[c].to
    BY <1>9 DEF CountsWork
  <2> DEFINE x == [read[c] EXCEPT !.at = now]
  <2>2. <<read[c].from, frame[c].to>> \in IncidentTransitions
    BY <1>9 DEF CountsWork, RecordsTyped
  <2>3. x \in Reads /\ x.from = read[c].from /\ x.at = now
    BY <1>1 DEF Reads
  <2>4. read' = [read EXCEPT ![c] = x]
    BY <1>1, <1>9 DEF CountsWork
  <2> HIDE DEF x
  <2> QED
    BY <1>1, <1>3, <1>5, <1>9, <2>1, <2>2, <2>3, <2>4 DEF CountsWork, RecordsTyped
<1>10. ASSUME NEW c \in Clients, GivesUp(c)
       PROVE  RecordsTyped'
  BY <1>1, <1>3, <1>6, <1>10 DEF GivesUp, RecordsTyped
<1>11. ASSUME NEW i \in Incidents, NEW t \in Times, InsertsRecorded(i, t)
       PROVE  RecordsTyped'
  BY <1>1, <1>4, <1>11 DEF InsertsRecorded, Records, RecordsTyped
<1>12. ASSUME NEW c \in Clients, NEW t \in Times, MovesRecorded(c, t)
       PROVE  RecordsTyped'
  BY <1>1, <1>6, <1>12 DEF MovesRecorded, Records, RecordsTyped
<1> QED
  BY <1>7, <1>8, <1>9, <1>10, <1>11, <1>12, RecordsEffect

LEMMA RecordsTypedAlways == RecordsSpec => []RecordsTyped
<1>1. RecordsInit => RecordsTyped
  <2> SUFFICES ASSUME RecordsInit PROVE RecordsTyped
    OBVIOUS
  <2>1. 2 \in Times
    BY RecordsAssumption DEF Times, RecordsAssumption
  <2>2. \A o \in Objects : trail[o] = <<>>
    BY DEF RecordsInit
  <2>3. <<>> \in Seq(AuditEvents)
    OBVIOUS
  <2>4. trail \in [Objects -> Seq(AuditEvents)]
    BY <2>3 DEF RecordsInit
  <2>5. Unread \in Reads
    BY DEF Unread, Reads
  <2> QED
    BY <2>1, <2>4, <2>5 DEF RecordsInit, Init, Empty, RecordsTyped
<1>2. TypeOK /\ RecordsTyped /\ [RecordsNext]_recordsVars => RecordsTyped'
  BY RecordsTypedStep
<1>3. RecordsSpec => []TypeOK
  BY IncidentsAlways, PTL
<1> QED
  BY <1>1, <1>2, <1>3, PTL DEF RecordsSpec

-------------------------------------------------------------------------------
(* The audit trail *)

\* The parts of AuditTellsTheStory for one incident.
Counted(i) == Len(trail[Activation(i)]) = Cardinality(Namesakes(i))
Apart(i) ==
  incident[i] # NoIncident => \A j \in Namesakes(i) : RegionOf[j] = RegionOf[i] => j = i
Told(i) ==
  /\ i \in outbox <=> incident[i] # NoIncident
  /\ IF incident[i] = NoIncident THEN trail[Transition(i)] = <<>>
     ELSE \E k \in 1 .. Len(trail[Activation(i)]) :
            IsStory(i, <<trail[Activation(i)][k]>> \o trail[Transition(i)])
Story(i) == Counted(i) /\ Apart(i) /\ Told(i)

\* What a transition read is still so if the version is: the status, and a time that
\* is not before the last event, because the clock is read after the row.
FrameKnows(c) ==
  LET i == frame[c].incident
  IN frame[c] # Idle =>
       /\ read[c].at <= now
       /\ frame[c].version = incident[i].version =>
            read[c].from = incident[i].status /\ read[c].at >= updated[i]

StoryInv ==
  /\ \A i \in Incidents : updated[i] <= now /\ Story(i)
  /\ \A c \in Clients : FrameKnows(c)

LEMMA AppendFacts ==
  ASSUME NEW S, NEW s \in Seq(S), NEW e \in S
  PROVE  /\ Append(s, e) \in Seq(S)
         /\ Len(Append(s, e)) = Len(s) + 1 /\ Len(s) \in Nat
         /\ Append(s, e)[Len(s) + 1] = e
         /\ \A k \in 1 .. Len(s) : Append(s, e)[k] = s[k]
OBVIOUS

\* A sequence that begins with a goes on as its rest does.
LEMMA HeadFacts ==
  ASSUME NEW S, NEW a \in S, NEW s \in Seq(S), NEW e \in S
  PROVE  /\ <<a>> \o s \in Seq(S)
         /\ <<a>> \o Append(s, e) = Append(<<a>> \o s, e)
         /\ <<a>> \o <<>> = <<a>>
<1>1. <<a>> \in Seq(S) /\ <<e>> \in Seq(S)
  OBVIOUS
<1>2. Append(s, e) = s \o <<e>>
  BY AppendIsConcat
<1>3. <<a>> \o s \in Seq(S)
  BY <1>1, ConcatProperties
<1>4. Append(<<a>> \o s, e) = (<<a>> \o s) \o <<e>>
  BY <1>3, AppendIsConcat
<1>5. (<<a>> \o s) \o <<e>> = <<a>> \o (s \o <<e>>)
  BY <1>1, ConcatAssociative
<1>6. <<a>> \o <<>> = <<a>>
  BY <1>1, ConcatEmptySeq
<1> QED
  BY <1>2, <1>3, <1>4, <1>5, <1>6

LEMMA ReadTimes ==
  ASSUME RecordsTyped
  PROVE  /\ Times \subseteq Nat /\ now \in Nat
         /\ \A c \in Clients : read[c].at \in Nat
         /\ \A i \in Incidents : updated[i] \in Nat
<1>1. Times \subseteq Nat /\ Never \in Nat
  BY RecordsAssumption DEF Times, Never, RecordsAssumption
<1>2. \A x \in Reads : x.at \in Times \cup {Never}
  BY DEF Reads
<1> QED
  BY <1>1, <1>2 DEF RecordsTyped

\* The activation alone is the story of an incident that was just inserted.
LEMMA StoryBegins ==
  ASSUME NEW i \in Incidents, NEW t, NEW a, a = Event("none", "active", t),
         Version(i)' = 1, incident'[i].status = "active", updated'[i] = t
  PROVE  IsStory(i, <<a>>)'
<1>1. a.from = "none" /\ a.to = "active" /\ a.at = t
  BY DEF Event
<1>2. Len(<<a>>) = 1 /\ <<a>>[1] = a
  OBVIOUS
<1>3. IsStory(i, <<a>>)' <=>
        LET last == Len(<<a>>)
        IN /\ last = Version(i)'
           /\ <<a>>[1].from = "none"
           /\ <<a>>[last].to = incident'[i].status
           /\ <<a>>[last].at = updated'[i]
           /\ \A k \in 2 .. last :
                <<a>>[k].from = <<a>>[k - 1].to /\ <<a>>[k].at >= <<a>>[k - 1].at
  BY <1>1, <1>2 DEF IsStory
<1> QED
  BY <1>1, <1>2, <1>3

\* One more event, that begins where the story ended and not before it.
LEMMA StoryGrows ==
  ASSUME RecordsTyped, NEW i \in Incidents, NEW s \in Seq(AuditEvents), NEW from, NEW to,
         NEW t \in Times, Event(from, to, t) \in AuditEvents,
         IsStory(i, s), Version(i) > 0, Version(i)' = Version(i) + 1,
         incident'[i].status = to, updated'[i] = t,
         from = incident[i].status, updated[i] <= t
  PROVE  IsStory(i, Append(s, Event(from, to, t)))'
<1> DEFINE n == Len(s)
           e == Event(from, to, t)
           z == Append(s, e)
<1>1. e.from = from /\ e.to = to /\ e.at = t
  BY DEF Event
<1>2. /\ n = Version(i)
      /\ s[1].from = "none" /\ s[n].to = incident[i].status /\ s[n].at = updated[i]
      /\ \A k \in 2 .. n : s[k].from = s[k - 1].to /\ s[k].at >= s[k - 1].at
  BY DEF IsStory
<1>3. t \in Nat /\ updated[i] \in Nat
  BY ReadTimes
<1> HIDE DEF e
<1>4. /\ Len(z) = n + 1 /\ n \in Nat /\ z[n + 1] = e
      /\ \A k \in 1 .. n : z[k] = s[k]
  BY AppendFacts DEF e
<1> HIDE DEF n, z
<1>5. z[1].from = "none"
  BY <1>2, <1>4
<1>6. \A k \in 2 .. n + 1 : z[k].from = z[k - 1].to /\ z[k].at >= z[k - 1].at
  <2> TAKE k \in 2 .. n + 1
  <2>1. CASE k <= n
    <3>1. z[k] = s[k] /\ z[k - 1] = s[k - 1]
      BY <1>4, <2>1
    <3> QED
      BY <1>2, <1>4, <2>1, <3>1
  <2>2. CASE k = n + 1
    <3>1. z[k] = e /\ z[k - 1] = s[n]
      BY <1>2, <1>4, <2>2
    <3> QED
      BY <1>1, <1>2, <1>3, <3>1
  <2> QED
    BY <1>4, <2>1, <2>2
<1>7. IsStory(i, z)'
  BY <1>1, <1>2, <1>4, <1>5, <1>6 DEF IsStory, z
<1> QED
  BY <1>7 DEF z, e

\* What is told of an incident stays told: events are only added.
LEMMA ToldStays ==
  ASSUME RecordsTyped, NEW i \in Incidents, Told(i), i \in outbox' <=> i \in outbox,
         incident'[i] = incident[i], updated'[i] = updated[i],
         trail'[Transition(i)] = trail[Transition(i)],
         \/ trail'[Activation(i)] = trail[Activation(i)]
         \/ \E e \in AuditEvents : trail'[Activation(i)] = Append(trail[Activation(i)], e)
  PROVE  Told(i)'
<1>1. trail[Activation(i)] \in Seq(AuditEvents)
  BY ObjectFacts DEF RecordsTyped
<1>2. \A k \in 1 .. Len(trail[Activation(i)]) :
        /\ k \in 1 .. Len(trail'[Activation(i)])
        /\ trail'[Activation(i)][k] = trail[Activation(i)][k]
  BY <1>1, AppendFacts
<1>3. \A s : IsStory(i, s) => IsStory(i, s)'
  BY DEF IsStory, Version
<1>4. CASE incident[i] = NoIncident
  BY <1>4 DEF Told, Activation, Transition
<1>5. CASE incident[i] # NoIncident
  <2>1. PICK k \in 1 .. Len(trail[Activation(i)]) :
          IsStory(i, <<trail[Activation(i)][k]>> \o trail[Transition(i)])
    BY <1>5 DEF Told
  <2>2. IsStory(i, <<trail[Activation(i)][k]>> \o trail[Transition(i)])'
    BY <1>2, <1>3, <2>1 DEF IsStory, Version, Activation, Transition
  <2>3. k \in 1 .. Len(trail[Activation(i)])'
    BY <1>2 DEF Activation
  <2> QED
    BY <1>5, <2>2, <2>3 DEF Told
<1> QED
  BY <1>4, <1>5

\* An activation adds one event for one more namesake of the incidents that bear its
\* reference.
LEMMA CountsInsert ==
  ASSUME RecordsTyped, NEW i \in Incidents, NEW t \in Times, InsertsRecorded(i, t),
         NEW j \in Incidents, Counted(j)
  PROVE  Counted(j)'
<1>1. IsFiniteSet(Namesakes(j)) /\ i \notin Namesakes(j)
  <2>1. Namesakes(j) \in SUBSET Incidents /\ IsFiniteSet(Incidents)
    BY RecordsAssumption DEF Namesakes, RecordsAssumption
  <2> QED
    BY <2>1, FS_Subset DEF InsertsRecorded, Inserts, Namesakes
<1>2. incident'[i] # NoIncident /\ \A k \in Incidents \ {i} : incident'[k] = incident[k]
  BY DEF InsertsRecorded, Inserts, Inserted, NoIncident
<1>3. trail[Activation(j)] \in Seq(AuditEvents)
  BY ObjectFacts DEF RecordsTyped
<1>4. CASE RefOf[i] = RefOf[j]
  <2>1. Namesakes(j)' = Namesakes(j) \cup {i}
    BY <1>2, <1>4 DEF Namesakes
  <2>2. trail'[Activation(j)] = Append(trail[Activation(j)], Event("none", "active", t))
        /\ Event("none", "active", t) \in AuditEvents
    BY <1>4, ObjectFacts DEF InsertsRecorded, Records
  <2>3. Cardinality(Namesakes(j)') = Cardinality(Namesakes(j)) + 1
    BY <1>1, <2>1, FS_AddElement
  <2> QED
    BY <1>3, <2>2, <2>3, AppendFacts DEF Counted, Activation
<1>5. CASE RefOf[i] # RefOf[j]
  <2>1. Namesakes(j)' = Namesakes(j)
    BY <1>2, <1>5 DEF Namesakes
  <2>2. trail'[Activation(j)] = trail[Activation(j)]
    BY <1>5, ObjectFacts DEF InsertsRecorded, Records
  <2> QED
    BY <2>1, <2>2 DEF Counted, Activation
<1> QED
  BY <1>4, <1>5

\* Namesakes of one region would share the key that the insertion found free.
LEMMA ApartInsert ==
  ASSUME NEW i \in Incidents, NEW t \in Times, InsertsRecorded(i, t),
         NEW j \in Incidents, Apart(j)
  PROVE  Apart(j)'
<1>1. \A k \in Incidents \ {i} :
        incident'[k] = incident[k]
        /\ (incident[k] # NoIncident =>
              ~(RegionOf[k] = RegionOf[i] /\ RefOf[k] = RefOf[i]))
  BY DEF InsertsRecorded, Inserts, KeyIsFree, Key
<1> QED
  BY <1>1 DEF Apart, Namesakes

LEMMA StoryKept ==
  ASSUME NEW i \in Incidents, Counted(i), Apart(i),
         trail'[Activation(i)] = trail[Activation(i)],
         \A j \in Incidents : incident'[j] = NoIncident <=> incident[j] = NoIncident
  PROVE  Counted(i)' /\ Apart(i)'
<1>1. Namesakes(i)' = Namesakes(i)
  BY DEF Namesakes
<1> QED
  BY <1>1 DEF Counted, Apart, Activation, Namesakes

LEMMA StoryStep ==
  ASSUME TypeOK, Fresh, RecordsTyped, StoryInv, [RecordsNext]_recordsVars
  PROVE  \A i \in Incidents : updated'[i] <= now' /\ Story(i)'
<1>1. now \in Nat /\ \A i \in Incidents : updated[i] \in Nat /\ updated[i] <= now /\ Story(i)
  BY RecordsAssumption DEF RecordsTyped, Times, Never, RecordsAssumption, StoryInv
<1>2. ASSUME Silent, now' = now \/ now' = now + 1
      PROVE  \A i \in Incidents : updated'[i] <= now' /\ Story(i)'
  <2>1. \A i \in Incidents : Told(i)'
    BY <1>1, <1>2, ToldStays DEF Silent, Story
  <2>2. \A i \in Incidents : Counted(i)' /\ Apart(i)'
    BY <1>1, <1>2, StoryKept DEF Silent, Story
  <2> QED
    BY <1>1, <1>2, <2>1, <2>2 DEF Silent, Story
<1>3. ASSUME NEW i \in Incidents, NEW t \in Times, InsertsRecorded(i, t)
      PROVE  \A j \in Incidents : updated'[j] <= now' /\ Story(j)'
  <2> DEFINE e == Event("none", "active", t)
             o == Activation(i)
  <2>1. /\ incident[i] = NoIncident /\ incident'[i] # NoIncident
        /\ incident'[i].status = "active" /\ Version(i)' = 1 /\ updated'[i] = t
        /\ outbox' = outbox \cup {i} /\ now' = now /\ t <= now
        /\ \A j \in Incidents \ {i} : incident'[j] = incident[j] /\ updated'[j] = updated[j]
    BY <1>3 DEF InsertsRecorded, Inserts, Inserted, Records, Version, NoIncident
  <2>2. /\ e \in AuditEvents /\ o \in Objects
        /\ trail'[o] = Append(trail[o], e)
        /\ \A p \in Objects \ {o} : trail'[p] = trail[p]
        /\ trail[o] \in Seq(AuditEvents)
    BY <1>3 DEF InsertsRecorded, Records, RecordsTyped
  <2>3. \A j \in Incidents : trail'[Transition(j)] = trail[Transition(j)]
    BY <2>2, ObjectFacts
  <2>4. \A j \in Incidents :
          \/ trail'[Activation(j)] = trail[Activation(j)]
          \/ \E f \in AuditEvents : trail'[Activation(j)] = Append(trail[Activation(j)], f)
    BY <2>2, ObjectFacts
  <2>5. \A j \in Incidents \ {i} : Told(j)'
    BY <1>1, <2>1, <2>3, <2>4, ToldStays DEF Story
  <2>6. Told(i)'
    <3>1. trail'[Transition(i)] = <<>>
      BY <1>1, <2>1, <2>3 DEF Story, Told
    <3>2. PICK k \in 1 .. Len(trail'[o]) : trail'[o][k] = e
      BY <2>2, AppendFacts
    <3>3. IsStory(i, <<e>>)'
      BY <2>1, StoryBegins
    <3>4. <<trail'[o][k]>> \o trail'[Transition(i)] = <<e>>
      BY <2>2, <3>1, <3>2, HeadFacts
    <3>5. IsStory(i, <<trail[o][k]>> \o trail[Transition(i)])'
      BY <3>3, <3>4 DEF IsStory, Activation, Transition, Version
    <3> QED
      BY <2>1, <3>2, <3>5 DEF Told, Activation
  <2>7. \A j \in Incidents : Counted(j)' /\ Apart(j)'
    BY <1>1, <1>3, CountsInsert, ApartInsert DEF Story
  <2>8. \A j \in Incidents : updated'[j] <= now'
    BY <1>1, <2>1
  <2> QED
    BY <2>5, <2>6, <2>7, <2>8 DEF Story
<1>4. ASSUME NEW c \in Clients, NEW t \in Times, MovesRecorded(c, t)
      PROVE  \A j \in Incidents : updated'[j] <= now' /\ Story(j)'
  <2>1. PICK i \in Incidents, to \in IncidentStatus :
          i = frame[c].incident /\ to = frame[c].to
    BY <1>4 DEF MovesRecorded, Moves
  <2>a. PICK from \in IncidentStatus \cup {"none"} : from = read[c].from
    BY <1>4 DEF MovesRecorded, RecordsTyped, Reads
  <2> DEFINE e == Event(from, to, t)
             o == Transition(i)
  <2>2. /\ Moves(i, to) /\ Records(i, o, from, to, t)
        /\ UNCHANGED <<outbox, now>> /\ read[c].at <= t
        /\ frame[c] # Idle /\ frame[c].version = incident[i].version
    BY <1>4, <2>1, <2>a DEF MovesRecorded
  <2>3. /\ incident[i].version \in Nat /\ incident[i].version > 0 /\ incident[i] # NoIncident
        /\ incident'[i].version = incident[i].version + 1 /\ incident'[i] # NoIncident
        /\ incident'[i].status = to
        /\ \A j \in Incidents \ {i} : incident'[j] = incident[j]
    BY <2>2, IncidentRowFacts DEF Moves
  <2>4. Version(i)' = Version(i) + 1 /\ Version(i) > 0
    BY <2>3 DEF Version
  <2>5. from = incident[i].status /\ updated[i] <= t
    <3>1. from = incident[i].status /\ read[c].at >= updated[i]
      BY <2>1, <2>2, <2>a DEF StoryInv, FrameKnows
    <3>2. read[c].at \in Nat /\ t \in Nat
      BY ReadTimes
    <3> QED
      BY <1>1, <2>2, <3>1, <3>2
  <2>6. /\ e \in AuditEvents /\ o \in Objects
        /\ trail'[o] = Append(trail[o], e)
        /\ \A p \in Objects \ {o} : trail'[p] = trail[p]
        /\ updated'[i] = t /\ \A j \in Incidents \ {i} : updated'[j] = updated[j]
    BY <2>2 DEF Records
  <2>7. /\ trail[o] \in Seq(AuditEvents) /\ trail[Activation(i)] \in Seq(AuditEvents)
        /\ \A j \in Incidents : trail'[Activation(j)] = trail[Activation(j)]
        /\ \A j \in Incidents \ {i} : trail'[Transition(j)] = trail[Transition(j)]
    BY <2>6, ObjectFacts DEF RecordsTyped
  <2>8. Told(i)'
    <3>1. PICK k \in 1 .. Len(trail[Activation(i)]) :
            IsStory(i, <<trail[Activation(i)][k]>> \o trail[o])
      BY <1>1, <2>3 DEF Story, Told
    <3>2. PICK a \in AuditEvents : a = trail[Activation(i)][k]
      BY <2>7
    <3>3. PICK m \in Seq(AuditEvents), s \in Seq(AuditEvents) :
            m = trail[o] /\ s = <<a>> \o m
      BY <2>7, HeadFacts, <2>6
    <3>4. <<a>> \o Append(m, e) = Append(s, e)
      BY <2>6, <3>3, HeadFacts
    <3>5. IsStory(i, Append(s, e))'
      BY <2>3, <2>4, <2>5, <2>6, <3>1, <3>2, <3>3, StoryGrows
    <3>6. IsStory(i, <<trail[Activation(i)][k]>> \o trail[Transition(i)])'
      <4>1. trail'[Activation(i)][k] = a /\ trail'[Transition(i)] = Append(m, e)
        BY <2>6, <2>7, <3>2, <3>3
      <4>2. <<trail'[Activation(i)][k]>> \o trail'[Transition(i)] = Append(s, e)
        BY <3>4, <4>1
      <4> HIDE DEF e
      <4> QED
        BY <3>5, <4>2 DEF IsStory, Version, Activation, Transition
    <3>7. k \in 1 .. Len(trail[Activation(i)])'
      BY <2>7 DEF Activation
    <3> QED
      BY <1>1, <2>2, <2>3, <3>6, <3>7 DEF Story, Told
  <2>9. \A j \in Incidents \ {i} : Told(j)'
    BY <1>1, <2>2, <2>3, <2>6, <2>7, ToldStays DEF Story
  <2>10. \A j \in Incidents : Counted(j)' /\ Apart(j)'
    BY <1>1, <2>3, <2>7, StoryKept DEF Story
  <2>11. \A j \in Incidents : updated'[j] <= now'
    BY <1>1, <2>2 DEF Records
  <2> QED
    BY <2>8, <2>9, <2>10, <2>11 DEF Story
<1> QED
  BY <1>2, <1>3, <1>4, RecordsEffect DEF Stands, Begins, CountsWork, GivesUp

LEMMA KnowsStep ==
  ASSUME TypeOK, Fresh, RecordsTyped, StoryInv, [RecordsNext]_recordsVars
  PROVE  \A c \in Clients : FrameKnows(c)'
<1>1. /\ now \in Nat
      /\ \A i \in Incidents : updated[i] \in Nat /\ updated[i] <= now
      /\ \A c \in Clients : FrameKnows(c)
      /\ frame \in [Clients -> Frames \cup {Idle}] /\ read \in [Clients -> Reads]
  BY RecordsAssumption
  DEF RecordsTyped, Times, Never, RecordsAssumption, StoryInv, TypeOK
<1>2. \A c \in Clients : read[c].at \in Nat
  BY ReadTimes
\* A frame that stays knows as much as before: if its incident moved, the version
\* is another one now.
<1>3. ASSUME NEW c \in Clients, frame'[c] = frame[c], read'[c] = read[c], now <= now',
             \A i \in Incidents :
               incident[i] # NoIncident =>
                 \/ incident'[i] = incident[i] /\ updated'[i] = updated[i]
                 \/ incident'[i].version = incident[i].version + 1,
             now' \in Nat
      PROVE  FrameKnows(c)'
  <2> SUFFICES ASSUME frame[c] # Idle PROVE FrameKnows(c)'
    BY <1>3 DEF FrameKnows
  <2>1. PICK i \in Incidents, v \in Nat :
          i = frame[c].incident /\ v = frame[c].version /\ incident[i] \in IncidentRows
    BY FrameFacts
  <2>2. incident[i].version \in Nat /\ incident[i] # NoIncident
    BY <2>1, IncidentRowFacts
  <2>3. v <= incident[i].version
    BY <2>1 DEF Fresh, FrameFresh
  <2>4. v = incident'[i].version => incident'[i] = incident[i] /\ updated'[i] = updated[i]
    BY <1>3, <2>2, <2>3
  <2>5. /\ read[c].at <= now
        /\ v = incident[i].version => read[c].from = incident[i].status /\ read[c].at >= updated[i]
    BY <1>1, <2>1 DEF FrameKnows
  <2>6. read'[c].at <= now'
    BY <1>1, <1>2, <1>3, <2>5
  <2> QED
    BY <1>3, <2>1, <2>4, <2>5, <2>6 DEF FrameKnows
<1>4. CASE Stands
  <2>1. now <= now' /\ now' \in Nat
    BY <1>1, <1>4 DEF Stands
  <2> QED
    BY <1>3, <1>4, <2>1 DEF Stands, Silent
<1>5. ASSUME NEW c \in Clients, Begins(c)
      PROVE  \A d \in Clients : FrameKnows(d)'
  <2>1. PICK i \in Incidents, to \in IncidentStatus :
          /\ frame' = [frame EXCEPT ![c] = BeginFrame(i, to)]
          /\ read' = [read EXCEPT ![c] = [from |-> incident[i].status, at |-> now]]
    BY <1>5 DEF Begins
  <2>2. Silent /\ now' = now
    BY <1>5 DEF Begins
  <2>3. frame'[c] = BeginFrame(i, to) /\ BeginFrame(i, to).incident = i
        /\ read'[c].from = incident[i].status /\ read'[c].at = now
    BY <1>1, <2>1 DEF BeginFrame
  <2>4. FrameKnows(c)'
    BY <1>1, <2>2, <2>3 DEF FrameKnows, Silent
  <2>5. \A d \in Clients \ {c} : FrameKnows(d)'
    BY <1>1, <1>3, <2>1, <2>2 DEF Silent
  <2> QED
    BY <2>4, <2>5
<1>6. ASSUME NEW c \in Clients, CountsWork(c)
      PROVE  \A d \in Clients : FrameKnows(d)'
  <2>1. PICK f \in Frames :
          /\ frame' = [frame EXCEPT ![c] = f]
          /\ f.incident = frame[c].incident /\ f.version = frame[c].version
    BY <1>6 DEF CountsWork
  <2>2. Silent /\ now' = now /\ frame[c] # Idle /\ read' = [read EXCEPT ![c].at = now]
    BY <1>6 DEF CountsWork
  <2>3. frame'[c] = f /\ read'[c].from = read[c].from /\ read'[c].at = now
    BY <1>1, <2>1, <2>2 DEF Reads
  <2>4. frame[c].incident \in Incidents
    BY <2>2, FrameFacts
  <2>5. FrameKnows(c)'
    BY <1>1, <2>1, <2>2, <2>3, <2>4 DEF FrameKnows, Silent
  <2>6. \A d \in Clients \ {c} : FrameKnows(d)'
    BY <1>1, <1>3, <2>1, <2>2 DEF Silent
  <2> QED
    BY <2>5, <2>6
<1>7. ASSUME NEW c \in Clients, Return(c), read' = [read EXCEPT ![c] = Unread],
             now' = now,
             \A i \in Incidents :
               incident[i] # NoIncident =>
                 \/ incident'[i] = incident[i] /\ updated'[i] = updated[i]
                 \/ incident'[i].version = incident[i].version + 1
      PROVE  \A d \in Clients : FrameKnows(d)'
  <2>1. FrameKnows(c)'
    BY <1>1, <1>7 DEF FrameKnows, Return
  <2>2. \A d \in Clients \ {c} : FrameKnows(d)'
    BY <1>1, <1>3, <1>7 DEF Return
  <2> QED
    BY <2>1, <2>2
<1>8. ASSUME NEW c \in Clients, GivesUp(c)
      PROVE  \A d \in Clients : FrameKnows(d)'
  BY <1>7, <1>8 DEF GivesUp, Silent
<1>9. ASSUME NEW i \in Incidents, NEW t \in Times, InsertsRecorded(i, t)
      PROVE  \A d \in Clients : FrameKnows(d)'
  BY <1>1, <1>3, <1>9 DEF InsertsRecorded, Inserts, Records
<1>10. ASSUME NEW c \in Clients, NEW t \in Times, MovesRecorded(c, t)
       PROVE  \A d \in Clients : FrameKnows(d)'
  BY <1>7, <1>10 DEF MovesRecorded, Moves, Records
<1> QED
  BY <1>4, <1>5, <1>6, <1>8, <1>9, <1>10, RecordsEffect

\* The audit events tell the whole story of each incident in the order of their
\* times, for any number of racing transitions and any references, shared by regions
\* or not, although each event is made and the clock read before the transaction that
\* stores it: an activation under its reference, then the transitions under its id.
THEOREM AuditCorrect == RecordsSpec => []AuditTellsTheStory
<1>1. RecordsInit => StoryInv
  <2> SUFFICES ASSUME RecordsInit PROVE StoryInv
    OBVIOUS
  <2>1. \A o \in Objects : trail[o] = <<>> /\ Len(trail[o]) = 0
    BY DEF RecordsInit
  <2>2. \A i \in Incidents : incident[i] = NoIncident /\ updated[i] = 0 /\ now = 2
    BY DEF RecordsInit, Init, Empty, Never
  <2>3. \A i \in Incidents : Cardinality(Namesakes(i)) = 0
    BY <2>2, FS_EmptySet DEF Namesakes
  <2>4. \A i \in Incidents : Story(i)
    BY <2>1, <2>2, <2>3, ObjectFacts DEF Story, Counted, Apart, Told, RecordsInit
  <2>5. \A c \in Clients : FrameKnows(c)
    BY DEF RecordsInit, Init, Empty, FrameKnows
  <2> QED
    BY <2>2, <2>4, <2>5 DEF StoryInv
<1>2. TypeOK /\ Fresh /\ RecordsTyped /\ StoryInv /\ [RecordsNext]_recordsVars => StoryInv'
  BY StoryStep, KnowsStep DEF StoryInv
<1>3. StoryInv => AuditTellsTheStory
  BY DEF StoryInv, Story, Counted, Apart, Told, AuditTellsTheStory
<1> QED
  BY <1>1, <1>2, <1>3, IncidentsAlways, RecordsTypedAlways, PTL DEF RecordsSpec

-------------------------------------------------------------------------------
(* The order of a list *)

LEMMA PlaceFacts ==
  ASSUME RecordsTyped, NEW i \in Incidents
  PROVE  /\ Place(i) = <<Text(updated[i]), i>>
         /\ Place(i)[1] \in Int /\ Place(i)[2] = i /\ i \in Nat
         /\ Place(i) \in Places /\ Place(i) # <<>>
<1>1. updated[i] \in Nat /\ i \in Nat
  BY ReadTimes, RecordsAssumption DEF RecordsAssumption
<1>2. Text(updated[i]) \in Int
  BY <1>1 DEF Text
<1> QED
  BY <1>1, <1>2 DEF Place, Places

\* Places are totally ordered, the latest update first and, of two at the same
\* time, the greater id.
LEMMA PlacesOrdered ==
  ASSUME NEW p \in Int \X Nat, NEW q \in Int \X Nat, NEW z \in Int \X Nat
  PROVE  /\ Below(p, q) <=> Ahead(q, p)
         /\ ~Below(p, p)
         /\ Below(p, q) => ~Below(q, p)
         /\ Below(p, q) /\ Below(q, z) => Below(p, z)
         /\ p[2] # q[2] => Below(p, q) \/ Below(q, p)
         /\ ~Below(p, q) /\ Below(z, q) => ~Below(p, z)
BY DEF Below, Ahead

\* The rank of an incident in a set: how many of the set come before it.
RankIn(S, i) == Cardinality({j \in S : Ahead(Place(j), Place(i))})

LEMMA PlacesAre ==
  ASSUME RecordsTyped
  PROVE  \A i \in Incidents : Place(i) \in Int \X Nat /\ Place(i)[2] = i
<1>1. \A i \in Incidents : /\ Place(i) = <<Text(updated[i]), i>>
                           /\ Place(i)[1] \in Int /\ Place(i)[2] = i /\ i \in Nat
  BY PlaceFacts
<1> QED
  BY <1>1

LEMMA RankType ==
  ASSUME NEW S \in SUBSET Incidents
  PROVE  /\ IsFiniteSet(S) /\ Cardinality(S) \in Nat
         /\ \A i : RankIn(S, i) \in Nat
<1>1. \A T \in SUBSET Incidents : IsFiniteSet(T) /\ Cardinality(T) \in Nat
  BY FS_Subset, FS_CardinalityType, RecordsAssumption DEF RecordsAssumption
<1>2. \A i : {j \in S : Ahead(Place(j), Place(i))} \subseteq Incidents
  OBVIOUS
<1> QED
  BY <1>1, <1>2 DEF RankIn

\* The earlier place has the smaller rank.
LEMMA RankStrict ==
  ASSUME RecordsTyped, NEW S \in SUBSET Incidents, NEW i \in S, NEW k \in S,
         Below(Place(k), Place(i))
  PROVE  RankIn(S, i) < RankIn(S, k)
<1> DEFINE A == {j \in S : Ahead(Place(j), Place(i))}
           B == {j \in S : Ahead(Place(j), Place(k))}
<1>1. A \subseteq B
  <2> SUFFICES ASSUME NEW j \in A PROVE j \in B
    OBVIOUS
  <2>1. Place(j) \in Int \X Nat /\ Place(i) \in Int \X Nat /\ Place(k) \in Int \X Nat
    BY PlacesAre
  <2>2. Below(Place(i), Place(j))
    BY <2>1, PlacesOrdered
  <2>3. Below(Place(k), Place(j))
    BY <2>1, <2>2, PlacesOrdered
  <2> QED
    BY <2>1, <2>3, PlacesOrdered
<1>2. i \in B /\ i \notin A
  BY PlacesAre, PlacesOrdered
<1>3. IsFiniteSet(B)
  BY FS_Subset, RecordsAssumption DEF RecordsAssumption
<1>4. Cardinality(A) <= Cardinality(B) /\ Cardinality(B) # Cardinality(A)
  BY <1>1, <1>2, <1>3, FS_Subset
<1>5. Cardinality(A) = RankIn(S, i) /\ Cardinality(B) = RankIn(S, k)
  BY DEF RankIn
<1> QED
  BY <1>4, <1>5, RankType

\* Ranks run from 0 without a gap: they are as many as the incidents, and no two
\* incidents share one.
LEMMA RanksWithoutGap ==
  ASSUME RecordsTyped, NEW S \in SUBSET Incidents, NEW i \in S, NEW n \in Nat,
         n <= RankIn(S, i)
  PROVE  \E k \in S : RankIn(S, k) = n
<1> DEFINE m == Cardinality(S)
           f == [k \in S |-> RankIn(S, k)]
<1>1. IsFiniteSet(S) /\ m \in Nat /\ \A k \in S : RankIn(S, k) \in Nat
  BY RankType
<1>2. \A k \in S : RankIn(S, k) < m
  <2> TAKE k \in S
  <2> DEFINE B == {j \in S : Ahead(Place(j), Place(k))}
  <2>1. k \notin B
    BY PlacesAre, PlacesOrdered
  <2>2. Cardinality(B) <= m /\ m # Cardinality(B)
    BY <1>1, <2>1, FS_Subset
  <2>3. Cardinality(B) = RankIn(S, k)
    BY DEF RankIn
  <2> QED
    BY <1>1, <2>2, <2>3
<1>3. \A j, k \in S : RankIn(S, j) = RankIn(S, k) => j = k
  <2> TAKE j \in S, k \in S
  <2>1. j # k => Below(Place(j), Place(k)) \/ Below(Place(k), Place(j))
    BY PlacesAre, PlacesOrdered
  <2> QED
    BY <1>1, <2>1, RankStrict
<1>4. f \in Injection(S, 0 .. m - 1)
  <2>1. f \in [S -> 0 .. m - 1]
    BY <1>1, <1>2
  <2>2. IsInjective(f)
    BY <1>3 DEF IsInjective
  <2> QED
    BY <2>1, <2>2 DEF Injection
<1>5. IsFiniteSet(0 .. m - 1) /\ Cardinality(0 .. m - 1) = m
  <2>1. m - 1 \in Int /\ (0 > m - 1 => m = 0)
    BY <1>1
  <2>2. /\ IsFiniteSet(0 .. m - 1)
        /\ Cardinality(0 .. m - 1) = IF 0 > m - 1 THEN 0 ELSE (m - 1) - 0 + 1
    BY <2>1, FS_Interval
  <2> QED
    BY <1>1, <2>1, <2>2
<1>6. f \in Surjection(S, 0 .. m - 1)
  BY <1>4, <1>5, FS_Injection
<1>7. n \in 0 .. m - 1
  BY <1>1, <1>2
<1> HIDE DEF m
<1>8. \E k \in S : f[k] = n
  BY <1>6, <1>7 DEF Surjection
<1> QED
  BY <1>8

-------------------------------------------------------------------------------
(* One page *)

IncidentWalks ==
  [op : {"incidents"}, filter : Filters, before : [Incidents -> Nat],
   seen : SUBSET (Incidents \X Nat), items : Nat, after : Places \cup {<<>>}, more : BOOLEAN]

\* What the cursor of a walk leaves to be fetched, and the page that comes next.
Left(i, w) == w.after = <<>> \/ Below(Place(i), w.after)
RestOf(r, w) == {i \in Shown(r, w.filter) : Left(i, w)}
PageOf(S) == {i \in S : RankIn(S, i) < PageSize}
LastOf(S) == CHOOSE i \in PageOf(S) : RankIn(S, i) = PageSize - 1
Rows(S) == {<<i, Version(i)>> : i \in S}

NextPage(w, S) ==
  [w EXCEPT !.seen = w.seen \cup Rows(PageOf(S)),
            !.items = w.items + Cardinality(PageOf(S)),
            !.more = (PageOf(S) # S),
            !.after = IF PageOf(S) # S THEN Place(LastOf(S)) ELSE <<>>]

LEMMA FetchedIs ==
  ASSUME NEW r, NEW w
  PROVE  Fetched(r, w) = NextPage(w, RestOf(r, w))
BY DEF Fetched, NextPage, RestOf, Left, PageOf, RankIn, LastOf, Rows

LEMMA NextPageFacts ==
  ASSUME NEW w \in IncidentWalks, NEW S
  PROVE  LET z == NextPage(w, S)
         IN /\ z.filter = w.filter /\ z.before = w.before
            /\ z.seen = w.seen \cup Rows(PageOf(S))
            /\ z.items = w.items + Cardinality(PageOf(S))
            /\ z.more <=> PageOf(S) # S
            /\ PageOf(S) # S => z.after = Place(LastOf(S))
            /\ /\ z.seen \in SUBSET (Incidents \X Nat) /\ z.items \in Nat
               /\ PageOf(S) # S => Place(LastOf(S)) \in Places
               => z \in IncidentWalks
<1> DEFINE a == w.seen \cup Rows(PageOf(S))
           n == w.items + Cardinality(PageOf(S))
           m == (PageOf(S) # S)
           b == IF PageOf(S) # S THEN Place(LastOf(S)) ELSE <<>>
           z == [w EXCEPT !.seen = a, !.items = n, !.more = m, !.after = b]
<1>1. NextPage(w, S) = z
  BY DEF NextPage
<1>2. m \in BOOLEAN /\ (m <=> PageOf(S) # S) /\ (m => b = Place(LastOf(S)))
      /\ (~m => b = <<>>)
  OBVIOUS
<1> HIDE DEF a, n, m, b
<1>3. /\ z.filter = w.filter /\ z.before = w.before
      /\ z.seen = a /\ z.items = n /\ z.more = m /\ z.after = b
  BY DEF IncidentWalks
<1>4. a \in SUBSET (Incidents \X Nat) /\ n \in Nat /\ b \in Places \cup {<<>>}
        => z \in IncidentWalks
  BY <1>2 DEF IncidentWalks
<1>5. z.more <=> PageOf(S) # S
  BY <1>2, <1>3
<1> HIDE DEF z
<1> QED
  BY <1>1, <1>2, <1>3, <1>4, <1>5 DEF a, n

\* The last of a page that is not the whole list is there, and everything after the
\* page is below it.
LEMMA LastFacts ==
  ASSUME RecordsTyped, NEW S \in SUBSET Incidents, PageOf(S) # S
  PROVE  /\ LastOf(S) \in PageOf(S)
         /\ \A i \in S \ PageOf(S) : Below(Place(i), Place(LastOf(S)))
         /\ \A i \in PageOf(S) : ~Below(Place(i), Place(LastOf(S)))
<1>1. PageSize \in Nat /\ PageSize >= 1
  BY RecordsAssumption DEF RecordsAssumption
<1>2. \A i \in S : RankIn(S, i) \in Nat
  BY RankType
<1>3. PICK k \in S : RankIn(S, k) = PageSize - 1
  <2>1. PICK i \in S : PageSize - 1 <= RankIn(S, i)
    BY <1>1, <1>2 DEF PageOf
  <2>2. PageSize - 1 \in Nat
    BY <1>1
  <2> QED
    BY <2>1, <2>2, RanksWithoutGap
<1>4. LastOf(S) \in PageOf(S) /\ RankIn(S, LastOf(S)) = PageSize - 1
  BY <1>1, <1>3 DEF LastOf, PageOf
<1> DEFINE l == LastOf(S)
<1>5. l \in S
  BY <1>4 DEF PageOf
<1> HIDE DEF l
<1>6. ASSUME NEW i \in S \ PageOf(S)
      PROVE  Below(Place(i), Place(l))
  <2>1. RankIn(S, i) > RankIn(S, l)
    BY <1>1, <1>2, <1>4 DEF PageOf, l
  <2>2. ~Below(Place(l), Place(i))
    BY <1>2, <1>5, <2>1, RankStrict
  <2>3. i # l
    BY <1>4 DEF l
  <2> QED
    BY <1>5, <2>2, <2>3, PlacesAre, PlacesOrdered
<1>7. ASSUME NEW i \in PageOf(S)
      PROVE  ~Below(Place(i), Place(l))
  <2>1. i \in S /\ RankIn(S, i) <= RankIn(S, l)
    BY <1>1, <1>2, <1>4 DEF PageOf, l
  <2> QED
    BY <1>2, <1>5, <2>1, RankStrict
<1> QED
  BY <1>4, <1>6, <1>7 DEF l

-------------------------------------------------------------------------------
(* Walks *)

Unmoved(i, w) == incident[i] # NoIncident /\ w.before[i] = Version(i)

\* What a walk has and what its cursor leaves: the rows seen are of versions that
\* were current, those that still are lie before the cursor, and an incident that
\* matched when the walk began and has not moved is seen or left.
WalkHolds(r, w) ==
  /\ IsFiniteSet(w.seen) /\ w.items = Cardinality(w.seen)
  /\ \A p \in w.seen : p[2] <= Version(p[1])
  /\ \A i \in Incidents : w.before[i] <= Version(i)
  /\ \A i \in Incidents : Unmoved(i, w) => i \in Shown(r, w.filter)
  /\ w.more => \A i \in Incidents : <<i, Version(i)>> \in w.seen => ~Left(i, w)
  /\ \A i \in Incidents :
       Unmoved(i, w) => <<i, Version(i)>> \in w.seen \/ (w.more /\ Left(i, w))

WalkInv ==
  /\ walk \in [Readers -> Walks \cup {NoWalk}]
  /\ \A r \in Readers : walk[r].op = "incidents" => WalkHolds(r, walk[r])

LEMMA VersionNat ==
  ASSUME TypeOK
  PROVE  \A i \in Incidents : /\ Version(i) \in Nat
                              /\ incident[i] # NoIncident <=> Version(i) > 0
BY IncidentRowFacts DEF TypeOK, Version

\* A page adds rows that were not there, one for each incident on it.
LEMMA RowsCounted ==
  ASSUME TypeOK, NEW S \in SUBSET Incidents, NEW seen, IsFiniteSet(seen),
         \A i \in S : <<i, Version(i)>> \notin seen
  PROVE  /\ IsFiniteSet(seen \cup Rows(S))
         /\ Cardinality(seen \cup Rows(S)) = Cardinality(seen) + Cardinality(S)
         /\ Cardinality(S) \in Nat
<1> DEFINE f == [i \in S |-> <<i, Version(i)>>]
<1>1. IsFiniteSet(S) /\ Cardinality(S) \in Nat /\ Cardinality(seen) \in Nat
  BY RankType, FS_CardinalityType
<1>2. f \in Bijection(S, Rows(S))
  <2>1. f \in [S -> Rows(S)] /\ \A t \in Rows(S) : \E i \in S : f[i] = t
    BY DEF Rows
  <2>2. IsInjective(f)
    BY DEF IsInjective
  <2> QED
    BY <2>1, <2>2 DEF Bijection, Injection, Surjection
<1>3. IsFiniteSet(Rows(S)) /\ Cardinality(Rows(S)) = Cardinality(S)
  BY <1>1, <1>2, FS_Bijection DEF ExistsBijection
<1>4. seen \cap Rows(S) = {}
  BY DEF Rows
<1>5. /\ IsFiniteSet(seen \cup Rows(S))
      /\ Cardinality(seen \cup Rows(S)) =
           Cardinality(seen) + Cardinality(Rows(S)) - Cardinality(seen \cap Rows(S))
  BY <1>3, FS_Union
<1>6. Cardinality(seen \cap Rows(S)) = 0
  BY <1>4, FS_EmptySet
<1> QED
  BY <1>1, <1>3, <1>5, <1>6

\* Fetching a page of a walk that has more.
LEMMA FetchedHolds ==
  ASSUME TypeOK, RecordsTyped, NEW r, NEW w \in IncidentWalks, w.more, WalkHolds(r, w)
  PROVE  /\ Fetched(r, w) \in IncidentWalks
         /\ WalkHolds(r, Fetched(r, w))
<1> DEFINE S == RestOf(r, w)
           P == PageOf(S)
           z == NextPage(w, S)
<1>1. /\ z.filter = w.filter /\ z.before = w.before
      /\ z.seen = w.seen \cup Rows(P)
      /\ z.items = w.items + Cardinality(P)
      /\ z.more <=> P # S
      /\ P # S => z.after = Place(LastOf(S))
      /\ /\ z.seen \in SUBSET (Incidents \X Nat) /\ z.items \in Nat
         /\ P # S => Place(LastOf(S)) \in Places
         => z \in IncidentWalks
  <2> HIDE DEF S
  <2> QED
    BY NextPageFacts
<1>2. /\ w.filter \in Filters /\ w.before \in [Incidents -> Nat]
      /\ w.seen \in SUBSET (Incidents \X Nat) /\ w.items \in Nat
      /\ w.after \in Places \cup {<<>>}
  BY DEF IncidentWalks
<1>3. S \in SUBSET Incidents /\ P \in SUBSET Incidents /\ P \subseteq S
      /\ \A i \in S : Left(i, w) /\ i \in Shown(r, w.filter)
  BY DEF RestOf, Shown, PageOf
<1>4. \A i \in Incidents : Version(i) \in Nat
  BY VersionNat
<1> HIDE DEF z
<1>5. /\ IsFiniteSet(z.seen) /\ z.items = Cardinality(z.seen) /\ Cardinality(P) \in Nat
  <2>1. \A i \in P : <<i, Version(i)>> \notin w.seen
    BY <1>3 DEF WalkHolds
  <2>2. IsFiniteSet(w.seen) /\ w.items = Cardinality(w.seen)
    BY DEF WalkHolds
  <2> HIDE DEF P
  <2> QED
    BY <1>1, <1>3, <2>1, <2>2, RowsCounted
<1>6. P # S => /\ LastOf(S) \in P /\ LastOf(S) \in Incidents
               /\ Place(LastOf(S)) \in Places /\ Place(LastOf(S)) # <<>>
               /\ \A i \in S \ P : Below(Place(i), Place(LastOf(S)))
               /\ \A i \in P : ~Below(Place(i), Place(LastOf(S)))
  BY <1>3, LastFacts, PlaceFacts
<1> HIDE DEF S, P
<1>7. z \in IncidentWalks
  <2>1. w.seen \cup Rows(P) \in SUBSET (Incidents \X Nat)
    BY <1>2, <1>3, <1>4 DEF Rows
  <2>2. w.items + Cardinality(P) \in Nat
    BY <1>2, <1>5
  <2> QED
    BY <1>1, <1>6, <2>1, <2>2
<1>8. \A p \in z.seen : p[2] <= Version(p[1])
  BY <1>1, <1>3, <1>4 DEF WalkHolds, Rows
<1>9. /\ \A i \in Incidents : z.before[i] <= Version(i)
      /\ \A i \in Incidents : Unmoved(i, z) => i \in Shown(r, z.filter)
  BY <1>1 DEF WalkHolds, Unmoved
<1>10. ASSUME z.more, NEW i \in Incidents, <<i, Version(i)>> \in z.seen
       PROVE  ~Left(i, z)
  <2>1. z.after = Place(LastOf(S)) /\ P # S
    BY <1>1, <1>10
  <2>2. ~Below(Place(i), Place(LastOf(S)))
    <3>1. CASE <<i, Version(i)>> \in w.seen
      <4>1. ~Left(i, w)
        BY <3>1 DEF WalkHolds
      <4>2. Left(LastOf(S), w)
        BY <1>3, <1>6, <2>1
      <4>3. w.after # <<>> /\ ~Below(Place(i), w.after) /\ Below(Place(LastOf(S)), w.after)
        BY <4>1, <4>2 DEF Left
      <4>4. w.after \in Int \X Nat
        BY <1>2, <4>3, RecordsAssumption DEF Places, RecordsAssumption
      <4>5. Place(i) \in Int \X Nat /\ Place(LastOf(S)) \in Int \X Nat
        BY <1>6, <2>1, PlacesAre
      <4> QED
        BY <4>3, <4>4, <4>5, PlacesOrdered
    <3>2. CASE <<i, Version(i)>> \in Rows(P)
      BY <1>6, <2>1, <3>2 DEF Rows
    <3> QED
      BY <1>1, <1>10, <3>1, <3>2
  <2> QED
    BY <1>6, <2>1, <2>2 DEF Left
<1>11. ASSUME NEW i \in Incidents, Unmoved(i, z), <<i, Version(i)>> \notin z.seen
       PROVE  z.more /\ Left(i, z)
  <2>1. Unmoved(i, w) /\ <<i, Version(i)>> \notin w.seen /\ i \notin P
    BY <1>1, <1>11 DEF Unmoved, Rows
  <2>2. Left(i, w) /\ i \in Shown(r, w.filter)
    BY <2>1 DEF WalkHolds
  <2>3. i \in S
    BY <2>2 DEF S, RestOf
  <2>4. P # S /\ i \in S \ P
    BY <2>1, <2>3
  <2> QED
    BY <1>1, <1>6, <2>4 DEF Left
<1>12. WalkHolds(r, z)
  BY <1>5, <1>8, <1>9, <1>10, <1>11 DEF WalkHolds
<1> QED
  BY <1>7, <1>12, FetchedIs DEF z, S

\* The walk that a list begins with, before its first page.
Fresh0(r, filter) ==
  [op |-> "incidents", filter |-> filter,
   before |-> [i \in Incidents |-> IF i \in Shown(r, filter) THEN Version(i) ELSE 0],
   seen |-> {}, items |-> 0, after |-> <<>>, more |-> TRUE]

LEMMA BeginningHolds ==
  ASSUME TypeOK, NEW r, NEW filter \in Filters
  PROVE  /\ Fresh0(r, filter) \in IncidentWalks
         /\ Fresh0(r, filter).more
         /\ WalkHolds(r, Fresh0(r, filter))
<1> DEFINE w == Fresh0(r, filter)
           before == [i \in Incidents |-> IF i \in Shown(r, filter) THEN Version(i) ELSE 0]
<1>1. before \in [Incidents -> Nat]
  BY VersionNat
<1>2. /\ w.filter = filter /\ w.before = before /\ w.seen = {} /\ w.items = 0
      /\ w.after = <<>> /\ w.more
  BY DEF Fresh0
<1>3. w \in IncidentWalks
  <2> HIDE DEF before
  <2>1. w = [op |-> "incidents", filter |-> filter, before |-> before,
             seen |-> {}, items |-> 0, after |-> <<>>, more |-> TRUE]
    BY DEF Fresh0, before
  <2> QED
    BY <1>1, <2>1 DEF IncidentWalks
<1>4. \A i \in Incidents :
        w.before[i] <= Version(i) /\ (Unmoved(i, w) => i \in Shown(r, filter))
  BY <1>2, VersionNat DEF Unmoved
<1>5. IsFiniteSet({}) /\ Cardinality({}) = 0
  BY FS_EmptySet
<1> HIDE DEF w
<1>6. WalkHolds(r, w)
  BY <1>2, <1>4, <1>5 DEF WalkHolds, Left
<1> QED
  BY <1>2, <1>3, <1>6 DEF w

\* What the walks rely on while incidents move: a row that changes has a new version.
Rises(i) ==
  \/ incident'[i] = incident[i] /\ updated'[i] = updated[i]
  \/ Version(i)' > Version(i)

LEMMA WalkKept ==
  ASSUME TypeOK, TypeOK', RecordsTyped, NEW r, NEW w \in IncidentWalks, WalkHolds(r, w),
         \A i \in Incidents : Rises(i)
  PROVE  WalkHolds(r, w)'
<1>1. \A i \in Incidents : Version(i) \in Nat /\ Version(i)' \in Nat
  <2>1. \A i \in Incidents : Version(i)' \in Nat
    BY IncidentRowFacts DEF TypeOK, Version
  <2> QED
    BY <2>1, VersionNat
<1>2. \A i \in Incidents : Version(i)' >= Version(i)
  BY <1>1 DEF Rises, Version
<1>3. w.before \in [Incidents -> Nat] /\ w.seen \in SUBSET (Incidents \X Nat)
  BY DEF IncidentWalks
<1>4. \A i \in Incidents : w.before[i] <= Version(i)'
  BY <1>1, <1>2, <1>3 DEF WalkHolds
<1>5. \A p \in w.seen : p[2] <= Version(p[1])'
  <2> TAKE p \in w.seen
  <2>1. PICK i \in Incidents, v \in Nat : p = <<i, v>>
    BY <1>3
  <2>2. v <= Version(i)
    BY <2>1 DEF WalkHolds
  <2> QED
    BY <1>1, <1>2, <2>1, <2>2
\* An incident whose version is one that the walk knows has not changed.
<1>6. ASSUME NEW i \in Incidents, <<i, Version(i)'>> \in w.seen \/ w.before[i] = Version(i)'
      PROVE  /\ incident'[i] = incident[i] /\ updated'[i] = updated[i]
             /\ Version(i)' = Version(i) /\ Place(i)' = Place(i)
             /\ Left(i, w)' = Left(i, w)
             /\ i \in Shown(r, w.filter)' <=> i \in Shown(r, w.filter)
             /\ Unmoved(i, w)' = Unmoved(i, w)
  <2>1. Version(i)' <= Version(i)
    <3>1. CASE <<i, Version(i)'>> \in w.seen
      BY <3>1 DEF WalkHolds
    <3>2. CASE w.before[i] = Version(i)'
      BY <3>2 DEF WalkHolds
    <3> QED
      BY <1>6, <3>1, <3>2
  <2>2. incident'[i] = incident[i] /\ updated'[i] = updated[i]
    BY <1>1, <2>1 DEF Rises
  <2>3. Version(i)' = Version(i) /\ Place(i)' = Place(i)
    BY <2>2 DEF Version, Place
  <2> QED
    BY <2>2, <2>3 DEF Left, Shown, Unmoved
<1>7. \A i \in Incidents : Unmoved(i, w)' => i \in Shown(r, w.filter)'
  BY <1>6 DEF WalkHolds, Unmoved
<1>8. w.more => \A i \in Incidents : <<i, Version(i)'>> \in w.seen => ~Left(i, w)'
  BY <1>6 DEF WalkHolds
<1>9. \A i \in Incidents :
        Unmoved(i, w)' => <<i, Version(i)'>> \in w.seen \/ (w.more /\ Left(i, w)')
  BY <1>6 DEF WalkHolds, Unmoved
<1>10. IsFiniteSet(w.seen) /\ w.items = Cardinality(w.seen)
  BY DEF WalkHolds
<1> QED
  BY <1>4, <1>5, <1>7, <1>8, <1>9, <1>10 DEF WalkHolds

LEMMA RisesStep ==
  ASSUME TypeOK, RecordsTyped, [RecordsNext]_recordsVars
  PROVE  \A i \in Incidents : Rises(i)
<1>1. Silent => \A i \in Incidents : Rises(i)
  BY DEF Silent, Rises
<1>2. ASSUME NEW i \in Incidents, NEW t \in Times, InsertsRecorded(i, t)
      PROVE  \A j \in Incidents : Rises(j)
  <2>1. Version(i) = 0 /\ Version(i)' = 1
    BY <1>2 DEF InsertsRecorded, Inserts, Inserted, Version, NoIncident
  <2> QED
    BY <1>2, <2>1 DEF InsertsRecorded, Inserts, Records, Rises
<1>3. ASSUME NEW c \in Clients, NEW t \in Times, MovesRecorded(c, t)
      PROVE  \A j \in Incidents : Rises(j)
  <2>1. PICK i \in Incidents : i = frame[c].incident
    BY <1>3 DEF MovesRecorded, Moves
  <2>2. Moves(i, frame[c].to) /\ Records(i, Transition(i), read[c].from, frame[c].to, t)
    BY <1>3, <2>1 DEF MovesRecorded
  <2>3. /\ incident[i].version \in Nat /\ incident[i] # NoIncident /\ incident'[i] # NoIncident
        /\ incident'[i].version = incident[i].version + 1
    BY <2>2, IncidentRowFacts DEF Moves
  <2>4. Version(i)' > Version(i)
    BY <2>3 DEF Version
  <2> QED
    BY <2>2, <2>4 DEF Moves, Records, Rises
<1> QED
  BY <1>1, <1>2, <1>3, RecordsEffect DEF Stands, Begins, CountsWork, GivesUp

\* What a reader holds after a step: a list that begins or goes on holds by the
\* incidents it was fetched from.
Held(r, z) ==
  /\ z \in Walks \cup {NoWalk}
  /\ z.op = "incidents" => z \in IncidentWalks /\ WalkHolds(r, z)

LEMMA WalkKinds ==
  /\ IncidentWalks \subseteq Walks
  /\ \A z \in Walks : z.op = "incidents" => z \in IncidentWalks
  /\ \A z \in Walks : z.op \in {"incidents", "audit", "refused"}
  /\ \A z \in IncidentWalks : z.op = "incidents" /\ z # NoWalk
  /\ NoWalk.op = "none"
BY DEF Walks, IncidentWalks, NoWalk

LEMMA ReaderHolds ==
  ASSUME TypeOK, RecordsTyped, WalkInv, NEW r \in Readers, ReaderStep(r)
  PROVE  \E z : walk' = [walk EXCEPT ![r] = z] /\ Held(r, z)
<1>1. walk[r] \in Walks \cup {NoWalk}
      /\ (walk[r].op = "incidents" => WalkHolds(r, walk[r]))
  BY DEF WalkInv
<1>2. CASE ListIncidents(r)
  <2>1. PICK filter \in Filters : walk' = [walk EXCEPT ![r] = Fetched(r, Fresh0(r, filter))]
    BY <1>2 DEF ListIncidents, Fresh0
  <2>2. /\ Fetched(r, Fresh0(r, filter)) \in IncidentWalks
        /\ WalkHolds(r, Fetched(r, Fresh0(r, filter)))
    BY BeginningHolds, FetchedHolds
  <2> QED
    BY <2>1, <2>2, WalkKinds DEF Held
<1>3. CASE ListMoreIncidents(r)
  <2>1. /\ walk[r].op = "incidents" /\ walk[r].more
        /\ walk' = [walk EXCEPT ![r] = Fetched(r, walk[r])]
    BY <1>3 DEF ListMoreIncidents
  <2>2. walk[r] \in IncidentWalks /\ WalkHolds(r, walk[r])
    BY <1>1, <2>1, WalkKinds
  <2>3. Fetched(r, walk[r]) \in IncidentWalks /\ WalkHolds(r, Fetched(r, walk[r]))
    BY <2>1, <2>2, FetchedHolds
  <2> QED
    BY <2>1, <2>3, WalkKinds DEF Held
<1>4. CASE Search(r)
  <2> DEFINE m == Cardinality(Events) > PageSize
             z == [op |-> "audit", cursor |-> "String", more |-> m]
  <2>1. walk' = [walk EXCEPT ![r] = z]
    BY <1>4 DEF Search
  <2>2. m \in BOOLEAN
    OBVIOUS
  <2> HIDE DEF m
  <2>3. z \in Walks /\ z.op = "audit"
    BY <2>2 DEF Walks
  <2> QED
    BY <2>1, <2>3 DEF Held
<1>5. CASE SearchMore(r)
  <2>1. PICK op \in {"audit", "refused"} : walk' = [walk EXCEPT ![r].op = op]
    BY <1>5 DEF SearchMore
  <2>2. walk[r] \in [op : {"audit", "refused"}, cursor : {"String", "RFC3339Nano"}, more : BOOLEAN]
    BY <1>1, <1>5, WalkKinds DEF SearchMore, Walks
  <2> DEFINE z == [walk[r] EXCEPT !.op = op]
  <2>3. z \in [op : {"audit", "refused"}, cursor : {"String", "RFC3339Nano"}, more : BOOLEAN]
        /\ z.op = op
    BY <2>2
  <2>4. z \in Walks /\ z.op # "incidents"
    BY <2>3 DEF Walks
  <2>5. walk' = [walk EXCEPT ![r] = z]
    BY <2>1 DEF WalkInv
  <2> QED
    BY <2>4, <2>5 DEF Held
<1>6. CASE EndWalk(r)
  BY <1>6, WalkKinds DEF EndWalk, Held
<1> QED
  BY <1>2, <1>3, <1>4, <1>5, <1>6 DEF ReaderStep

LEMMA WalkInvStep ==
  ASSUME TypeOK, TypeOK', RecordsTyped, WalkInv, [RecordsNext]_recordsVars
  PROVE  WalkInv'
<1>1. walk \in [Readers -> Walks \cup {NoWalk}]
      /\ \A r \in Readers : Held(r, walk[r])
  BY WalkKinds DEF WalkInv, Held
<1>2. walk' = walk \/ \E r \in Readers : ReaderStep(r)
  BY DEF RecordsNext, recordsVars
<1>3. walk' = walk \/ \E r \in Readers : \E z : walk' = [walk EXCEPT ![r] = z] /\ Held(r, z)
  BY <1>2, ReaderHolds
<1>4. walk' \in [Readers -> Walks \cup {NoWalk}]
  BY <1>1, <1>3 DEF Held
<1>5. ASSUME NEW r \in Readers, (walk[r].op)' = "incidents"
      PROVE  WalkHolds(r, walk[r])'
  <2>1. PICK z : z = walk'[r] /\ Held(r, z)
    BY <1>1, <1>3
  <2>2. z \in IncidentWalks /\ WalkHolds(r, z)
    BY <1>5, <2>1 DEF Held
  <2>3. WalkHolds(r, z)'
    BY <2>2, RisesStep, WalkKept
  <2> QED
    BY <2>1, <2>3 DEF WalkHolds, Unmoved, Left
<1> QED
  BY <1>4, <1>5 DEF WalkInv

LEMMA WalkAlways == RecordsSpec => []WalkInv
<1>1. RecordsInit => WalkInv
  BY WalkKinds DEF RecordsInit, WalkInv
<1>2. TypeOK /\ TypeOK' /\ RecordsTyped /\ WalkInv /\ [RecordsNext]_recordsVars => WalkInv'
  BY WalkInvStep
<1>3. RecordsSpec => []TypeOK
  BY IncidentsAlways, PTL
<1> QED
  BY <1>1, <1>2, <1>3, RecordsTypedAlways, PTL DEF RecordsSpec

\* What is kept beside the incidents, and what the readers hold, has its type.
THEOREM RecordsTypeCorrect == RecordsSpec => []RecordsTypeOK
<1>1. TypeOK /\ RecordsTyped /\ WalkInv => RecordsTypeOK
  <2> SUFFICES ASSUME TypeOK, RecordsTyped, WalkInv PROVE RecordsTypeOK
    OBVIOUS
  <2>1. \A o \in Objects : \A k \in 1 .. Len(trail[o]) : trail[o][k] \in AuditEvents
    BY DEF RecordsTyped
  <2>2. \A r \in Readers : walk[r] = NoWalk \/ walk[r] \in Walks
    BY DEF WalkInv
  <2> QED
    BY <2>1, <2>2 DEF RecordsTyped, RecordsTypeOK
<1>2. RecordsSpec => []TypeOK
  BY IncidentsAlways, PTL
<1> QED
  BY <1>1, <1>2, RecordsTypedAlways, WalkAlways, PTL

\* Paging by update time and id is sound while incidents move between pages: a list
\* read to its end has each incident that matched and was left alone, and no version
\* of an incident twice.
THEOREM WalksCorrect == RecordsSpec => []WalksAreWhole
<1>1. TypeOK /\ RecordsTyped /\ WalkInv => WalksAreWhole
  BY DEF WalkInv, WalkHolds, WalksAreWhole, Unmoved
<1>2. RecordsSpec => []TypeOK
  BY IncidentsAlways, PTL
<1> QED
  BY <1>1, <1>2, RecordsTypedAlways, WalkAlways, PTL
================================================================================
