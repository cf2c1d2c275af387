------------------------------ MODULE Observations ------------------------------
(***************************************************************************)
(* Regions, sensors and the observations that gateways send in batches and *)
(* send again when an answer is lost (internal/hazard/service.go and       *)
(* internal/store/sqlite/hazard.go).                                       *)
(*                                                                         *)
(* A batch is a frame whose items pass one after the other, each in up to  *)
(* three steps: the sensor is read, the row is inserted, and if its        *)
(* sequence is taken the row that has it is read and compared.  No         *)
(* transaction spans them.  POST /v1/observations is a batch of one.       *)
(***************************************************************************)
EXTENDS Integers, FiniteSets, Sequences

CONSTANTS
  Clients,     \* slots for concurrent requests
  Regions,
  Sensors,     \* ids that newID may hand out
  Codes,       \* the code of a region, the station_code of a sensor
  RoleOf,      \* the role of the user behind each client
  RegionOf,    \* region of a client ("" is any) or a sensor
  Numbers,     \* values of source_sequence
  Bodies,      \* what a resent observation must repeat: metric, value, unit, time, payload
  Qualities,   \* what it need not repeat
  EarlyBodies, \* bodies whose observed_at is more than five minutes ahead, at first
  Batches,     \* batches that a client may have to send
  MaxMishaps   \* bound on lost answers, cancelled requests and failed statements

Commands == [sensor : Sensors, number : Numbers, body : Bodies, quality : Qualities]

ASSUME ObservationsAssumption ==
  /\ EarlyBodies \subseteq Bodies /\ "none" \notin Bodies
  /\ \A b \in Batches : b \in Seq(Commands) /\ Len(b) \in 1 .. 100
  /\ MaxMishaps \in Nat

VARIABLES
  region,       \* table regions: the ids in it
  sensor,       \* table sensors: the ids in it
  observation,  \* table observations, by sensor and source_sequence
  created,      \* how often the store answered that it created that observation
  early,        \* bodies still ahead of the clock
  batch,        \* the batch that each client has to send, or none
  frame,        \* the request of each client
  mishaps

tables == <<region, sensor, observation, created>>
observationVars == <<tables, early, batch, frame, mishaps>>

NoObservation == [body |-> "none"]
NoBatch == <<>>

ObservationRows == [body : Bodies, quality : Qualities, by : Clients]
Outcomes == {"created", "duplicate", "conflict", "refused", "failed", "cancelled"}
\* The outcomes that the sender takes for an answer; it sends the others again.
Answers == {"created", "duplicate", "conflict", "refused"}

Sent == [op |-> "item", results |-> <<>>, cancelled |-> FALSE]

ObservationsInit ==
  /\ region = {} /\ sensor = {}
  /\ observation = [k \in Sensors \X Numbers |-> NoObservation]
  /\ created = [k \in Sensors \X Numbers |-> 0]
  /\ early = EarlyBodies
  /\ batch = [c \in Clients |-> NoBatch]
  /\ frame = [c \in Clients |-> Sent]
  /\ mishaps = 0

-------------------------------------------------------------------------------
(* One INSERT each, after a read of the region, which never changes. *)

RegisterRegion(c) ==
  \E r \in Regions :
    /\ RoleOf[c] = "commander"
    /\ \A q \in region : Codes[q] # Codes[r]
    /\ region' = region \cup {r}
    /\ UNCHANGED <<sensor, observation, created, batch, frame, mishaps>>

RegisterSensor(c) ==
  \E s \in Sensors :
    /\ RoleOf[c] = "commander"
    /\ RegionOf[s] \in region
    /\ RegionOf[c] \in {"", RegionOf[s]}
    /\ \A q \in sensor : <<RegionOf[q], Codes[q]>> # <<RegionOf[s], Codes[s]>>
    /\ sensor' = sensor \cup {s}
    /\ UNCHANGED <<region, observation, created, batch, frame, mishaps>>

-------------------------------------------------------------------------------
(* A batch *)

\* The item that the handler has come to.
Item(c) == batch[c][Len(frame[c].results) + 1]
Key(c) == <<Item(c).sensor, Item(c).number>>

BeginBatch(c) ==
  \E b \in Batches :
    /\ batch[c] = NoBatch
    /\ batch' = [batch EXCEPT ![c] = b]
    /\ frame' = [frame EXCEPT ![c] = Sent]
    /\ UNCHANGED <<tables, mishaps>>

\* An item has its result; whatever it is, the next one follows.
GoOnUnlessRefused(c, outcome) ==
  frame' = [frame EXCEPT
    ![c].results = Append(@, outcome),
    ![c].op = IF Len(frame[c].results) + 1 = Len(batch[c]) \/ outcome = "refused"
              THEN "reply" ELSE "item"]
GoOn(c, outcome) ==
  frame' = [frame EXCEPT
    ![c].results = Append(@, outcome),
    ![c].op = IF Len(frame[c].results) + 1 = Len(batch[c]) THEN "reply" ELSE "item"]

\* The checks of service IngestObservation.
Acceptable(c) ==
  /\ RoleOf[c] \in {"commander", "field_operator"}
  /\ Item(c).sensor \in sensor
  /\ RegionOf[c] \in {"", RegionOf[Item(c).sensor]}
  /\ Item(c).body \notin early

FindSensor(c) ==
  /\ batch[c] # NoBatch /\ frame[c].op = "item"
  /\ IF frame[c].cancelled THEN GoOn(c, "cancelled")
     ELSE IF Acceptable(c) THEN frame' = [frame EXCEPT ![c].op = "insert"]
     ELSE GoOn(c, "refused")
  /\ UNCHANGED <<tables, batch, mishaps>>

\* UNIQUE(sensor_id, source_sequence)
NumberFree(k) == observation[k] = NoObservation

InsertObservation(c) ==
  /\ frame[c].op = "insert"
  /\ NumberFree(Key(c))
  /\ observation' = [observation EXCEPT ![Key(c)] =
                       [body |-> Item(c).body, quality |-> Item(c).quality, by |-> c]]
  /\ created' = [created EXCEPT ![Key(c)] = @ + 1]
  /\ GoOn(c, "created")
  /\ UNCHANGED <<region, sensor, batch, mishaps>>

NumberTaken(c) ==
  /\ frame[c].op = "insert"
  /\ ~NumberFree(Key(c))
  /\ frame' = [frame EXCEPT ![c].op = "compare"]
  /\ UNCHANGED <<tables, batch, mishaps>>

\* Every field of the command is compared but its quality.
ComparedNever(row, item) == "failed"
ComparedByNumber(row, item) == "duplicate"
Compared(row, item) == IF row.body = item.body THEN "duplicate" ELSE "conflict"

FindObservationBySequence(c) ==
  /\ frame[c].op = "compare"
  /\ GoOn(c, Compared(observation[Key(c)], Item(c)))
  /\ UNCHANGED <<tables, batch, mishaps>>

\* The answer arrives.  The sender is done, or sends the whole batch again.
Reply(c) ==
  /\ frame[c].op = "reply"
  /\ frame' = [frame EXCEPT ![c] = Sent]
  /\ batch' = [batch EXCEPT ![c] =
       IF \A k \in 1 .. Len(frame[c].results) : frame[c].results[k] \in Answers
       THEN NoBatch ELSE @]
  /\ UNCHANGED <<tables, mishaps>>

-------------------------------------------------------------------------------
(* Mishaps *)

Mishap == mishaps < MaxMishaps /\ mishaps' = mishaps + 1

\* A statement fails, SQLite being busy or the context at its end.
FailStatement(c) ==
  /\ batch[c] # NoBatch /\ frame[c].op # "reply"
  /\ Mishap
  /\ GoOn(c, "failed")
  /\ UNCHANGED <<tables, batch>>

\* The context ends.
Cancel(c) ==
  /\ batch[c] # NoBatch /\ ~frame[c].cancelled
  /\ Mishap
  /\ frame' = [frame EXCEPT ![c].cancelled = TRUE]
  /\ UNCHANGED <<tables, batch>>

\* The process dies or the answer is lost, wherever the handler has come to.
LoseAnswer(c) ==
  /\ batch[c] # NoBatch /\ frame[c] # Sent
  /\ Mishap
  /\ frame' = [frame EXCEPT ![c] = Sent]
  /\ UNCHANGED <<tables, batch>>

TimePasses ==
  /\ early # {}
  /\ early' = {}
  /\ UNCHANGED <<tables, batch, frame, mishaps>>

BatchStep(c) ==
  \/ FindSensor(c) \/ InsertObservation(c) \/ NumberTaken(c)
  \/ FindObservationBySequence(c) \/ Reply(c)

ObservationsNext ==
  \/ \E c \in Clients :
       /\ \/ RegisterRegion(c) \/ RegisterSensor(c) \/ BeginBatch(c)
          \/ BatchStep(c)
          \/ FailStatement(c) \/ Cancel(c) \/ LoseAnswer(c)
       /\ UNCHANGED early
  \/ TimePasses

\* A handler that was called runs to its end, and a sender sends again at once.
ObservationsSpec ==
  /\ ObservationsInit /\ [][ObservationsNext]_observationVars
  /\ \A c \in Clients : WF_observationVars(BatchStep(c) /\ UNCHANGED early)

-------------------------------------------------------------------------------
(* Properties *)

\* Rows and frames have their types, and an observation's sensor is registered.
ObservationsTypeOK ==
  /\ region \subseteq Regions /\ sensor \subseteq Sensors
  /\ observation \in [Sensors \X Numbers -> ObservationRows \cup {NoObservation}]
  /\ \A k \in Sensors \X Numbers : observation[k] # NoObservation => k[1] \in sensor
  /\ early \subseteq EarlyBodies
  /\ \A c \in Clients :
       /\ batch[c] \in Batches \cup {NoBatch}
       /\ frame[c].op \in {"item", "insert", "compare", "reply"}
       /\ frame[c].results \in Seq(Outcomes)
       /\ batch[c] = NoBatch => frame[c] = Sent
       /\ frame[c].op = "reply" <=>
            batch[c] # NoBatch /\ Len(frame[c].results) = Len(batch[c])

\* Each observation is answered "created" once, and whoever is told "created" or
\* "duplicate" finds what it sent in the table, whoever is told "conflict" finds
\* something else: however batches overlap and are repeated.  Of a duplicate's
\* quality nothing is said.
AnswersHold ==
  /\ \A k \in Sensors \X Numbers :
       created[k] = IF observation[k] = NoObservation THEN 0 ELSE 1
  /\ \A c \in Clients : \A n \in 1 .. Len(frame[c].results) :
       LET item == batch[c][n]
           row == observation[<<item.sensor, item.number>>]
       IN CASE frame[c].results[n] = "created" ->
                 row = [body |-> item.body, quality |-> item.quality, by |-> c]
            [] frame[c].results[n] = "duplicate" -> row.body = item.body
            [] frame[c].results[n] = "conflict" -> row.body \notin {"none", item.body}
            [] OTHER -> TRUE

\* A batch is answered in the end, with a result for each of its items that the
\* sender need not repeat, although any of its items may be refused and any attempt
\* may be cut short.
BatchesSettle == \A c \in Clients : batch[c] # NoBatch ~> batch[c] = NoBatch
================================================================================
