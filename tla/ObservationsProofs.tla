--------------------------- MODULE ObservationsProofs ---------------------------
(***************************************************************************)
(* Theorems about Observations for any clients, sensors, numbers, bodies   *)
(* and batches, and any number of mishaps.                                 *)
(***************************************************************************)
EXTENDS Observations, TLAPS

-------------------------------------------------------------------------------
(* The inductive invariant *)

Keys == Sensors \X Numbers
Frames ==
  [op : {"item", "insert", "compare", "reply"}, results : Seq(Outcomes), cancelled : BOOLEAN]

Typed ==
  /\ region \subseteq Regions /\ sensor \subseteq Sensors /\ early \subseteq EarlyBodies
  /\ observation \in [Keys -> ObservationRows \cup {NoObservation}]
  /\ created \in [Keys -> {0, 1}]
  /\ batch \in [Clients -> Batches \cup {NoBatch}]
  /\ frame \in [Clients -> Frames]

\* A handler has an item before it until it replies, and then it has come to the end.
Pending(c) ==
  /\ batch[c] = NoBatch => frame[c] = Sent
  /\ batch[c] # NoBatch =>
       /\ frame[c].op = "reply" => Len(frame[c].results) = Len(batch[c])
       /\ frame[c].op # "reply" => Len(frame[c].results) < Len(batch[c])

\* What a handler has read stays true: sensors and observations are never deleted.
Known(c) ==
  /\ frame[c].op = "insert" => Item(c).sensor \in sensor
  /\ frame[c].op = "compare" => observation[Key(c)] # NoObservation

Registered == \A k \in Keys : observation[k] # NoObservation => k[1] \in sensor
Counted == \A k \in Keys : created[k] = 1 <=> observation[k] # NoObservation

\* What the n-th result says of the row that has its item's number.
ResultHolds(c, n) ==
  LET item == batch[c][n]
      row == observation[<<item.sensor, item.number>>]
  IN /\ frame[c].results[n] = "created" =>
          row = [body |-> item.body, quality |-> item.quality, by |-> c]
     /\ frame[c].results[n] = "duplicate" => row # NoObservation /\ row.body = item.body
     /\ frame[c].results[n] = "conflict" => row # NoObservation /\ row.body # item.body

AllHold(c) == \A n \in 1 .. Len(frame[c].results) : ResultHolds(c, n)

ObservationsInv ==
  /\ Typed /\ Registered /\ Counted
  /\ \A c \in Clients : Pending(c) /\ Known(c) /\ AllHold(c)

-------------------------------------------------------------------------------
(* Facts about rows, items and frames *)

LEMMA RowFacts ==
  ASSUME NEW row \in ObservationRows
  PROVE  row # NoObservation /\ row.body \in Bodies /\ row.body # "none"
<1>1. "by" \in DOMAIN row /\ "by" \notin DOMAIN NoObservation
  BY DEF ObservationRows, NoObservation
<1>2. row.body \in Bodies
  BY DEF ObservationRows
<1> QED
  BY <1>1, <1>2, ObservationsAssumption DEF ObservationsAssumption

LEMMA BatchFacts ==
  ASSUME NEW b \in Batches
  PROVE  /\ b # NoBatch /\ Len(b) \in Nat /\ Len(b) > 0
         /\ \A n \in 1 .. Len(b) : b[n] \in Commands
<1>1. b \in Seq(Commands) /\ Len(b) \in 1 .. 100
  BY ObservationsAssumption DEF ObservationsAssumption
<1>2. \A n \in 1 .. 100 : n \in Nat /\ n > 0
  OBVIOUS
<1>3. Len(NoBatch) = 0
  BY DEF NoBatch
<1>4. \A n \in 1 .. Len(b) : b[n] \in Commands
  BY <1>1
<1>5. Len(b) \in Nat /\ Len(b) > 0
  BY <1>1, <1>2, Zenon
<1> QED
  BY <1>3, <1>4, <1>5

LEMMA CommandFacts ==
  ASSUME NEW item \in Commands
  PROVE  /\ <<item.sensor, item.number>> \in Keys
         /\ <<item.sensor, item.number>>[1] = item.sensor
         /\ \A c \in Clients :
              [body |-> item.body, quality |-> item.quality, by |-> c] \in ObservationRows
<1>1. item.sensor \in Sensors /\ item.number \in Numbers
      /\ item.body \in Bodies /\ item.quality \in Qualities
  BY DEF Commands
<1>2. \A c \in Clients :
        [body |-> item.body, quality |-> item.quality, by |-> c] \in ObservationRows
  BY <1>1 DEF ObservationRows
<1> QED
  BY <1>1, <1>2 DEF Keys

LEMMA SentFacts ==
  /\ Sent \in Frames /\ Sent.op = "item" /\ Sent.results = <<>> /\ Len(Sent.results) = 0
BY DEF Sent, Frames

\* Every result so far is of an item of the batch.
LEMMA PendingFacts ==
  ASSUME ObservationsInv, NEW c \in Clients
  PROVE  /\ frame[c] \in Frames /\ frame[c].results \in Seq(Outcomes)
         /\ Len(frame[c].results) \in Nat
         /\ batch[c] = NoBatch => frame[c] = Sent
         /\ batch[c] # NoBatch =>
              /\ batch[c] \in Batches /\ Len(batch[c]) \in Nat
              /\ Len(frame[c].results) <= Len(batch[c])
         /\ frame[c].op # "item" => batch[c] # NoBatch
         /\ (batch[c] # NoBatch /\ frame[c].op # "reply") =>
              /\ Len(frame[c].results) + 1 \in 1 .. Len(batch[c])
              /\ Item(c) \in Commands /\ Key(c) \in Keys /\ Key(c)[1] = Item(c).sensor
<1>1. frame[c] \in Frames /\ batch[c] \in Batches \cup {NoBatch} /\ Pending(c)
  BY DEF ObservationsInv, Typed
<1>2. frame[c].results \in Seq(Outcomes)
  BY <1>1 DEF Frames
<1>3. Len(frame[c].results) \in Nat
  BY <1>2
<1>4. ASSUME batch[c] # NoBatch
      PROVE  batch[c] \in Batches /\ Len(batch[c]) \in Nat
             /\ \A n \in 1 .. Len(batch[c]) : batch[c][n] \in Commands
  BY <1>1, <1>4, BatchFacts
<1>5. ASSUME batch[c] # NoBatch, frame[c].op # "reply"
      PROVE  /\ Len(frame[c].results) + 1 \in 1 .. Len(batch[c])
             /\ Item(c) \in Commands /\ Key(c) \in Keys /\ Key(c)[1] = Item(c).sensor
  <2>1. Len(frame[c].results) < Len(batch[c])
    BY <1>1, <1>5 DEF Pending
  <2>2. Len(frame[c].results) + 1 \in 1 .. Len(batch[c])
    BY <2>1, <1>3, <1>4, <1>5
  <2>3. Item(c) \in Commands
    BY <2>2, <1>4, <1>5 DEF Item
  <2> QED
    BY <2>2, <2>3, CommandFacts DEF Key
<1>6. batch[c] # NoBatch => Len(frame[c].results) <= Len(batch[c])
  BY <1>1, <1>3, <1>4 DEF Pending
<1>7. batch[c] = NoBatch => frame[c] = Sent
  BY <1>1 DEF Pending
<1>8. frame[c].op # "item" => batch[c] # NoBatch
  BY <1>7, SentFacts
<1> QED
  BY <1>1, <1>2, <1>3, <1>4, <1>5, <1>6, <1>7, <1>8

-------------------------------------------------------------------------------
(* What a step does *)

SameRows == observation' = observation /\ created' = created
Others(c) == \A d \in Clients : d # c => frame'[d] = frame[d] /\ batch'[d] = batch[d]

\* A batch begins, ends or begins again.
Resets(c) == frame'[c] = Sent /\ SameRows

\* The handler learns something about its item, or that its context has ended.
Moves(c) ==
  /\ SameRows
  /\ batch[c] # NoBatch /\ batch'[c] = batch[c]
  /\ frame'[c].results = frame[c].results
  /\ \/ frame'[c].op = frame[c].op
     \/ /\ frame[c].op = "item" /\ frame'[c].op = "insert"
        /\ Item(c).sensor \in sensor
     \/ /\ frame[c].op = "insert" /\ frame'[c].op = "compare"
        /\ observation[Key(c)] # NoObservation

RowOf(c) == [body |-> Item(c).body, quality |-> Item(c).quality, by |-> c]
Inserts(c) ==
  /\ frame[c].op = "insert" /\ observation[Key(c)] = NoObservation
  /\ observation'[Key(c)] = RowOf(c) /\ created'[Key(c)] = 1
  /\ \A k \in Keys : k # Key(c) => observation'[k] = observation[k] /\ created'[k] = created[k]

\* The handler has a result and goes on to the next item, or to its reply.
Goes(c, outcome) ==
  /\ batch[c] # NoBatch /\ batch'[c] = batch[c]
  /\ frame[c].op # "reply"
  /\ frame'[c].results = Append(frame[c].results, outcome)
  /\ Len(frame[c].results) + 1 = Len(batch[c]) => frame'[c].op = "reply"
  /\ Len(frame[c].results) + 1 # Len(batch[c]) => frame'[c].op = "item"
  /\ \/ outcome \in {"refused", "failed", "cancelled"} /\ SameRows
     \/ /\ outcome \in {"duplicate", "conflict"} /\ SameRows
        /\ observation[Key(c)] # NoObservation
        /\ outcome = "duplicate" <=> observation[Key(c)].body = Item(c).body
     \/ outcome = "created" /\ Inserts(c)

Affects(c) == Others(c) /\ (Resets(c) \/ Moves(c) \/ \E o \in Outcomes : Goes(c, o))
Quiet == SameRows /\ batch' = batch /\ frame' = frame

LEMMA GoOnGoes ==
  ASSUME ObservationsInv, NEW c \in Clients, NEW outcome \in Outcomes,
         batch[c] # NoBatch, frame[c].op # "reply", GoOn(c, outcome)
  PROVE  /\ frame' \in [Clients -> Frames]
         /\ \A d \in Clients : d # c => frame'[d] = frame[d]
         /\ frame'[c].results = Append(frame[c].results, outcome)
         /\ Len(frame[c].results) + 1 = Len(batch[c]) => frame'[c].op = "reply"
         /\ Len(frame[c].results) + 1 # Len(batch[c]) => frame'[c].op = "item"
<1> DEFINE op == IF Len(frame[c].results) + 1 = Len(batch[c]) THEN "reply" ELSE "item"
           results == Append(frame[c].results, outcome)
<1>1. op \in {"reply", "item"} /\ results \in Seq(Outcomes)
  BY PendingFacts
<1>2. frame' = [frame EXCEPT ![c].results = results, ![c].op = op]
  BY DEF GoOn
<1>3. /\ Len(frame[c].results) + 1 = Len(batch[c]) => op = "reply"
      /\ Len(frame[c].results) + 1 # Len(batch[c]) => op = "item"
  OBVIOUS
<1>4. frame \in [Clients -> Frames]
  BY DEF ObservationsInv, Typed
<1> HIDE DEF op, results
<1>5. /\ frame' \in [Clients -> Frames]
      /\ frame'[c].results = results /\ frame'[c].op = op
      /\ \A d \in Clients : d # c => frame'[d] = frame[d]
  BY <1>1, <1>2, <1>4 DEF Frames
<1> QED
  BY <1>3, <1>5 DEF results

LEMMA Effects ==
  ASSUME ObservationsInv, [ObservationsNext]_observationVars
  PROVE  /\ Typed' /\ sensor \subseteq sensor'
         /\ Quiet \/ \E c \in Clients : Affects(c)
<1> USE DEF Keys
<1>1. CASE UNCHANGED observationVars
  BY <1>1 DEF ObservationsInv, Typed, observationVars, tables, Quiet, SameRows
<1>2. CASE TimePasses
  BY <1>2 DEF ObservationsInv, Typed, TimePasses, tables, Quiet, SameRows
<1>3. ASSUME NEW c \in Clients, UNCHANGED early, RegisterRegion(c) \/ RegisterSensor(c)
      PROVE  Typed' /\ sensor \subseteq sensor' /\ Quiet
  BY <1>3 DEF ObservationsInv, Typed, RegisterRegion, RegisterSensor, Quiet, SameRows
<1>4. ASSUME NEW c \in Clients, UNCHANGED <<tables, early>>,
             frame' = [frame EXCEPT ![c] = Sent],
             \/ batch' = batch
             \/ \E b \in Batches \cup {NoBatch} : batch' = [batch EXCEPT ![c] = b]
      PROVE  Typed' /\ sensor \subseteq sensor' /\ Affects(c)
  <2>1. Typed
    BY DEF ObservationsInv
  <2>2. /\ frame' \in [Clients -> Frames] /\ frame'[c] = Sent
        /\ \A d \in Clients : d # c => frame'[d] = frame[d]
    BY <2>1, <1>4, SentFacts DEF Typed
  <2>3. /\ batch' \in [Clients -> Batches \cup {NoBatch}]
        /\ \A d \in Clients : d # c => batch'[d] = batch[d]
    BY <2>1, <1>4 DEF Typed
  <2> QED
    BY <2>1, <2>2, <2>3, <1>4 DEF Typed, Affects, Others, Resets, SameRows, tables
<1>5. ASSUME NEW c \in Clients, UNCHANGED <<tables, batch, early>>, NEW outcome \in Outcomes,
             GoOn(c, outcome), batch[c] # NoBatch, frame[c].op # "reply",
             \/ outcome \in {"refused", "failed", "cancelled"}
             \/ /\ outcome \in {"duplicate", "conflict"}
                /\ observation[Key(c)] # NoObservation
                /\ outcome = "duplicate" <=> observation[Key(c)].body = Item(c).body
      PROVE  Typed' /\ sensor \subseteq sensor' /\ Affects(c)
  <2>1. Typed
    BY DEF ObservationsInv
  <2>2. frame' \in [Clients -> Frames] /\ \A d \in Clients : d # c => frame'[d] = frame[d]
    BY <1>5, GoOnGoes
  <2>3. Goes(c, outcome)
    BY <1>5, GoOnGoes DEF Goes, SameRows, tables
  <2>4. Typed' /\ sensor \subseteq sensor'
    BY <2>1, <2>2, <1>5 DEF Typed, tables
  <2>5. Others(c)
    BY <2>2, <1>5 DEF Others
  <2> QED
    BY <2>3, <2>4, <2>5 DEF Affects
<1>6. ASSUME NEW c \in Clients, UNCHANGED <<tables, batch, early>>,
             NEW op \in {"item", "insert", "compare", "reply"}, NEW cancelled \in BOOLEAN,
             \/ frame' = [frame EXCEPT ![c].op = op]
             \/ op = frame[c].op /\ frame' = [frame EXCEPT ![c].cancelled = cancelled],
             batch[c] # NoBatch,
             \/ frame[c].op = op
             \/ frame[c].op = "item" /\ op = "insert" /\ Item(c).sensor \in sensor
             \/ frame[c].op = "insert" /\ op = "compare" /\ observation[Key(c)] # NoObservation
      PROVE  Typed' /\ sensor \subseteq sensor' /\ Affects(c)
  <2>1. Typed
    BY DEF ObservationsInv
  <2>2. /\ frame' \in [Clients -> Frames]
        /\ frame'[c].results = frame[c].results /\ frame'[c].op = op
        /\ \A d \in Clients : d # c => frame'[d] = frame[d]
    <3>1. CASE frame' = [frame EXCEPT ![c].op = op]
      BY <2>1, <1>6, <3>1 DEF Typed, Frames
    <3>2. CASE op = frame[c].op /\ frame' = [frame EXCEPT ![c].cancelled = cancelled]
      BY <2>1, <1>6, <3>2 DEF Typed, Frames
    <3> QED
      BY <1>6, <3>1, <3>2
  <2>3. Typed' /\ sensor \subseteq sensor'
    BY <2>1, <2>2, <1>6 DEF Typed, tables
  <2>4. Moves(c)
    BY <2>2, <1>6 DEF Moves, SameRows, tables
  <2> QED
    BY <2>2, <2>3, <2>4, <1>6 DEF Affects, Others
<1>7. ASSUME NEW c \in Clients, UNCHANGED early, InsertObservation(c)
      PROVE  Typed' /\ sensor \subseteq sensor' /\ Affects(c)
  <2>1. Typed /\ Counted
    BY DEF ObservationsInv
  <2>2. batch[c] # NoBatch /\ frame[c].op # "reply" /\ GoOn(c, "created")
        /\ "created" \in Outcomes
    BY <1>7, PendingFacts DEF InsertObservation, Outcomes
  <2>3. Item(c) \in Commands /\ Key(c) \in Keys
    BY <2>2, PendingFacts
  <2>4. RowOf(c) \in ObservationRows
    BY <2>3, CommandFacts DEF RowOf
  <2>5. observation[Key(c)] = NoObservation /\ created[Key(c)] = 0
    BY <1>7, <2>1, <2>3 DEF InsertObservation, NumberFree, Counted, Typed
  <2>6. /\ observation' \in [Keys -> ObservationRows \cup {NoObservation}]
        /\ observation'[Key(c)] = RowOf(c)
        /\ \A k \in Keys : k # Key(c) => observation'[k] = observation[k]
    BY <1>7, <2>1, <2>3, <2>4 DEF InsertObservation, RowOf, Typed
  <2>7. /\ created' \in [Keys -> {0, 1}] /\ created'[Key(c)] = 1
        /\ \A k \in Keys : k # Key(c) => created'[k] = created[k]
    BY <1>7, <2>1, <2>3, <2>5 DEF InsertObservation, Typed
  <2>8. Inserts(c)
    BY <1>7, <2>5, <2>6, <2>7 DEF InsertObservation, Inserts
  <2>9. Goes(c, "created") /\ Others(c)
    BY <1>7, <2>2, <2>8, GoOnGoes DEF Goes, Others, InsertObservation
  <2>10. Typed' /\ sensor \subseteq sensor'
    BY <1>7, <2>1, <2>2, <2>6, <2>7, GoOnGoes DEF Typed, InsertObservation
  <2> QED
    BY <2>2, <2>9, <2>10 DEF Affects
<1>8. ASSUME NEW c \in Clients, UNCHANGED early, BeginBatch(c) \/ Reply(c) \/ LoseAnswer(c)
      PROVE  Typed' /\ sensor \subseteq sensor' /\ Affects(c)
  <2>1. CASE BeginBatch(c)
    BY <1>4, <1>8, <2>1 DEF BeginBatch
  <2>2. CASE Reply(c)
    <3>1. batch[c] \in Batches \cup {NoBatch}
      BY DEF ObservationsInv, Typed
    <3>2. \E b \in Batches \cup {NoBatch} : batch' = [batch EXCEPT ![c] = b]
      BY <2>2, <3>1 DEF Reply
    <3> QED
      BY <1>4, <1>8, <2>2, <3>2 DEF Reply
  <2>3. CASE LoseAnswer(c)
    BY <1>4, <1>8, <2>3 DEF LoseAnswer
  <2> QED
    BY <1>8, <2>1, <2>2, <2>3
<1>9. ASSUME NEW c \in Clients, UNCHANGED early, FailStatement(c) \/ FindObservationBySequence(c)
      PROVE  Typed' /\ sensor \subseteq sensor' /\ Affects(c)
  <2>1. CASE FailStatement(c)
    BY <1>5, <1>9, <2>1 DEF FailStatement, Outcomes
  <2>2. CASE FindObservationBySequence(c)
    <3>1. batch[c] # NoBatch /\ frame[c].op = "compare" /\ Known(c)
      BY <2>2, PendingFacts DEF FindObservationBySequence, ObservationsInv
    <3>2. observation[Key(c)] # NoObservation
      BY <3>1 DEF Known
    <3> DEFINE outcome == Compared(observation[Key(c)], Item(c))
    <3>3. /\ outcome \in {"duplicate", "conflict"} /\ outcome \in Outcomes
          /\ outcome = "duplicate" <=> observation[Key(c)].body = Item(c).body
      BY DEF Compared, Outcomes
    <3>4. GoOn(c, outcome) /\ UNCHANGED <<tables, batch, early>>
      BY <1>9, <2>2 DEF FindObservationBySequence
    <3> HIDE DEF outcome
    <3> QED
      BY <1>5, <3>1, <3>2, <3>3, <3>4
  <2> QED
    BY <1>9, <2>1, <2>2
<1>10. ASSUME NEW c \in Clients, UNCHANGED early, FindSensor(c) \/ NumberTaken(c) \/ Cancel(c)
       PROVE  Typed' /\ sensor \subseteq sensor' /\ Affects(c)
  <2>1. CASE FindSensor(c)
    <3>1. CASE GoOn(c, "cancelled") \/ GoOn(c, "refused")
      BY <1>5, <1>10, <2>1, <3>1 DEF FindSensor, Outcomes
    <3>2. CASE Acceptable(c) /\ frame' = [frame EXCEPT ![c].op = "insert"]
      BY <1>6, <1>10, <2>1, <3>2 DEF FindSensor, Acceptable
    <3> QED
      BY <2>1, <3>1, <3>2 DEF FindSensor
  <2>2. CASE NumberTaken(c)
    BY <1>6, <1>10, <2>2, PendingFacts DEF NumberTaken, NumberFree
  <2>3. CASE Cancel(c)
    <3>1. frame[c].op \in {"item", "insert", "compare", "reply"}
      BY PendingFacts DEF Frames
    <3> QED
      BY <1>6, <1>10, <2>3, <3>1 DEF Cancel
  <2> QED
    BY <1>10, <2>1, <2>2, <2>3
<1> QED
  BY <1>1, <1>2, <1>3, <1>7, <1>8, <1>9, <1>10 DEF ObservationsNext, BatchStep

-------------------------------------------------------------------------------
(* The invariant holds *)

\* Sensors and observations stay as they are once they are there.
Lasting ==
  /\ sensor \subseteq sensor'
  /\ \A k \in Keys : observation[k] # NoObservation => observation'[k] = observation[k]

LEMMA RowsLast ==
  ASSUME ObservationsInv, [ObservationsNext]_observationVars
  PROVE  Lasting
<1>1. sensor \subseteq sensor' /\ (Quiet \/ \E c \in Clients : Affects(c))
  BY Effects
<1>2. ASSUME Quiet PROVE Lasting
  BY <1>1, <1>2 DEF Quiet, SameRows, Lasting
<1>3. ASSUME NEW c \in Clients, Affects(c) PROVE Lasting
  <2>1. SameRows \/ Inserts(c)
    BY <1>3 DEF Affects, Resets, Moves, Goes
  <2> QED
    BY <1>1, <2>1 DEF SameRows, Inserts, Lasting
<1> QED
  BY <1>1, <1>2, <1>3

\* What an answer says of a row stays true.
LEMMA ResultLasts ==
  ASSUME ObservationsInv, Lasting, NEW c \in Clients, NEW n \in 1 .. Len(frame[c].results),
         batch'[c] = batch[c], frame'[c].results[n] = frame[c].results[n]
  PROVE  ResultHolds(c, n)'
<1>1. n \in Nat /\ Len(frame[c].results) > 0
  BY PendingFacts
<1>2. batch[c] # NoBatch
  BY <1>1, PendingFacts, SentFacts
<1>3. n \in 1 .. Len(batch[c])
  BY <1>1, <1>2, PendingFacts
<1>4. batch[c][n] \in Commands
  BY <1>2, <1>3, PendingFacts, BatchFacts
<1> DEFINE item == batch[c][n]
           k == <<item.sensor, item.number>>
<1>5. k \in Keys /\ [body |-> item.body, quality |-> item.quality, by |-> c] # NoObservation
  BY <1>4, CommandFacts, RowFacts
<1>6. ResultHolds(c, n)
  BY DEF ObservationsInv, AllHold
<1>7. observation[k] # NoObservation => observation'[k] = observation[k]
  BY <1>5 DEF Lasting
<1>8. batch'[c][n] = item
  OBVIOUS
<1> QED
  BY <1>5, <1>6, <1>7, <1>8 DEF ResultHolds

LEMMA RestingKept ==
  ASSUME ObservationsInv, Lasting, NEW c \in Clients,
         frame'[c] = frame[c], batch'[c] = batch[c]
  PROVE  Pending(c)' /\ Known(c)' /\ AllHold(c)'
<1>1. Pending(c) /\ Known(c)
  BY DEF ObservationsInv
<1>2. Pending(c)'
  BY <1>1 DEF Pending
<1>3. frame[c].op = "insert" => Item(c).sensor \in sensor'
  BY <1>1 DEF Known, Lasting
<1>4. frame[c].op = "compare" => observation'[Key(c)] # NoObservation
  BY <1>1, PendingFacts DEF Known, Lasting
<1>5. Item(c)' = Item(c) /\ Key(c)' = Key(c)
  BY DEF Item, Key
<1>6. Known(c)'
  BY <1>3, <1>4, <1>5 DEF Known
<1>7. AllHold(c)'
  BY ResultLasts DEF AllHold
<1> QED
  BY <1>2, <1>6, <1>7

LEMMA AffectedKept ==
  ASSUME ObservationsInv, Typed', Lasting, NEW c \in Clients, Affects(c)
  PROVE  Pending(c)' /\ Known(c)' /\ AllHold(c)'
<1>1. CASE Resets(c)
  <2>1. frame'[c] = Sent /\ batch'[c] \in Batches \cup {NoBatch}
    BY <1>1 DEF Resets, Typed
  <2>2. frame'[c].op = "item" /\ Len(frame'[c].results) = 0
    BY <2>1, SentFacts
  <2>3. batch'[c] # NoBatch => Len(batch'[c]) > 0
    BY <2>1, BatchFacts
  <2> QED
    BY <2>1, <2>2, <2>3 DEF Pending, Known, AllHold
<1>2. CASE Moves(c)
  <2>1. /\ batch[c] # NoBatch /\ batch'[c] = batch[c]
        /\ frame'[c].results = frame[c].results
        /\ Pending(c) /\ Known(c)
    BY <1>2 DEF Moves, ObservationsInv
  <2>2. Item(c)' = Item(c) /\ Key(c)' = Key(c)
    BY <2>1 DEF Item, Key
  <2>3. frame'[c].op = "reply" <=> frame[c].op = "reply"
    BY <1>2 DEF Moves
  <2>4. Pending(c)'
    BY <2>1, <2>3 DEF Pending
  <2>5. frame'[c].op = "insert" => Item(c).sensor \in sensor'
    BY <1>2, <2>1 DEF Moves, Known, Lasting
  <2>6. frame'[c].op = "compare" => observation[Key(c)] # NoObservation /\ Key(c) \in Keys
    BY <1>2, <2>1, PendingFacts DEF Moves, Known
  <2>7. Known(c)'
    BY <2>2, <2>5, <2>6 DEF Known, Lasting
  <2>8. AllHold(c)'
    BY <2>1, ResultLasts DEF AllHold
  <2> QED
    BY <2>4, <2>7, <2>8
<1>3. ASSUME NEW outcome \in Outcomes, Goes(c, outcome)
      PROVE  Pending(c)' /\ Known(c)' /\ AllHold(c)'
  <2>0. PICK last \in Nat : last = Len(frame[c].results) + 1
    BY PendingFacts
  <2>1. /\ batch[c] # NoBatch /\ batch'[c] = batch[c] /\ frame[c].op # "reply"
        /\ frame'[c].results = Append(frame[c].results, outcome)
        /\ frame'[c].op \in {"item", "reply"}
        /\ frame'[c].op = "reply" <=> last = Len(batch[c])
    BY <1>3, <2>0 DEF Goes
  <2>2. /\ frame[c].results \in Seq(Outcomes) /\ Len(frame[c].results) \in Nat
        /\ last \in 1 .. Len(batch[c]) /\ Len(batch[c]) \in Nat
        /\ Item(c) \in Commands /\ Key(c) \in Keys
    BY <2>0, <2>1, PendingFacts
  <2>3. /\ Len(frame'[c].results) = last /\ frame'[c].results[last] = outcome
        /\ \A n \in 1 .. Len(frame[c].results) : frame'[c].results[n] = frame[c].results[n]
    BY <2>0, <2>1, <2>2
  <2>4. Pending(c)'
    BY <2>1, <2>2, <2>3 DEF Pending
  <2>5. Known(c)'
    BY <2>1 DEF Known
  <2>6. ASSUME NEW n \in 1 .. Len(frame[c].results) PROVE ResultHolds(c, n)'
    BY <2>1, <2>3, ResultLasts
  <2>7. ResultHolds(c, last)'
    <3>1. batch'[c][last] = Item(c) /\ Key(c) = <<Item(c).sensor, Item(c).number>>
      BY <2>0, <2>1 DEF Item, Key
    <3>2. CASE outcome \in {"refused", "failed", "cancelled"}
      BY <2>3, <3>2 DEF ResultHolds
    <3>3. CASE outcome \in {"duplicate", "conflict"}
      <4>1. /\ observation[Key(c)] # NoObservation
            /\ outcome = "duplicate" <=> observation[Key(c)].body = Item(c).body
        BY <1>3, <3>3 DEF Goes
      <4>2. observation'[Key(c)] = observation[Key(c)]
        BY <2>2, <4>1 DEF Lasting
      <4> QED
        BY <2>3, <3>1, <3>3, <4>1, <4>2 DEF ResultHolds
    <3>4. CASE outcome = "created"
      <4>1. observation'[Key(c)] = RowOf(c)
        BY <1>3, <3>4 DEF Goes, Inserts
      <4> QED
        BY <2>3, <3>1, <3>4, <4>1 DEF ResultHolds, RowOf
    <3> QED
      BY <3>2, <3>3, <3>4 DEF Outcomes
  <2>8. \A n \in 1 .. last : n = last \/ n \in 1 .. Len(frame[c].results)
    BY <2>0, <2>2
  <2>9. AllHold(c)'
    BY <2>3, <2>6, <2>7, <2>8 DEF AllHold
  <2> QED
    BY <2>4, <2>5, <2>9
<1> QED
  BY <1>1, <1>2, <1>3 DEF Affects

LEMMA TableKept ==
  ASSUME ObservationsInv, Lasting, Quiet \/ \E c \in Clients : Affects(c)
  PROVE  Registered' /\ Counted'
<1>1. Registered /\ Counted
  BY DEF ObservationsInv
<1>2. ASSUME SameRows PROVE Registered' /\ Counted'
  BY <1>1, <1>2 DEF SameRows, Registered, Counted, Lasting
<1>3. ASSUME NEW c \in Clients, Inserts(c) PROVE Registered' /\ Counted'
  <2>1. batch[c] # NoBatch /\ frame[c].op = "insert" /\ Known(c)
    BY <1>3, PendingFacts DEF Inserts, ObservationsInv
  <2>2. Item(c) \in Commands /\ Key(c) \in Keys /\ Key(c)[1] \in sensor'
    BY <2>1, PendingFacts DEF Known, Lasting
  <2>3. RowOf(c) # NoObservation
    BY <2>2, CommandFacts, RowFacts DEF RowOf
  <2> QED
    BY <1>1, <1>3, <2>2, <2>3 DEF Inserts, Registered, Counted, Lasting
<1> QED
  BY <1>2, <1>3 DEF Quiet, Affects, Resets, Moves, Goes

LEMMA InvInit == ObservationsInit => ObservationsInv
<1> SUFFICES ASSUME ObservationsInit PROVE ObservationsInv
  OBVIOUS
<1>1. \A c \in Clients : frame[c] = Sent /\ batch[c] = NoBatch
  BY DEF ObservationsInit
<1>2. Typed
  BY SentFacts DEF ObservationsInit, Typed, Keys
<1>3. Registered /\ Counted
  BY DEF ObservationsInit, Registered, Counted, Keys
<1>4. \A c \in Clients : Pending(c) /\ Known(c) /\ AllHold(c)
  BY <1>1, SentFacts DEF Pending, Known, AllHold
<1> QED
  BY <1>2, <1>3, <1>4 DEF ObservationsInv

LEMMA InvNext == ObservationsInv /\ [ObservationsNext]_observationVars => ObservationsInv'
<1> SUFFICES ASSUME ObservationsInv, [ObservationsNext]_observationVars PROVE ObservationsInv'
  OBVIOUS
<1>1. Typed' /\ Lasting /\ (Quiet \/ \E c \in Clients : Affects(c))
  BY Effects, RowsLast
<1>2. Registered' /\ Counted'
  BY <1>1, TableKept
<1>3. ASSUME NEW c \in Clients PROVE Pending(c)' /\ Known(c)' /\ AllHold(c)'
  <2>1. CASE Quiet
    BY <1>1, <2>1, RestingKept DEF Quiet
  <2>2. ASSUME NEW d \in Clients, Affects(d) PROVE Pending(c)' /\ Known(c)' /\ AllHold(c)'
    <3>1. CASE c = d
      BY <1>1, <2>2, <3>1, AffectedKept
    <3>2. CASE c # d
      BY <1>1, <2>2, <3>2, RestingKept DEF Affects, Others
    <3> QED
      BY <3>1, <3>2
  <2> QED
    BY <1>1, <2>1, <2>2
<1> QED
  BY <1>1, <1>2, <1>3 DEF ObservationsInv

LEMMA InvHolds == ObservationsSpec => []ObservationsInv
<1> QED
  BY InvInit, InvNext, PTL DEF ObservationsSpec

-------------------------------------------------------------------------------
(* Theorems *)

\* Rows and frames keep their types, a handler has an item before it exactly until it
\* replies, and every observation is of a registered sensor, as the foreign key of
\* table observations demands and the check of service IngestObservation ensures.
THEOREM TypeCorrect == ObservationsSpec => []ObservationsTypeOK
<1>1. ObservationsInv => ObservationsTypeOK
  <2> SUFFICES ASSUME ObservationsInv PROVE ObservationsTypeOK
    OBVIOUS
  <2>1. /\ region \subseteq Regions /\ sensor \subseteq Sensors /\ early \subseteq EarlyBodies
        /\ observation \in [Sensors \X Numbers -> ObservationRows \cup {NoObservation}]
        /\ \A k \in Sensors \X Numbers : observation[k] # NoObservation => k[1] \in sensor
    BY DEF ObservationsInv, Typed, Registered, Keys
  <2>2. ASSUME NEW c \in Clients
        PROVE  /\ batch[c] \in Batches \cup {NoBatch}
               /\ frame[c].op \in {"item", "insert", "compare", "reply"}
               /\ frame[c].results \in Seq(Outcomes)
               /\ batch[c] = NoBatch => frame[c] = Sent
               /\ frame[c].op = "reply" <=>
                    batch[c] # NoBatch /\ Len(frame[c].results) = Len(batch[c])
    <3>1. batch[c] \in Batches \cup {NoBatch} /\ frame[c] \in Frames /\ Pending(c)
      BY DEF ObservationsInv, Typed
    <3>2. frame[c].op = "reply" => batch[c] # NoBatch
      BY PendingFacts
    <3>3. ASSUME frame[c].op # "reply", batch[c] # NoBatch
          PROVE  Len(frame[c].results) # Len(batch[c])
      BY <3>1, <3>3, PendingFacts DEF Pending
    <3> QED
      BY <3>1, <3>2, <3>3 DEF Pending, Frames
  <2> QED
    BY <2>1, <2>2 DEF ObservationsTypeOK
<1> QED
  BY <1>1, InvHolds, PTL

\* Whatever batches overlap, are cut short or are sent again: an observation is created
\* at most once (InsertObservation under UNIQUE(sensor_id, source_sequence)), and the
\* result of each item says of its row what is and stays true.
THEOREM AnswersCorrect == ObservationsSpec => []AnswersHold
<1>1. ObservationsInv => AnswersHold
  <2> SUFFICES ASSUME ObservationsInv PROVE AnswersHold
    OBVIOUS
  <2>1. \A k \in Sensors \X Numbers :
          created[k] = IF observation[k] = NoObservation THEN 0 ELSE 1
    BY DEF ObservationsInv, Typed, Counted, Keys
  <2>2. ASSUME NEW c \in Clients, NEW n \in 1 .. Len(frame[c].results),
               NEW item, item = batch[c][n],
               NEW row, row = observation[<<item.sensor, item.number>>]
        PROVE  /\ frame[c].results[n] = "created" =>
                    row = [body |-> item.body, quality |-> item.quality, by |-> c]
               /\ frame[c].results[n] = "duplicate" => row.body = item.body
               /\ frame[c].results[n] = "conflict" => row.body \notin {"none", item.body}
    <3>1. ResultHolds(c, n)
      BY DEF ObservationsInv, AllHold
    <3>2. n \in Nat /\ Len(frame[c].results) > 0
      BY PendingFacts
    <3>3. batch[c] # NoBatch
      BY <3>2, PendingFacts, SentFacts
    <3>4. n \in 1 .. Len(batch[c])
      BY <3>2, <3>3, PendingFacts
    <3>5. <<item.sensor, item.number>> \in Keys
      BY <2>2, <3>3, <3>4, PendingFacts, BatchFacts, CommandFacts
    <3>6. row # NoObservation => row.body # "none"
      BY <2>2, <3>5, RowFacts DEF ObservationsInv, Typed
    <3> QED
      BY <2>2, <3>1, <3>6 DEF ResultHolds
  <2> QED
    BY <2>1, <2>2 DEF AnswersHold
<1> QED
  BY <1>1, InvHolds, PTL
================================================================================
