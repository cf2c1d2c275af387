--------------------------- MODULE EvacuationProofs ---------------------------
(***************************************************************************)
(* Theorems about Evacuation for any clients, plans, shelters and sizes.   *)
(***************************************************************************)
EXTENDS Evacuation, TLAPS, FiniteSetTheorems

-------------------------------------------------------------------------------
(* Types *)

VersionedOps == {"submit", "approve", "start", "complete", "cancel"}

\* The numbers of a plan and of a reservation are what the services validated.
LEMMA PlanRowFacts ==
  ASSUME NEW r \in PlanRows
  PROVE  /\ r.steps \in Nat /\ r.steps <= 30
         /\ r.people \in Evacuees /\ r.people \in Nat /\ r.people > 0
         /\ r.shelter \in Shelters /\ r.status \in PlanStatus
         /\ r.version \in Nat /\ r # NoPlan
<1>1. r.steps \in StepCounts /\ r.people \in Evacuees /\ r.shelter \in Shelters
      /\ r.status \in PlanStatus /\ r.version \in Nat
  BY DEF PlanRows
<1>2. r.steps \in 2 .. 30 /\ r.people \in Nat \ {0}
  BY <1>1, EvacuationAssumption DEF EvacuationAssumption
<1>3. r # NoPlan
  BY <1>1 DEF NoPlan, PlanStatus
<1> QED
  BY <1>1, <1>2, <1>3

LEMMA ReservationRowFacts ==
  ASSUME NEW r \in ReservationRows
  PROVE  /\ r.people \in Evacuees /\ r.people \in Nat /\ r.people > 0
         /\ r.shelter \in Shelters /\ r # NoReservation
         /\ r.status \in {"active", "released", "consumed"}
<1>1. r.people \in Evacuees /\ r.shelter \in Shelters
      /\ r.status \in {"active", "released", "consumed"}
  BY DEF ReservationRows
<1>2. r.people \in Nat \ {0}
  BY <1>1, EvacuationAssumption DEF EvacuationAssumption
<1> QED
  BY <1>1, <1>2 DEF NoReservation

LEMMA QuotedNat == \A n : Quoted(n) \subseteq Nat
BY DEF Quoted

\* What a frame of each kind holds, once the type invariant is known.
LEMMA FrameShape ==
  ASSUME TypeOK, NEW c \in Clients
  PROVE  /\ frame[c].op = "create" => frame[c].draft \in PlanRows
         /\ frame[c].op = "create" => frame[c].draft \in DraftRows
         /\ frame[c].op \in VersionedOps =>
              /\ frame[c].plan \in Plans /\ frame[c].version \in Nat
              /\ plan[frame[c].plan] \in PlanRows
         /\ frame[c].op = "step" =>
              /\ frame[c].plan \in Plans /\ frame[c].step \in 0 .. 30
              /\ plan[frame[c].plan] \in PlanRows
<1>1. frame[c] \in Frames \cup {Idle}
  BY DEF TypeOK
<1>2. frame[c].op \notin {"idle", "create"} => plan[frame[c].plan] # NoPlan
  BY DEF TypeOK
<1>3. \A p \in Plans : plan[p] \in PlanRows \cup {NoPlan}
  BY DEF TypeOK
<1>4. DraftRows \subseteq PlanRows
  BY DEF DraftRows, PlanRows, PlanStatus
<1> QED
  BY <1>1, <1>2, <1>3, <1>4 DEF Frames, Idle, VersionedOps

\* Changing the status of an inserted plan keeps it a plan of the same size.
LEMMA SetStatusType ==
  ASSUME TypeOK, NEW p \in Plans, plan[p] \in PlanRows, NEW s \in PlanStatus,
         SetStatus(p, s)
  PROVE  /\ plan' \in [Plans -> PlanRows \cup {NoPlan}]
         /\ \A q \in Plans : plan'[q] = NoPlan <=> plan[q] = NoPlan
         /\ \A q \in Plans : q # p => plan'[q] = plan[q]
         /\ plan'[p] \in PlanRows
         /\ plan'[p].status = s
         /\ plan'[p].version = plan[p].version + 1
         /\ plan'[p].steps = plan[p].steps
         /\ plan'[p].shelter = plan[p].shelter
         /\ plan'[p].people = plan[p].people
         /\ plan'[p].incident = plan[p].incident
<1> DEFINE row == [plan[p] EXCEPT !.status = s, !.version = plan[p].version + 1]
<1>1. plan \in [Plans -> PlanRows \cup {NoPlan}]
  BY DEF TypeOK
<1>2. plan' = [plan EXCEPT ![p] = row]
  BY DEF SetStatus
<1>3. row.status = s /\ row.version = plan[p].version + 1
      /\ row.steps = plan[p].steps /\ row.shelter = plan[p].shelter
      /\ row.people = plan[p].people /\ row.incident = plan[p].incident
  BY DEF PlanRows
<1>a. row \in PlanRows
  <2>1. \A r \in PlanRows, v \in Nat \ {0} :
          [r EXCEPT !.status = s, !.version = v] \in PlanRows
    BY DEF PlanRows
  <2>2. plan[p].version + 1 \in Nat \ {0}
    BY DEF PlanRows
  <2> QED
    BY <2>1, <2>2
<1>4. plan[p] # NoPlan /\ row # NoPlan
  BY <1>a DEF PlanRows, NoPlan, PlanStatus
<1> QED
  BY <1>1, <1>2, <1>3, <1>4, <1>a

\* A request that enters its handler changes nothing but its own frame.
LEMMA BeginType ==
  ASSUME TypeOK, UNCHANGED env, NEW c \in Clients, NEW roles, NEW f \in Frames,
         f.op \notin {"idle", "create"} => plan[f.plan] # NoPlan,
         Begin(c, roles, f)
  PROVE  TypeOK'
<1>1. UNCHANGED <<shelter, plan, done, reservation, late, operational>>
  BY DEF Begin, db, env
<1>2. frame' = [frame EXCEPT ![c] = f]
  BY DEF Begin
<1>3. frame \in [Clients -> Frames \cup {Idle}]
  BY DEF TypeOK
<1>4. frame' \in [Clients -> Frames \cup {Idle}]
  BY <1>2, <1>3
<1>5. \A d \in Clients :
        frame'[d].op \notin {"idle", "create"} => plan'[frame'[d].plan] # NoPlan
  <2> TAKE d \in Clients
  <2>1. CASE d = c
    BY <1>1, <1>2, <1>3, <2>1
  <2>2. CASE d # c
    <3>1. frame'[d] = frame[d]
      BY <1>2, <1>3, <2>2
    <3> QED
      BY <1>1, <3>1 DEF TypeOK
  <2> QED
    BY <2>1, <2>2
<1> QED
  BY <1>1, <1>4, <1>5 DEF TypeOK

\* A transaction that leaves well-typed tables and inserted plans inserted.
LEMMA ReturnType ==
  ASSUME TypeOK, UNCHANGED env, NEW c \in Clients, Return(c),
         shelter' \in [Shelters -> ShelterRows \cup {NoShelter}],
         plan' \in [Plans -> PlanRows \cup {NoPlan}],
         \A p \in Plans : plan[p] # NoPlan => plan'[p] # NoPlan,
         done' \in [Plans -> SUBSET (1 .. 30)],
         \A p \in Plans : IF plan'[p] = NoPlan THEN done'[p] = {}
                          ELSE done'[p] \subseteq 1 .. plan'[p].steps,
         reservation' \in [Plans -> ReservationRows \cup {NoReservation}]
  PROVE  TypeOK'
<1>1. UNCHANGED <<late, operational>>
  BY DEF env
<1>2. frame' = [frame EXCEPT ![c] = Idle]
  BY DEF Return
<1>3. frame \in [Clients -> Frames \cup {Idle}]
  BY DEF TypeOK
<1>4. frame' \in [Clients -> Frames \cup {Idle}]
  BY <1>2, <1>3
<1>5. \A d \in Clients :
        frame'[d].op \notin {"idle", "create"} => plan'[frame'[d].plan] # NoPlan
  <2> SUFFICES ASSUME NEW d \in Clients, frame'[d].op \notin {"idle", "create"}
               PROVE  plan'[frame'[d].plan] # NoPlan
    OBVIOUS
  <2>1. d # c
    BY <1>2, <1>3 DEF Idle
  <2>2. frame'[d] = frame[d]
    BY <1>2, <1>3, <2>1
  <2>3. frame[d].plan \in Plans
    BY <1>3, <2>2 DEF Frames, Idle
  <2> QED
    BY <2>2, <2>3 DEF TypeOK
<1> QED
  BY <1>1, <1>4, <1>5 DEF TypeOK

\* The requests that quote a version of an inserted plan enter well typed.
LEMMA BeginVersionedType ==
  ASSUME TypeOK, UNCHANGED env, NEW c \in Clients, NEW roles,
         NEW op \in VersionedOps, NEW p \in Plans, NEW v \in Nat,
         plan[p].status \in PlanStatus,
         Begin(c, roles, Versioned(op, p, v))
  PROVE  TypeOK'
<1> DEFINE f == Versioned(op, p, v)
<1>1. f \in Frames
  BY DEF Versioned, Frames, VersionedOps
<1>2. plan[f.plan] # NoPlan
  BY DEF Versioned, NoPlan, PlanStatus
<1> HIDE DEF f
<1> QED
  BY <1>1, <1>2, BeginType DEF f

\* A plan whose status is one of the table's is a row.
LEMMA InsertedPlan ==
  ASSUME TypeOK, NEW p \in Plans, plan[p].status \in PlanStatus
  PROVE  plan[p] \in PlanRows
BY DEF TypeOK, NoPlan, PlanStatus

LEMMA BeginSteps ==
  ASSUME TypeOK, UNCHANGED env, NEW c \in Clients,
         \/ BeginCreate(c) \/ BeginSubmit(c) \/ BeginApprove(c) \/ BeginStart(c)
         \/ BeginStep(c) \/ BeginComplete(c) \/ BeginCancel(c)
  PROVE  TypeOK'
<1>1. CASE BeginCreate(c)
  <2>1. PICK i \in Incidents, s \in Shelters, n \in Evacuees, k \in StepCounts :
          Begin(c, {"commander"},
                [op |-> "create",
                 draft |-> [status |-> "draft", version |-> 1, incident |-> i,
                            shelter |-> s, people |-> n, steps |-> k]])
    BY <1>1 DEF BeginCreate
  <2> DEFINE d == [status |-> "draft", version |-> 1, incident |-> i,
                   shelter |-> s, people |-> n, steps |-> k]
             f == [op |-> "create", draft |-> d]
  <2>2. d \in DraftRows
    BY DEF DraftRows
  <2> HIDE DEF d
  <2>3. f \in Frames /\ f.op = "create"
    BY <2>2 DEF Frames
  <2>4. Begin(c, {"commander"}, f)
    BY <2>1 DEF d
  <2> HIDE DEF f
  <2> QED
    BY <2>3, <2>4, BeginType
<1>2. CASE BeginSubmit(c)
  <2>1. PICK p \in Plans, v \in Nat :
          /\ plan[p].status = "draft"
          /\ Begin(c, {"commander"}, Versioned("submit", p, v))
    BY <1>2, QuotedNat DEF BeginSubmit
  <2> QED
    BY <2>1, BeginVersionedType DEF VersionedOps, PlanStatus
<1>3. CASE BeginApprove(c)
  <2>1. PICK p \in Plans :
          /\ plan[p].status = "submitted"
          /\ Begin(c, {"commander"}, Versioned("approve", p, plan[p].version))
    BY <1>3 DEF BeginApprove
  <2>2. plan[p].version \in Nat
    BY <2>1, InsertedPlan, PlanRowFacts DEF PlanStatus
  <2> QED
    BY <2>1, <2>2, BeginVersionedType DEF VersionedOps, PlanStatus
<1>4. CASE BeginStart(c)
  <2>1. PICK p \in Plans, v \in Nat :
          /\ plan[p].status = "approved"
          /\ Begin(c, {"commander", "field_operator"}, Versioned("start", p, v))
    BY <1>4, QuotedNat DEF BeginStart
  <2> QED
    BY <2>1, BeginVersionedType DEF VersionedOps, PlanStatus
<1>5. CASE BeginStep(c)
  <2>1. PICK p \in Plans :
          /\ plan[p].status = "executing"
          /\ \E k \in 0 .. plan[p].steps :
               Begin(c, {"commander", "field_operator"},
                     [op |-> "step", plan |-> p, step |-> k])
    BY <1>5 DEF BeginStep
  <2>2. PICK k \in 0 .. plan[p].steps :
          Begin(c, {"commander", "field_operator"},
                [op |-> "step", plan |-> p, step |-> k])
    BY <2>1
  <2> DEFINE f == [op |-> "step", plan |-> p, step |-> k]
  <2>3. plan[p] \in PlanRows
    BY <2>1, InsertedPlan DEF PlanStatus
  <2>4. k \in 0 .. 30
    BY <2>3, PlanRowFacts
  <2>5. f \in Frames
    BY <2>4 DEF Frames
  <2>6. plan[f.plan] # NoPlan
    BY <2>1 DEF NoPlan
  <2> HIDE DEF f
  <2> QED
    BY <2>2, <2>5, <2>6, BeginType DEF f
<1>6. CASE BeginComplete(c)
  <2>1. PICK p \in Plans, v \in Nat :
          /\ plan[p].status = "executing"
          /\ Begin(c, {"commander"}, Versioned("complete", p, v))
    BY <1>6, QuotedNat DEF BeginComplete
  <2> QED
    BY <2>1, BeginVersionedType DEF VersionedOps, PlanStatus
<1>7. CASE BeginCancel(c)
  <2>1. PICK p \in Plans, v \in Nat :
          /\ <<plan[p].status, "cancelled">> \in PlanTransitions
          /\ Begin(c, {"commander"}, Versioned("cancel", p, v))
    BY <1>7, QuotedNat DEF BeginCancel
  <2>2. plan[p].status \in PlanStatus
    BY <2>1 DEF PlanTransitions, PlanStatus
  <2> QED
    BY <2>1, <2>2, BeginVersionedType DEF VersionedOps
<1> QED
  BY <1>1, <1>2, <1>3, <1>4, <1>5, <1>6, <1>7

\* Settling or releasing a reservation leaves a reservation.
LEMMA SettleType ==
  ASSUME TypeOK, NEW p \in Plans, NEW s \in {"consumed", "released"},
         SettleReservation(p, s)
  PROVE  reservation' \in [Plans -> ReservationRows \cup {NoReservation}]
<1>1. CASE reservation[p].status = "active"
  <2>1. reservation[p] \in ReservationRows
    BY <1>1 DEF TypeOK, NoReservation
  <2>2. [reservation[p] EXCEPT !.status = s] \in ReservationRows
    BY <2>1 DEF ReservationRows
  <2>3. reservation' = [reservation EXCEPT ![p] = [reservation[p] EXCEPT !.status = s]]
    BY <1>1 DEF SettleReservation, TypeOK
  <2> QED
    BY <2>2, <2>3 DEF TypeOK
<1>2. CASE reservation[p].status # "active"
  <2>1. reservation' = reservation
    BY <1>2 DEF SettleReservation
  <2> QED
    BY <2>1 DEF TypeOK
<1> QED
  BY <1>1, <1>2

\* Giving beds back leaves a shelter row; the guard keeps its counter in Nat.
LEMMA ReleaseType ==
  ASSUME TypeOK, NEW p \in Plans, plan[p] \in PlanRows,
         reservation[p].status = "active", ReleaseBeds(p)
  PROVE  shelter' \in [Shelters -> ShelterRows \cup {NoShelter}]
<1> DEFINE s == plan[p].shelter
           n == reservation[p].people
<1>1. /\ shelter[s].reserved >= n
      /\ shelter' = [shelter EXCEPT ![s].reserved = shelter[s].reserved - n]
  BY DEF ReleaseBeds, SetReserved
<1>2. s \in Shelters
  BY DEF PlanRows
<1>3. n \in Nat /\ n > 0
  BY ReservationRowFacts DEF TypeOK, NoReservation
<1> HIDE DEF s, n
<1>4. shelter[s] \in ShelterRows
  BY <1>1, <1>2, <1>3 DEF TypeOK, NoShelter
<1>5. [shelter[s] EXCEPT !.reserved = shelter[s].reserved - n] \in ShelterRows
  BY <1>1, <1>3, <1>4 DEF ShelterRows
<1> QED
  BY <1>1, <1>2, <1>5 DEF TypeOK

\* The tables after each transaction.
LEMMA CommitSteps ==
  ASSUME TypeOK, UNCHANGED env, NEW c \in Clients,
         \/ RegisterShelter(c) \/ CreatePlan(c) \/ SubmitPlan(c) \/ ApprovePlan(c)
         \/ StartPlan(c) \/ CompleteStep(c) \/ CompletePlan(c) \/ CancelPlan(c)
         \/ RollBack(c)
  PROVE  TypeOK'
<1> DEFINE p == frame[c].plan
<1>1. CASE RegisterShelter(c)
  <2>1. PICK s \in Shelters, n \in Capacities :
          shelter' = [shelter EXCEPT ![s] =
                        [status |-> "available", capacity |-> n, reserved |-> 0]]
    BY <1>1 DEF RegisterShelter
  <2>2. [status |-> "available", capacity |-> n, reserved |-> 0] \in ShelterRows
    BY EvacuationAssumption DEF ShelterRows, EvacuationAssumption
  <2>3. shelter' \in [Shelters -> ShelterRows \cup {NoShelter}]
    BY <2>1, <2>2 DEF TypeOK
  <2> QED
    BY <1>1, <2>3 DEF TypeOK, RegisterShelter, env
<1>2. CASE CreatePlan(c)
  <2>1. PICK q \in Plans : plan[q] = NoPlan /\ plan' = [plan EXCEPT ![q] = frame[c].draft]
    BY <1>2 DEF CreatePlan
  <2>2. frame[c].draft \in PlanRows /\ frame[c].draft # NoPlan
    BY <1>2, FrameShape DEF CreatePlan, PlanRows, NoPlan, PlanStatus
  <2>3. plan' \in [Plans -> PlanRows \cup {NoPlan}]
    BY <2>1, <2>2 DEF TypeOK
  <2>4. \A r \in Plans : plan[r] # NoPlan => plan'[r] = plan[r]
    BY <2>1 DEF TypeOK
  <2>5. \A r \in Plans : IF plan'[r] = NoPlan THEN done[r] = {}
                         ELSE done[r] \subseteq 1 .. plan'[r].steps
    BY <2>1, <2>4 DEF TypeOK
  <2> QED
    BY <1>2, <2>3, <2>4, <2>5, ReturnType DEF CreatePlan, TypeOK
<1>3. ASSUME NEW op \in {"submit", "start"}, NEW from, NEW to \in PlanStatus,
             UpdatePlanState(c, op, from, to)
      PROVE  TypeOK'
  <2>1. p \in Plans /\ plan[p] \in PlanRows
    BY <1>3, FrameShape DEF UpdatePlanState, VersionedOps
  <2>2. SetStatus(p, to)
    BY <1>3 DEF UpdatePlanState
  <2>3. UNCHANGED <<shelter, done, reservation>> /\ Return(c)
    BY <1>3 DEF UpdatePlanState
  <2> HIDE DEF p
  <2>4. /\ plan' \in [Plans -> PlanRows \cup {NoPlan}]
        /\ \A q \in Plans : plan'[q] = NoPlan <=> plan[q] = NoPlan
        /\ \A q \in Plans : plan'[q] # NoPlan => plan'[q].steps = plan[q].steps
    BY <2>1, <2>2, SetStatusType
  <2> QED
    BY <2>3, <2>4, ReturnType DEF TypeOK
<1>4. CASE SubmitPlan(c)
  BY <1>3, <1>4 DEF SubmitPlan, PlanStatus
<1>5. CASE StartPlan(c)
  BY <1>3, <1>5 DEF StartPlan, PlanStatus
<1>6. CASE ApprovePlan(c)
  <2> DEFINE s == plan[p].shelter
             n == plan[p].people
  <2>1. p \in Plans /\ plan[p] \in PlanRows
    BY <1>6, FrameShape DEF ApprovePlan, VersionedOps
  <2>2. s \in Shelters /\ n \in Evacuees /\ n \in Nat /\ n > 0
    BY <2>1, PlanRowFacts
  <2>3. /\ SetStatus(p, "approved") /\ HasRoom(s, n) /\ Return(c) /\ UNCHANGED done
        /\ shelter' = [shelter EXCEPT ![s].reserved = shelter[s].reserved + n]
        /\ reservation' = [reservation EXCEPT ![p] =
                             [status |-> "active", shelter |-> s, people |-> n]]
    BY <1>6 DEF ApprovePlan, SetReserved
  <2> HIDE DEF p, s, n
  <2>4. /\ plan' \in [Plans -> PlanRows \cup {NoPlan}]
        /\ \A q \in Plans : plan'[q] = NoPlan <=> plan[q] = NoPlan
        /\ \A q \in Plans : plan'[q] # NoPlan => plan'[q].steps = plan[q].steps
    BY <2>1, <2>3, SetStatusType DEF PlanStatus
  <2>5. [status |-> "active", shelter |-> s, people |-> n] \in ReservationRows
    BY <2>2 DEF ReservationRows
  <2>6. reservation' \in [Plans -> ReservationRows \cup {NoReservation}]
    BY <2>3, <2>5 DEF TypeOK
  <2>7. shelter[s] \in ShelterRows
    BY <2>2, <2>3 DEF TypeOK, HasRoom, NoShelter
  <2>8. [shelter[s] EXCEPT !.reserved = shelter[s].reserved + n] \in ShelterRows
    BY <2>2, <2>7 DEF ShelterRows
  <2>9. shelter' \in [Shelters -> ShelterRows \cup {NoShelter}]
    BY <2>3, <2>8, <2>2 DEF TypeOK
  <2> QED
    BY <2>3, <2>4, <2>6, <2>9, ReturnType DEF TypeOK
<1>7. CASE CompleteStep(c)
  <2> DEFINE k == frame[c].step
  <2>1. p \in Plans /\ plan[p] \in PlanRows
    BY <1>7, FrameShape DEF CompleteStep
  <2>2. /\ StepReady(p, k) /\ done' = [done EXCEPT ![p] = done[p] \cup {k}]
        /\ Return(c) /\ UNCHANGED <<shelter, plan, reservation>>
    BY <1>7 DEF CompleteStep
  <2> HIDE DEF p, k
  <2>3. k \in 1 .. plan[p].steps /\ k \in 1 .. 30
    BY <2>1, <2>2, PlanRowFacts DEF StepReady
  <2>4. plan[p] # NoPlan
    BY <2>1 DEF PlanRows, NoPlan, PlanStatus
  <2>5. done' \in [Plans -> SUBSET (1 .. 30)]
    BY <2>1, <2>2, <2>3 DEF TypeOK
  <2>6. \A q \in Plans : IF plan'[q] = NoPlan THEN done'[q] = {}
                         ELSE done'[q] \subseteq 1 .. plan'[q].steps
    BY <2>1, <2>2, <2>3, <2>4 DEF TypeOK
  <2> QED
    BY <2>2, <2>5, <2>6, ReturnType DEF TypeOK
<1>8. ASSUME NEW to \in {"consumed", "released"}, SettleReservation(p, to),
             NEW st \in PlanStatus, SetStatus(p, st), UNCHANGED done, Return(c),
             p \in Plans, plan[p] \in PlanRows,
             shelter' \in [Shelters -> ShelterRows \cup {NoShelter}]
      PROVE  TypeOK'
  <2> HIDE DEF p
  <2>1. /\ plan' \in [Plans -> PlanRows \cup {NoPlan}]
        /\ \A q \in Plans : plan'[q] = NoPlan <=> plan[q] = NoPlan
        /\ \A q \in Plans : plan'[q] # NoPlan => plan'[q].steps = plan[q].steps
    BY <1>8, SetStatusType
  <2>2. reservation' \in [Plans -> ReservationRows \cup {NoReservation}]
    BY <1>8, SettleType
  <2> QED
    BY <1>8, <2>1, <2>2, ReturnType DEF TypeOK
<1>9. CASE CompletePlan(c)
  <2>1. p \in Plans /\ plan[p] \in PlanRows
    BY <1>9, FrameShape DEF CompletePlan, VersionedOps
  <2>2. shelter' \in [Shelters -> ShelterRows \cup {NoShelter}]
    BY <1>9 DEF CompletePlan, TypeOK
  <2> QED
    BY <1>8, <1>9, <2>1, <2>2 DEF CompletePlan, PlanStatus
<1>10. CASE CancelPlan(c)
  <2>1. p \in Plans /\ plan[p] \in PlanRows
    BY <1>10, FrameShape DEF CancelPlan, VersionedOps
  <2>2. SetStatus(p, "cancelled") /\ ReleaseBeds(p) /\ Return(c) /\ UNCHANGED done
    BY <1>10 DEF CancelPlan
  <2>3. CASE reservation[p].status = "active"
    <3>1. shelter' \in [Shelters -> ShelterRows \cup {NoShelter}]
      BY <2>1, <2>2, <2>3, ReleaseType DEF ReleaseBeds
    <3> QED
      BY <1>8, <2>1, <2>2, <2>3, <3>1 DEF ReleaseBeds, PlanStatus
  <2>4. CASE reservation[p].status # "active"
    <3>1. UNCHANGED <<shelter, reservation>>
      BY <2>2, <2>4 DEF ReleaseBeds
    <3>2. /\ plan' \in [Plans -> PlanRows \cup {NoPlan}]
          /\ \A q \in Plans : plan'[q] = NoPlan <=> plan[q] = NoPlan
          /\ \A q \in Plans : plan'[q] # NoPlan => plan'[q].steps = plan[q].steps
      <4> HIDE DEF p
      <4> QED
        BY <2>1, <2>2, SetStatusType DEF PlanStatus
    <3> QED
      BY <2>2, <3>1, <3>2, ReturnType DEF TypeOK
  <2> QED
    BY <2>3, <2>4
<1>11. CASE RollBack(c)
  BY <1>11, ReturnType DEF RollBack, TypeOK, db
<1> QED
  BY <1>1, <1>2, <1>4, <1>5, <1>6, <1>7, <1>9, <1>10, <1>11

LEMMA TypeStep == TypeOK /\ [Next]_vars => TypeOK'
<1> SUFFICES ASSUME TypeOK, [Next]_vars PROVE TypeOK'
  OBVIOUS
<1>1. ASSUME NEW c \in Clients, Step(c), UNCHANGED env
      PROVE  TypeOK'
  BY <1>1, BeginSteps, CommitSteps DEF Step
<1>2. CASE DeadlinePasses
  BY <1>2 DEF DeadlinePasses, db, TypeOK
<1>3. CASE IncidentMoves
  BY <1>3 DEF IncidentMoves, db, TypeOK
<1>4. CASE UNCHANGED vars
  BY <1>4 DEF vars, db, env, TypeOK
<1> QED
  BY <1>1, <1>2, <1>3, <1>4 DEF Next

LEMMA TypeInit == Init => TypeOK
<1> SUFFICES ASSUME Init PROVE TypeOK
  OBVIOUS
<1>1. \A c \in Clients : frame[c].op = "idle"
  BY DEF Init, Empty, Idle
<1> QED
  BY <1>1 DEF Init, Empty, TypeOK

\* Rows and frames keep their shape, a frame's plan exists and the recorded
\* steps are steps of their plan, for any clients, plans, shelters and sizes.
THEOREM TypeCorrect == Spec => []TypeOK
<1> QED
  BY TypeInit, TypeStep, PTL DEF Spec

-------------------------------------------------------------------------------
(* What a step does to the tables *)

Writes(c) ==
  \/ RegisterShelter(c) \/ CreatePlan(c) \/ SubmitPlan(c) \/ ApprovePlan(c)
  \/ StartPlan(c) \/ CompleteStep(c) \/ CompletePlan(c) \/ CancelPlan(c)

\* Only the transactions touch the tables.
LEMMA OnlyWrites ==
  ASSUME [Next]_vars
  PROVE  UNCHANGED db \/ \E c \in Clients : Writes(c)
BY DEF Next, Step, Writes, RollBack, Begin, BeginCreate, BeginSubmit,
       BeginApprove, BeginStart, BeginStep, BeginComplete, BeginCancel,
       DeadlinePasses, IncidentMoves, vars

\* What a transaction does to one row of evacuation_plans: p takes the edge
\* <<from, to>> of planTransitions and keeps what it is for.
Moves(p, from, to) ==
  /\ p \in Plans /\ plan[p] \in PlanRows
  /\ plan[p].status = from /\ plan'[p].status = to
  /\ plan'[p] \in PlanRows
  /\ plan'[p].version = plan[p].version + 1
  /\ plan'[p].steps = plan[p].steps
  /\ plan'[p].shelter = plan[p].shelter
  /\ plan'[p].people = plan[p].people
  /\ \A q \in Plans \ {p} : plan'[q] = plan[q]

LEMMA SubmitMoves ==
  ASSUME TypeOK, NEW c \in Clients, SubmitPlan(c)
  PROVE  Moves(frame[c].plan, "draft", "submitted")
<1>1. frame[c].plan \in Plans /\ plan[frame[c].plan] \in PlanRows
  BY FrameShape DEF SubmitPlan, UpdatePlanState, VersionedOps
<1>2. /\ plan[frame[c].plan].status = "draft"
      /\ SetStatus(frame[c].plan, "submitted")
  BY DEF SubmitPlan, UpdatePlanState, PlanAt
<1> QED
  BY <1>1, <1>2, SetStatusType DEF Moves, PlanStatus

LEMMA StartMoves ==
  ASSUME TypeOK, NEW c \in Clients, StartPlan(c)
  PROVE  Moves(frame[c].plan, "approved", "executing")
<1>1. frame[c].plan \in Plans /\ plan[frame[c].plan] \in PlanRows
  BY FrameShape DEF StartPlan, UpdatePlanState, VersionedOps
<1>2. /\ plan[frame[c].plan].status = "approved"
      /\ SetStatus(frame[c].plan, "executing")
  BY DEF StartPlan, UpdatePlanState, PlanAt
<1> QED
  BY <1>1, <1>2, SetStatusType DEF Moves, PlanStatus

LEMMA ApproveMoves ==
  ASSUME TypeOK, NEW c \in Clients, ApprovePlan(c)
  PROVE  Moves(frame[c].plan, "submitted", "approved")
<1>1. frame[c].plan \in Plans /\ plan[frame[c].plan] \in PlanRows
  BY FrameShape DEF ApprovePlan, VersionedOps
<1>2. /\ plan[frame[c].plan].status = "submitted"
      /\ SetStatus(frame[c].plan, "approved")
  BY DEF ApprovePlan, PlanAt
<1> QED
  BY <1>1, <1>2, SetStatusType DEF Moves, PlanStatus

LEMMA CompleteMoves ==
  ASSUME TypeOK, NEW c \in Clients, CompletePlan(c)
  PROVE  Moves(frame[c].plan, "executing", "completed")
<1>1. frame[c].plan \in Plans /\ plan[frame[c].plan] \in PlanRows
  BY FrameShape DEF CompletePlan, VersionedOps
<1>2. /\ plan[frame[c].plan].status = "executing"
      /\ SetStatus(frame[c].plan, "completed")
  BY DEF CompletePlan, PlanAt
<1> QED
  BY <1>1, <1>2, SetStatusType DEF Moves, PlanStatus

LEMMA CancelMoves ==
  ASSUME TypeOK, NEW c \in Clients, CancelPlan(c)
  PROVE  \E from \in {"draft", "submitted", "approved", "executing"} :
           Moves(frame[c].plan, from, "cancelled")
<1>1. frame[c].plan \in Plans /\ plan[frame[c].plan] \in PlanRows
  BY FrameShape DEF CancelPlan, VersionedOps
<1>2. /\ plan[frame[c].plan].status \in {"draft", "submitted", "approved", "executing"}
      /\ SetStatus(frame[c].plan, "cancelled")
  BY DEF CancelPlan, PlanTransitions
<1> QED
  BY <1>1, <1>2, SetStatusType DEF Moves, PlanStatus

\* Every plan that a step changes is new or takes an edge of the table.
LEMMA PlanMovesOnly ==
  ASSUME TypeOK, [Next]_vars
  PROVE  \/ UNCHANGED plan
         \/ \E q \in Plans : /\ plan[q] = NoPlan /\ plan'[q] \in DraftRows
                            /\ \A r \in Plans \ {q} : plan'[r] = plan[r]
         \/ \E p \in Plans : \E e \in PlanTransitions : Moves(p, e[1], e[2])
<1>1. CASE UNCHANGED db
  BY <1>1 DEF db
<1>2. ASSUME NEW c \in Clients, SubmitPlan(c) \/ StartPlan(c) \/ ApprovePlan(c)
                              \/ CompletePlan(c) \/ CancelPlan(c)
      PROVE  \E p \in Plans : \E e \in PlanTransitions : Moves(p, e[1], e[2])
  <2>1. PICK p, from, to : Moves(p, from, to) /\ <<from, to>> \in PlanTransitions
    BY <1>2, SubmitMoves, StartMoves, ApproveMoves, CompleteMoves, CancelMoves
    DEF PlanTransitions
  <2>2. p \in Plans
    BY <2>1 DEF Moves
  <2> QED
    BY <2>1, <2>2
<1>3. ASSUME NEW c \in Clients, CreatePlan(c)
      PROVE  \E q \in Plans : /\ plan[q] = NoPlan /\ plan'[q] \in DraftRows
                            /\ \A r \in Plans \ {q} : plan'[r] = plan[r]
  <2>1. PICK q \in Plans : plan[q] = NoPlan /\ plan' = [plan EXCEPT ![q] = frame[c].draft]
    BY <1>3 DEF CreatePlan
  <2> QED
    BY <1>3, <2>1, FrameShape DEF CreatePlan, TypeOK
<1>4. ASSUME NEW c \in Clients, RegisterShelter(c) \/ CompleteStep(c)
      PROVE  UNCHANGED plan
  BY <1>4 DEF RegisterShelter, CompleteStep
<1> QED
  BY <1>1, <1>2, <1>3, <1>4, OnlyWrites DEF Writes

\* The status of every plan follows planTransitions, one version per edge, for
\* any number of concurrent requests.
THEOREM LifecycleCorrect == Spec => PlanFollowsLifecycle
<1> DEFINE Follows ==
      \A p \in Plans :
        (plan[p] # NoPlan /\ plan'[p] # plan[p]) =>
          /\ <<plan[p].status, plan'[p].status>> \in PlanTransitions
          /\ plan'[p].version = plan[p].version + 1
          /\ plan'[p].shelter = plan[p].shelter /\ plan'[p].people = plan[p].people
<1>1. TypeOK /\ [Next]_vars => [Follows]_vars
  <2> SUFFICES ASSUME TypeOK, [Next]_vars PROVE Follows
    OBVIOUS
  <2>1. ASSUME NEW p \in Plans, NEW e \in PlanTransitions, Moves(p, e[1], e[2])
        PROVE  Follows
    <3>1. e = <<e[1], e[2]>>
      BY DEF PlanTransitions
    <3> QED
      BY <2>1, <3>1 DEF Moves
  <2> QED
    BY <2>1, PlanMovesOnly
<1> QED
  BY <1>1, TypeCorrect, PTL DEF Spec, PlanFollowsLifecycle

-------------------------------------------------------------------------------
(* Versions *)

LEMMA VersionsInductive ==
  ASSUME TypeOK, [Next]_vars, VersionNamesState
  PROVE  VersionNamesState'
<1>1. CASE UNCHANGED plan
  BY <1>1 DEF VersionNamesState
<1>2. ASSUME NEW q \in Plans, plan[q] = NoPlan, plan'[q] \in DraftRows,
             \A r \in Plans \ {q} : plan'[r] = plan[r]
      PROVE  VersionNamesState'
  BY <1>2 DEF VersionNamesState, DraftRows
<1>3. ASSUME NEW p \in Plans, NEW e \in PlanTransitions, Moves(p, e[1], e[2])
      PROVE  VersionNamesState'
  <2>1. CASE e[2] = "cancelled"
    BY <1>3, <2>1 DEF VersionNamesState, Moves, PlanTransitions
  <2>2. CASE e[2] # "cancelled"
    BY <1>3, <2>2 DEF VersionNamesState, Moves, PlanTransitions
  <2> QED
    BY <2>1, <2>2
<1> QED
  BY <1>1, <1>2, <1>3, PlanMovesOnly

\* A version of a plan names one state of it, so two requests that quote the
\* same version can never both succeed.
THEOREM VersionsCorrect == Spec => []VersionNamesState
<1>1. Init => VersionNamesState
  BY DEF Init, Empty, VersionNamesState, NoPlan
<1>2. TypeOK /\ VersionNamesState /\ [Next]_vars => VersionNamesState'
  BY VersionsInductive
<1> QED
  BY <1>1, <1>2, TypeCorrect, PTL DEF Spec

-------------------------------------------------------------------------------
(* Reservations *)

\* ReservationFollowsPlan for one plan.
Follows(p) ==
  /\ reservation[p].status = "active" <=> plan[p].status \in {"approved", "executing"}
  /\ reservation[p].status = "consumed" <=> plan[p].status = "completed"
  /\ reservation[p].status = "released" => plan[p].status = "cancelled"
  /\ reservation[p] # NoReservation =>
       /\ reservation[p].shelter = plan[p].shelter
       /\ reservation[p].people = plan[p].people

\* A plan that no step touches keeps its reservation in agreement.
LEMMA FollowsFrame ==
  ASSUME NEW p, Follows(p), plan'[p] = plan[p], reservation'[p] = reservation[p]
  PROVE  Follows(p)'
BY DEF Follows

LEMMA ReservationCases ==
  ASSUME TypeOK, NEW p \in Plans
  PROVE  \/ reservation[p] = NoReservation /\ reservation[p].status = "none"
         \/ reservation[p] \in ReservationRows
BY DEF TypeOK, NoReservation

\* A plan on its way to approval has no reservation yet.
LEMMA NotReserved ==
  ASSUME TypeOK, NEW p \in Plans, Follows(p),
         plan[p].status \in {"none", "draft", "submitted"}
  PROVE  reservation[p] = NoReservation
BY ReservationCases, ReservationRowFacts DEF Follows

LEMMA ReservationsInductive ==
  ASSUME TypeOK, [Next]_vars, ReservationFollowsPlan
  PROVE  ReservationFollowsPlan'
<1>1. \A p \in Plans : Follows(p)
  BY DEF ReservationFollowsPlan, Follows
<1>2. reservation \in [Plans -> ReservationRows \cup {NoReservation}]
  BY DEF TypeOK
<1>3. SUFFICES \A p \in Plans : Follows(p)'
  BY DEF ReservationFollowsPlan, Follows
<1>4. CASE UNCHANGED db
  BY <1>1, <1>4, FollowsFrame DEF db
<1>5. ASSUME NEW c \in Clients, RegisterShelter(c) \/ CompleteStep(c)
      PROVE  \A p \in Plans : Follows(p)'
  BY <1>1, <1>5, FollowsFrame DEF RegisterShelter, CompleteStep
<1>6. ASSUME NEW c \in Clients, CreatePlan(c)
      PROVE  \A p \in Plans : Follows(p)'
  <2>1. PICK q \in Plans : plan[q] = NoPlan /\ plan' = [plan EXCEPT ![q] = frame[c].draft]
    BY <1>6 DEF CreatePlan
  <2>2. UNCHANGED reservation
    BY <1>6 DEF CreatePlan
  <2>3. plan'[q].status = "draft"
    BY <1>6, <2>1, FrameShape DEF CreatePlan, DraftRows, TypeOK
  <2>4. reservation[q] = NoReservation
    BY <1>1, <2>1, NotReserved DEF NoPlan
  <2>5. Follows(q)'
    BY <2>2, <2>3, <2>4 DEF Follows, NoReservation
  <2>6. \A p \in Plans \ {q} : Follows(p)'
    BY <1>1, <2>1, <2>2, FollowsFrame DEF TypeOK
  <2> QED
    BY <2>5, <2>6
<1>7. ASSUME NEW c \in Clients, SubmitPlan(c) \/ StartPlan(c)
      PROVE  \A p \in Plans : Follows(p)'
  <2>1. PICK q \in Plans :
          Moves(q, "draft", "submitted") \/ Moves(q, "approved", "executing")
    BY <1>7, SubmitMoves, StartMoves DEF Moves
  <2>2. UNCHANGED reservation
    BY <1>7 DEF SubmitPlan, StartPlan, UpdatePlanState
  <2>3. Follows(q)'
    BY <1>1, <2>1, <2>2 DEF Follows, Moves
  <2>4. \A p \in Plans \ {q} : Follows(p)'
    BY <1>1, <2>1, <2>2, FollowsFrame DEF Moves
  <2> QED
    BY <2>3, <2>4
<1>8. ASSUME NEW c \in Clients, ApprovePlan(c)
      PROVE  \A p \in Plans : Follows(p)'
  <2>1. PICK q \in Plans : q = frame[c].plan /\ Moves(q, "submitted", "approved")
    BY <1>8, ApproveMoves DEF Moves
  <2>2. reservation' = [reservation EXCEPT ![q] =
          [status |-> "active", shelter |-> plan[q].shelter, people |-> plan[q].people]]
    BY <1>8, <2>1 DEF ApprovePlan
  <2>3. Follows(q)'
    BY <1>2, <2>1, <2>2 DEF Follows, Moves
  <2>4. \A p \in Plans \ {q} : Follows(p)'
    BY <1>1, <1>2, <2>1, <2>2, FollowsFrame DEF Moves
  <2> QED
    BY <2>3, <2>4
<1>9. ASSUME NEW q \in Plans, NEW to \in {"consumed", "released"},
             NEW from \in {"approved", "executing"},
             Moves(q, from, IF to = "consumed" THEN "completed" ELSE "cancelled"),
             SettleReservation(q, to)
      PROVE  \A p \in Plans : Follows(p)'
  <2>1. reservation[q].status = "active" /\ reservation[q] \in ReservationRows
    BY <1>1, <1>9, ReservationCases DEF Follows, Moves
  <2>2. reservation' = [reservation EXCEPT ![q] = [reservation[q] EXCEPT !.status = to]]
    BY <1>2, <1>9, <2>1 DEF SettleReservation
  <2>3. /\ reservation'[q].status = to
        /\ reservation'[q].shelter = reservation[q].shelter
        /\ reservation'[q].people = reservation[q].people
    BY <1>2, <2>1, <2>2 DEF ReservationRows
  <2>4. reservation[q] # NoReservation
    BY <2>1, ReservationRowFacts
  <2>5. Follows(q)'
    BY <1>1, <1>9, <2>3, <2>4 DEF Follows, Moves
  <2>6. \A p \in Plans \ {q} : Follows(p)'
    BY <1>1, <1>2, <1>9, <2>2, FollowsFrame DEF Moves
  <2> QED
    BY <2>5, <2>6
<1>10. ASSUME NEW c \in Clients, CompletePlan(c)
      PROVE  \A p \in Plans : Follows(p)'
  <2>1. PICK q \in Plans : q = frame[c].plan /\ Moves(q, "executing", "completed")
    BY <1>10, CompleteMoves DEF Moves
  <2>2. SettleReservation(q, "consumed")
    BY <1>10, <2>1 DEF CompletePlan
  <2> QED
    BY <1>9, <2>1, <2>2
<1>11. ASSUME NEW c \in Clients, CancelPlan(c)
      PROVE  \A p \in Plans : Follows(p)'
  <2>1. PICK q \in Plans, from \in {"draft", "submitted", "approved", "executing"} :
          q = frame[c].plan /\ Moves(q, from, "cancelled")
    BY <1>11, CancelMoves DEF Moves
  <2>2. ReleaseBeds(q)
    BY <1>11, <2>1 DEF CancelPlan
  <2>3. CASE from \in {"approved", "executing"}
    <3>1. reservation[q].status = "active"
      BY <1>1, <2>1, <2>3 DEF Follows, Moves
    <3> QED
      BY <1>9, <2>1, <2>2, <2>3, <3>1 DEF ReleaseBeds, Moves
  <2>4. CASE from \in {"draft", "submitted"}
    <3>1. reservation[q] = NoReservation
      BY <1>1, <2>1, <2>4, NotReserved DEF Moves
    <3>2. UNCHANGED reservation
      BY <2>2, <3>1 DEF ReleaseBeds, NoReservation
    <3>3. Follows(q)'
      BY <2>1, <3>1, <3>2 DEF Follows, Moves, NoReservation
    <3>4. \A p \in Plans \ {q} : Follows(p)'
      BY <1>1, <2>1, <3>2, FollowsFrame DEF Moves
    <3> QED
      BY <3>3, <3>4
  <2> QED
    BY <2>3, <2>4
<1> QED
  BY <1>4, <1>5, <1>6, <1>7, <1>8, <1>10, <1>11, OnlyWrites DEF Writes

\* Reservations and plans agree in every reachable state, whichever requests
\* overlap and wherever they roll back.
THEOREM ReservationsCorrect == Spec => []ReservationFollowsPlan
<1>1. Init => ReservationFollowsPlan
  BY DEF Init, Empty, ReservationFollowsPlan, NoPlan, NoReservation
<1>2. TypeOK /\ ReservationFollowsPlan /\ [Next]_vars => ReservationFollowsPlan'
  BY ReservationsInductive
<1> QED
  BY <1>1, <1>2, TypeCorrect, PTL DEF Spec

-------------------------------------------------------------------------------
(* Beds *)

Block(p, n) == {p} \X (1 .. n)

LEMMA BlockSize ==
  ASSUME NEW p, NEW n \in Nat
  PROVE  IsFiniteSet(Block(p, n)) /\ Cardinality(Block(p, n)) = n
<1>1. IsFiniteSet({p}) /\ Cardinality({p}) = 1
  BY FS_Singleton
<1>2. IsFiniteSet(1 .. n) /\ Cardinality(1 .. n) = n
  BY FS_Interval
<1>3. /\ IsFiniteSet(Block(p, n))
      /\ Cardinality(Block(p, n)) = Cardinality({p}) * Cardinality(1 .. n)
  BY <1>1, <1>2, FS_Product DEF Block
<1> QED
  BY <1>1, <1>2, <1>3

LEMMA DisjointSize ==
  ASSUME NEW S, NEW T, NEW U, IsFiniteSet(S), IsFiniteSet(T), S \cap T = {}, U = S \cup T
  PROVE  Cardinality(U) = Cardinality(S) + Cardinality(T)
<1>1. Cardinality(S \cup T) = Cardinality(S) + Cardinality(T) - Cardinality(S \cap T)
  BY FS_Union
<1>2. Cardinality(S \cap T) = 0
  BY FS_EmptySet
<1>3. Cardinality(S) \in Nat /\ Cardinality(T) \in Nat
  BY FS_CardinalityType
<1> QED
  BY <1>1, <1>2, <1>3

\* Plan p holds or has used beds of shelter s.
Holds(p, s) ==
  reservation[p].status \in {"active", "consumed"} /\ reservation[p].shelter = s

LEMMA BedsAre ==
  ASSUME NEW s
  PROVE  Ledger!Beds(s) =
           UNION {Block(p, reservation[p].people) : p \in {q \in Plans : Holds(q, s)}}
BY DEF Ledger!Beds, Ledger!Holders, Holds, Block

LEMMA BedsFinite ==
  ASSUME TypeOK, NEW s
  PROVE  IsFiniteSet(Ledger!Beds(s)) /\ Cardinality(Ledger!Beds(s)) \in Nat
<1> DEFINE H == {q \in Plans : Holds(q, s)}
           B == {Block(p, reservation[p].people) : p \in H}
           f == [p \in H |-> Block(p, reservation[p].people)]
<1>1. IsFiniteSet(H)
  BY FS_Subset, EvacuationAssumption DEF EvacuationAssumption
<1>2. IsFiniteSet(B)
  <2>1. f \in Surjection(H, B)
    BY DEF Surjection
  <2> QED
    BY <1>1, <2>1, FS_Surjection
<1>3. \A b \in B : IsFiniteSet(b)
  <2> TAKE b \in B
  <2>1. PICK p \in H : b = Block(p, reservation[p].people)
    OBVIOUS
  <2>2. reservation[p].people \in Nat
    BY ReservationCases, ReservationRowFacts DEF Holds
  <2> QED
    BY <2>1, <2>2, BlockSize
<1>4. IsFiniteSet(UNION B)
  BY <1>2, <1>3, FS_UNION
<1> QED
  BY <1>4, BedsAre, FS_CardinalityType

\* Beds stay where they are when no holding changes.
LEMMA BedsSame ==
  ASSUME NEW s,
         \A p \in Plans : Holds(p, s)' <=> Holds(p, s),
         \A p \in Plans : Holds(p, s) => reservation'[p].people = reservation[p].people
  PROVE  Ledger!Beds(s)' = Ledger!Beds(s)
<1> DEFINE old == {p \in Plans : Holds(p, s)}
           new == {p \in Plans : Holds(p, s)'}
<1>1. Ledger!Beds(s)' = UNION {Block(p, reservation'[p].people) : p \in new}
  BY DEF Ledger!Beds, Ledger!Holders, Holds, Block
<1>2. Ledger!Beds(s) = UNION {Block(p, reservation[p].people) : p \in old}
  BY BedsAre
<1>3. new = old
  OBVIOUS
<1>4. {Block(p, reservation'[p].people) : p \in new} = {Block(p, reservation[p].people) : p \in old}
  BY <1>3
<1> QED
  BY <1>1, <1>2, <1>4

\* A new holding adds its block, and no bed of it was taken before.
LEMMA BedsAdded ==
  ASSUME NEW s, NEW q \in Plans, ~Holds(q, s), Holds(q, s)',
         \A p \in Plans \ {q} : reservation'[p] = reservation[p]
  PROVE  /\ Ledger!Beds(s)' = Ledger!Beds(s) \cup Block(q, reservation'[q].people)
         /\ Ledger!Beds(s) \cap Block(q, reservation'[q].people) = {}
<1>1. {p \in Plans : Holds(p, s)'} = {p \in Plans : Holds(p, s)} \cup {q}
  BY DEF Holds
<1>2. Ledger!Beds(s)' =
        UNION {Block(p, reservation'[p].people) : p \in {r \in Plans : Holds(r, s)'}}
  BY DEF Ledger!Beds, Ledger!Holders, Holds, Block
<1>3. Ledger!Beds(s)' = Ledger!Beds(s) \cup Block(q, reservation'[q].people)
  BY <1>1, <1>2, BedsAre
<1>4. Ledger!Beds(s) \cap Block(q, reservation'[q].people) = {}
  BY BedsAre DEF Block
<1> QED
  BY <1>3, <1>4

\* A holding that ends takes away its block and nothing else.
LEMMA BedsRemoved ==
  ASSUME NEW s, NEW q \in Plans, Holds(q, s), ~Holds(q, s)',
         \A p \in Plans \ {q} : reservation'[p] = reservation[p]
  PROVE  /\ Ledger!Beds(s) = Ledger!Beds(s)' \cup Block(q, reservation[q].people)
         /\ Ledger!Beds(s)' \cap Block(q, reservation[q].people) = {}
<1>1. {p \in Plans : Holds(p, s)} = {p \in Plans : Holds(p, s)'} \cup {q}
  BY DEF Holds
<1>2. Ledger!Beds(s)' =
        UNION {Block(p, reservation'[p].people) : p \in {r \in Plans : Holds(r, s)'}}
  BY DEF Ledger!Beds, Ledger!Holders, Holds, Block
<1>3. Ledger!Beds(s) = Ledger!Beds(s)' \cup Block(q, reservation[q].people)
  BY <1>1, <1>2, BedsAre
<1>4. Ledger!Beds(s)' \cap Block(q, reservation[q].people) = {}
  BY <1>2 DEF Block
<1> QED
  BY <1>3, <1>4

\* The counter of a shelter is right and within its capacity.
Counted(s) ==
  /\ shelter[s].reserved = Cardinality(Ledger!Beds(s))
  /\ shelter[s].reserved <= shelter[s].capacity

BedsInv == \A s \in Shelters : Counted(s)

LEMMA CountedSame ==
  ASSUME NEW s, Counted(s), Ledger!Beds(s)' = Ledger!Beds(s),
         shelter'[s].reserved = shelter[s].reserved,
         shelter'[s].capacity = shelter[s].capacity
  PROVE  Counted(s)'
BY DEF Counted

LEMMA ShelterNumbers ==
  ASSUME TypeOK, NEW s \in Shelters
  PROVE  /\ shelter[s].reserved \in Nat /\ shelter[s].capacity \in Nat
         /\ \A n \in Nat : /\ [shelter EXCEPT ![s].reserved = n][s].reserved = n
                           /\ [shelter EXCEPT ![s].reserved = n][s].capacity = shelter[s].capacity
                           /\ \A t \in Shelters \ {s} :
                                [shelter EXCEPT ![s].reserved = n][t] = shelter[t]
<1>1. shelter \in [Shelters -> ShelterRows \cup {NoShelter}]
  BY DEF TypeOK
<1>2. shelter[s] \in [status : {"available", "restricted", "closed", "none"},
                     capacity : Nat, reserved : Nat]
  BY <1>1 DEF ShelterRows, NoShelter
<1> QED
  BY <1>1, <1>2

\* Approval: n free beds become n beds held by the plan.
LEMMA ApproveCounts ==
  ASSUME TypeOK, ReservationFollowsPlan, BedsInv, NEW c \in Clients, ApprovePlan(c)
  PROVE  BedsInv'
<1>1. PICK p \in Plans : p = frame[c].plan /\ Moves(p, "submitted", "approved")
  BY ApproveMoves DEF Moves
<1>2. PICK s \in Shelters, n \in Nat : s = plan[p].shelter /\ n = plan[p].people /\ n > 0
  BY <1>1, PlanRowFacts DEF Moves
<1>3. /\ HasRoom(s, n)
      /\ shelter' = [shelter EXCEPT ![s].reserved = shelter[s].reserved + n]
      /\ reservation' = [reservation EXCEPT ![p] =
                           [status |-> "active", shelter |-> s, people |-> n]]
  BY <1>1, <1>2 DEF ApprovePlan, SetReserved
<1>4. reservation[p] = NoReservation
  BY <1>1, NotReserved DEF ReservationFollowsPlan, Follows, Moves
<1>5. /\ \A q \in Plans \ {p} : reservation'[q] = reservation[q]
      /\ reservation'[p] = [status |-> "active", shelter |-> s, people |-> n]
  BY <1>3 DEF TypeOK
<1>6. ~Holds(p, s) /\ Holds(p, s)' /\ reservation'[p].people = n
  BY <1>4, <1>5 DEF Holds, NoReservation
<1>7. /\ Ledger!Beds(s)' = Ledger!Beds(s) \cup Block(p, n)
      /\ Ledger!Beds(s) \cap Block(p, n) = {}
  BY <1>5, <1>6, BedsAdded
<1>8. Cardinality(Ledger!Beds(s)') = Cardinality(Ledger!Beds(s)) + n
  <2>1. /\ IsFiniteSet(Ledger!Beds(s)) /\ Cardinality(Ledger!Beds(s)) \in Nat
        /\ IsFiniteSet(Block(p, n)) /\ Cardinality(Block(p, n)) = n
    BY BedsFinite, BlockSize
  <2>2. Cardinality(Ledger!Beds(s)') = Cardinality(Ledger!Beds(s)) + Cardinality(Block(p, n))
    BY <1>7, <2>1, DisjointSize
  <2> QED
    BY <2>1, <2>2
<1>9. Counted(s)'
  <2>1. /\ shelter[s].reserved \in Nat /\ shelter[s].capacity \in Nat
        /\ shelter[s].reserved + n \in Nat
        /\ shelter'[s].reserved = shelter[s].reserved + n
        /\ shelter'[s].capacity = shelter[s].capacity
    BY <1>3, ShelterNumbers
  <2>2. shelter[s].capacity - shelter[s].reserved >= n
    BY <1>3 DEF HasRoom
  <2>3. shelter[s].reserved = Cardinality(Ledger!Beds(s))
    BY DEF BedsInv, Counted
  <2> QED
    BY <1>8, <2>1, <2>2, <2>3 DEF Counted
<1>10. ASSUME NEW t \in Shelters \ {s}
       PROVE  Counted(t)'
  <2>1. shelter'[t] = shelter[t]
    BY <1>3, ShelterNumbers
  <2>2. ~Holds(p, t) /\ ~Holds(p, t)'
    BY <1>4, <1>5 DEF Holds, NoReservation
  <2>3. \A q \in Plans : Holds(q, t)' <=> Holds(q, t)
    BY <1>5, <2>2 DEF Holds
  <2>4. Ledger!Beds(t)' = Ledger!Beds(t)
    BY <1>5, <2>2, <2>3, BedsSame
  <2> QED
    BY <2>1, <2>4, CountedSame DEF BedsInv
<1> QED
  BY <1>9, <1>10 DEF BedsInv

\* Cancellation: the beds a plan held become free, no others.
LEMMA CancelCounts ==
  ASSUME TypeOK, ReservationFollowsPlan, BedsInv, NEW c \in Clients, CancelPlan(c)
  PROVE  BedsInv'
<1>1. PICK p \in Plans : p = frame[c].plan /\ plan[p] \in PlanRows
  BY FrameShape DEF CancelPlan, VersionedOps
<1>2. ReleaseBeds(p)
  BY <1>1 DEF CancelPlan
<1>3. CASE reservation[p].status # "active"
  <2>1. UNCHANGED <<shelter, reservation>>
    BY <1>2, <1>3 DEF ReleaseBeds
  <2>2. \A s \in Shelters : Ledger!Beds(s)' = Ledger!Beds(s)
    BY <2>1, BedsSame DEF Holds
  <2> QED
    BY <2>1, <2>2, CountedSame DEF BedsInv
<1>4. CASE reservation[p].status = "active"
  <2>1. reservation[p] \in ReservationRows
    BY <1>4, ReservationCases
  <2>2. PICK s \in Shelters, n \in Nat :
          /\ s = plan[p].shelter /\ s = reservation[p].shelter
          /\ n = reservation[p].people /\ n > 0
    BY <2>1, ReservationRowFacts DEF ReservationFollowsPlan
  <2>3. /\ shelter[s].reserved >= n
        /\ shelter' = [shelter EXCEPT ![s].reserved = shelter[s].reserved - n]
        /\ reservation' = [reservation EXCEPT ![p].status = "released"]
    BY <1>2, <1>4, <2>2 DEF ReleaseBeds, SetReserved, SettleReservation
  <2>4. /\ \A q \in Plans \ {p} : reservation'[q] = reservation[q]
        /\ reservation'[p].status = "released"
    BY <2>1, <2>3 DEF TypeOK, ReservationRows
  <2>5. Holds(p, s) /\ ~Holds(p, s)'
    BY <1>4, <2>2, <2>4 DEF Holds
  <2>6. /\ Ledger!Beds(s) = Ledger!Beds(s)' \cup Block(p, n)
        /\ Ledger!Beds(s)' \cap Block(p, n) = {}
    BY <2>2, <2>4, <2>5, BedsRemoved
  <2>7. Cardinality(Ledger!Beds(s)) = Cardinality(Ledger!Beds(s)') + n
        /\ Cardinality(Ledger!Beds(s)') \in Nat
    <3>1. /\ IsFiniteSet(Ledger!Beds(s))
          /\ IsFiniteSet(Block(p, n)) /\ Cardinality(Block(p, n)) = n
      BY BedsFinite, BlockSize
    <3>2. IsFiniteSet(Ledger!Beds(s)') /\ Cardinality(Ledger!Beds(s)') \in Nat
      BY <2>6, <3>1, FS_Subset, FS_CardinalityType
    <3>3. Cardinality(Ledger!Beds(s)) = Cardinality(Ledger!Beds(s)') + Cardinality(Block(p, n))
      BY <2>6, <3>1, <3>2, DisjointSize
    <3> QED
      BY <3>1, <3>2, <3>3
  <2>8. Counted(s)'
    <3>1. /\ shelter[s].reserved \in Nat /\ shelter[s].capacity \in Nat
          /\ shelter[s].reserved - n \in Nat
          /\ shelter'[s].reserved = shelter[s].reserved - n
          /\ shelter'[s].capacity = shelter[s].capacity
      BY <2>3, ShelterNumbers
    <3>2. /\ shelter[s].reserved = Cardinality(Ledger!Beds(s))
          /\ shelter[s].reserved <= shelter[s].capacity
      BY DEF BedsInv, Counted
    <3> QED
      BY <2>7, <3>1, <3>2 DEF Counted
  <2>9. ASSUME NEW t \in Shelters \ {s}
        PROVE  Counted(t)'
    <3>1. shelter'[t] = shelter[t]
      BY <2>3, ShelterNumbers
    <3>2. ~Holds(p, t) /\ ~Holds(p, t)'
      BY <2>2, <2>4 DEF Holds
    <3>3. \A q \in Plans : Holds(q, t)' <=> Holds(q, t)
      BY <2>4, <3>2 DEF Holds
    <3>4. Ledger!Beds(t)' = Ledger!Beds(t)
      BY <2>4, <3>2, <3>3, BedsSame
    <3> QED
      BY <3>1, <3>4, CountedSame DEF BedsInv
  <2> QED
    BY <2>8, <2>9 DEF BedsInv
<1> QED
  BY <1>3, <1>4

\* Completion turns a holding into a used one: no bed moves.
LEMMA CompleteKeepsBeds ==
  ASSUME TypeOK, NEW c \in Clients, CompletePlan(c), NEW s
  PROVE  Ledger!Beds(s)' = Ledger!Beds(s)
<1>1. PICK p \in Plans : p = frame[c].plan /\ SettleReservation(p, "consumed")
  BY FrameShape DEF CompletePlan, VersionedOps
<1>2. CASE reservation[p].status # "active"
  <2>1. UNCHANGED reservation
    BY <1>1, <1>2 DEF SettleReservation
  <2> QED
    BY <2>1, BedsSame DEF Holds
<1>3. CASE reservation[p].status = "active"
  <2>1. reservation[p] \in ReservationRows
    BY <1>3, ReservationCases
  <2>2. reservation' = [reservation EXCEPT ![p].status = "consumed"]
    BY <1>1, <1>3 DEF SettleReservation
  <2>3. /\ \A q \in Plans \ {p} : reservation'[q] = reservation[q]
        /\ reservation'[p].status = "consumed"
        /\ reservation'[p].shelter = reservation[p].shelter
        /\ reservation'[p].people = reservation[p].people
    BY <2>1, <2>2 DEF TypeOK, ReservationRows
  <2>4. \A q \in Plans : Holds(q, s)' <=> Holds(q, s)
    BY <1>3, <2>3 DEF Holds
  <2>5. \A q \in Plans : reservation'[q].people = reservation[q].people
    BY <2>3
  <2> QED
    BY <2>4, <2>5, BedsSame
<1> QED
  BY <1>2, <1>3

LEMMA BedsInductive ==
  ASSUME TypeOK, ReservationFollowsPlan, BedsInv, [Next]_vars
  PROVE  BedsInv'
<1>1. ASSUME UNCHANGED <<shelter, reservation>>
      PROVE  BedsInv'
  <2>1. \A s \in Shelters : Ledger!Beds(s)' = Ledger!Beds(s)
    BY <1>1, BedsSame DEF Holds
  <2> QED
    BY <1>1, <2>1, CountedSame DEF BedsInv
<1>2. CASE UNCHANGED db
  BY <1>1, <1>2 DEF db
<1>3. ASSUME NEW c \in Clients,
             CreatePlan(c) \/ SubmitPlan(c) \/ StartPlan(c) \/ CompleteStep(c)
      PROVE  BedsInv'
  BY <1>1, <1>3 DEF CreatePlan, SubmitPlan, StartPlan, UpdatePlanState, CompleteStep
<1>4. ASSUME NEW c \in Clients, RegisterShelter(c)
      PROVE  BedsInv'
  <2>1. PICK s \in Shelters, n \in Capacities :
          /\ shelter[s] = NoShelter
          /\ shelter' = [shelter EXCEPT ![s] =
                           [status |-> "available", capacity |-> n, reserved |-> 0]]
    BY <1>4 DEF RegisterShelter
  <2>2. UNCHANGED reservation
    BY <1>4 DEF RegisterShelter
  <2>3. \A t \in Shelters : Ledger!Beds(t)' = Ledger!Beds(t)
    BY <2>2, BedsSame DEF Holds
  <2>4. n \in Nat
    BY EvacuationAssumption DEF EvacuationAssumption
  <2>5. Counted(s)'
    BY <2>1, <2>3, <2>4 DEF TypeOK, BedsInv, Counted, NoShelter
  <2>6. \A t \in Shelters \ {s} : Counted(t)'
    BY <2>1, <2>3, CountedSame DEF TypeOK, BedsInv
  <2> QED
    BY <2>5, <2>6 DEF BedsInv
<1>5. ASSUME NEW c \in Clients, CompletePlan(c)
      PROVE  BedsInv'
  <2>1. UNCHANGED shelter
    BY <1>5 DEF CompletePlan
  <2>2. \A s \in Shelters : Ledger!Beds(s)' = Ledger!Beds(s)
    BY <1>5, CompleteKeepsBeds
  <2> QED
    BY <2>1, <2>2, CountedSame DEF BedsInv
<1> QED
  BY <1>2, <1>3, <1>4, <1>5, ApproveCounts, CancelCounts, OnlyWrites DEF Writes

LEMMA BedsInit == Init => BedsInv
<1> SUFFICES ASSUME Init PROVE BedsInv
  OBVIOUS
<1>1. \A s : \A p \in Plans : ~Holds(p, s)
  BY DEF Init, Empty, Holds, NoReservation
<1>2. \A s : Ledger!Beds(s) = {}
  BY <1>1, BedsAre
<1>3. Cardinality({}) = 0
  BY FS_EmptySet
<1> QED
  BY <1>2, <1>3 DEF Init, Empty, BedsInv, Counted, NoShelter

LEMMA BedsAlways == Spec => []BedsInv
<1>1. TypeOK /\ ReservationFollowsPlan /\ BedsInv /\ [Next]_vars => BedsInv'
  BY BedsInductive
<1> QED
  BY BedsInit, <1>1, TypeCorrect, ReservationsCorrect, PTL DEF Spec

\* The counter of every shelter is the number of beds its plans hold, although
\* transactions of different requests only ever add to it or subtract from it.
THEOREM CounterCorrect == Spec => []ReservedCountsBeds
<1>1. BedsInv => ReservedCountsBeds
  BY DEF BedsInv, Counted, ReservedCountsBeds
<1> QED
  BY <1>1, BedsAlways, PTL

\* No shelter is ever promised beyond its capacity, for any number of plans,
\* people and concurrent approvals.
THEOREM NeverOverbooked == Spec => []NoOverbooking
<1>1. BedsInv => NoOverbooking
  BY DEF BedsInv, Counted, NoOverbooking
<1> QED
  BY <1>1, BedsAlways, PTL

-------------------------------------------------------------------------------
(* Steps *)

Started == {"executing", "completed", "cancelled"}

\* A request that completes a step was let in while its plan was executing, so
\* the plan can only have been completed or cancelled since.
StepFrames ==
  \A c \in Clients : frame[c].op = "step" => plan[frame[c].plan].status \in Started

\* StepsInOrder for one plan.
InOrder(p) ==
  /\ \A k \in done[p] : 1 .. k - 1 \subseteq done[p]
  /\ done[p] # {} => plan[p].status \in Started
  /\ plan[p].status = "completed" => done[p] = 1 .. plan[p].steps

StepsInv == StepFrames /\ \A p \in Plans : InOrder(p)

LEMMA StepFramesKept ==
  ASSUME TypeOK, StepFrames, [Next]_vars
  PROVE  StepFrames'
<1>1. \A p \in Plans : plan[p].status \in Started => plan'[p].status \in Started
  <2>1. ASSUME NEW p \in Plans, NEW e \in PlanTransitions, Moves(p, e[1], e[2])
        PROVE  \A q \in Plans : plan[q].status \in Started => plan'[q].status \in Started
    BY <2>1 DEF Moves, PlanTransitions, Started
  <2>2. ASSUME NEW q \in Plans, plan[q] = NoPlan,
               \A r \in Plans \ {q} : plan'[r] = plan[r]
        PROVE  \A p \in Plans : plan[p].status \in Started => plan'[p].status \in Started
    BY <2>2 DEF NoPlan, Started
  <2> QED
    BY <2>1, <2>2, PlanMovesOnly
<1>2. \A c \in Clients : frame[c].op = "step" => frame[c].plan \in Plans
  BY FrameShape
<1>3. ASSUME NEW c \in Clients, frame'[c].op = "step", frame'[c] = frame[c]
      PROVE  plan'[frame'[c].plan].status \in Started
  BY <1>1, <1>2, <1>3 DEF StepFrames
<1>4. ASSUME NEW c \in Clients, frame'[c].op = "step", frame'[c] # frame[c]
      PROVE  plan'[frame'[c].plan].status \in Started
  <2>1. frame \in [Clients -> Frames \cup {Idle}]
    BY DEF TypeOK
  <2>2. PICK d \in Clients : Step(d)
    BY <1>4 DEF Next, DeadlinePasses, IncidentMoves, vars
  <2>3. ASSUME Return(d)
        PROVE  FALSE
    BY <1>4, <2>1, <2>3 DEF Return, Idle
  <2>4. ~RegisterShelter(d)
    BY <1>4 DEF RegisterShelter
  <2>5. \/ BeginCreate(d) \/ BeginSubmit(d) \/ BeginApprove(d) \/ BeginStart(d)
        \/ BeginStep(d) \/ BeginComplete(d) \/ BeginCancel(d)
    BY <2>2, <2>3, <2>4
    DEF Step, CreatePlan, SubmitPlan, StartPlan, UpdatePlanState, ApprovePlan,
        CompleteStep, CompletePlan, CancelPlan, RollBack
  <2>6. ASSUME NEW roles, NEW f, Begin(d, roles, f)
        PROVE  frame'[c] = f /\ UNCHANGED plan
    BY <1>4, <2>1, <2>6 DEF Begin, db
  <2>7. ASSUME NEW roles, NEW op, NEW p, NEW v, op # "step"
        PROVE  ~Begin(d, roles, Versioned(op, p, v))
    BY <1>4, <2>6, <2>7 DEF Versioned
  <2>8. ~BeginCreate(d)
    <3>1. ASSUME NEW roles, NEW row
          PROVE  ~Begin(d, roles, [op |-> "create", draft |-> row])
      BY <1>4, <2>6, <3>1
    <3> QED
      BY <3>1, Zenon DEF BeginCreate
  <2>9. BeginStep(d)
    BY <2>5, <2>7, <2>8, Zenon
    DEF BeginSubmit, BeginApprove, BeginStart, BeginComplete, BeginCancel
  <2>10. PICK p \in Plans : /\ plan[p].status = "executing"
                           /\ \E k \in 0 .. plan[p].steps :
                                Begin(d, {"commander", "field_operator"},
                                      [op |-> "step", plan |-> p, step |-> k])
    BY <2>9 DEF BeginStep
  <2> QED
    BY <2>6, <2>10 DEF Started
<1> QED
  BY <1>3, <1>4 DEF StepFrames

LEMMA InOrderFrame ==
  ASSUME NEW p, InOrder(p), plan'[p] = plan[p], done'[p] = done[p]
  PROVE  InOrder(p)'
BY DEF InOrder

LEMMA InOrderKept ==
  ASSUME TypeOK, StepsInv, [Next]_vars
  PROVE  \A p \in Plans : InOrder(p)'
<1>1. \A p \in Plans : InOrder(p)
  BY DEF StepsInv
<1>2. CASE UNCHANGED db
  BY <1>1, <1>2, InOrderFrame DEF db
<1>3. ASSUME NEW c \in Clients, RegisterShelter(c)
      PROVE  \A p \in Plans : InOrder(p)'
  BY <1>1, <1>3, InOrderFrame DEF RegisterShelter
<1>4. ASSUME NEW c \in Clients, CreatePlan(c)
      PROVE  \A p \in Plans : InOrder(p)'
  <2>1. PICK q \in Plans : plan[q] = NoPlan /\ plan' = [plan EXCEPT ![q] = frame[c].draft]
    BY <1>4 DEF CreatePlan
  <2>2. done' = done /\ done[q] = {}
    BY <1>4, <2>1 DEF CreatePlan, TypeOK
  <2>3. plan'[q].status = "draft"
    BY <1>4, <2>1, FrameShape DEF CreatePlan, DraftRows, TypeOK
  <2>4. InOrder(q)'
    BY <2>2, <2>3 DEF InOrder
  <2>5. \A p \in Plans \ {q} : InOrder(p)'
    BY <1>1, <2>1, <2>2, InOrderFrame DEF TypeOK
  <2> QED
    BY <2>4, <2>5
<1>5. ASSUME NEW q \in Plans, NEW from, NEW to, Moves(q, from, to), UNCHANGED done,
             from = "executing" => to \in Started, from \notin {"completed", "cancelled"},
             to = "completed" => AllStepsDone(q)
      PROVE  \A p \in Plans : InOrder(p)'
  <2>1. InOrder(q)'
    BY <1>1, <1>5 DEF InOrder, Moves, AllStepsDone, Started
  <2>2. \A p \in Plans \ {q} : InOrder(p)'
    BY <1>1, <1>5, InOrderFrame DEF Moves
  <2> QED
    BY <2>1, <2>2
<1>6. ASSUME NEW c \in Clients, SubmitPlan(c) \/ StartPlan(c) \/ ApprovePlan(c)
      PROVE  \A p \in Plans : InOrder(p)'
  <2>1. PICK q \in Plans : \/ Moves(q, "draft", "submitted")
                           \/ Moves(q, "approved", "executing")
                           \/ Moves(q, "submitted", "approved")
    BY <1>6, SubmitMoves, StartMoves, ApproveMoves DEF Moves
  <2>2. UNCHANGED done
    BY <1>6 DEF SubmitPlan, StartPlan, UpdatePlanState, ApprovePlan
  <2> QED
    BY <1>5, <2>1, <2>2
<1>7. ASSUME NEW c \in Clients, CompletePlan(c)
      PROVE  \A p \in Plans : InOrder(p)'
  <2>1. PICK q \in Plans : q = frame[c].plan /\ Moves(q, "executing", "completed")
    BY <1>7, CompleteMoves DEF Moves
  <2>2. UNCHANGED done /\ AllStepsDone(q)
    BY <1>7, <2>1 DEF CompletePlan
  <2> QED
    BY <1>5, <2>1, <2>2 DEF Started
<1>8. ASSUME NEW c \in Clients, CancelPlan(c)
      PROVE  \A p \in Plans : InOrder(p)'
  <2>1. PICK q \in Plans, from \in {"draft", "submitted", "approved", "executing"} :
          Moves(q, from, "cancelled")
    BY <1>8, CancelMoves DEF Moves
  <2>2. UNCHANGED done
    BY <1>8 DEF CancelPlan
  <2> QED
    BY <1>5, <2>1, <2>2 DEF Started
<1>9. ASSUME NEW c \in Clients, CompleteStep(c)
      PROVE  \A p \in Plans : InOrder(p)'
  <2>1. PICK q \in Plans, k \in Nat : q = frame[c].plan /\ k = frame[c].step
    BY <1>9, FrameShape DEF CompleteStep
  <2>2. /\ StepReady(q, k) /\ done' = [done EXCEPT ![q] = done[q] \cup {k}]
        /\ UNCHANGED plan
    BY <1>9, <2>1 DEF CompleteStep
  <2>3. plan[q].status \in Started
    BY <1>9, <2>1 DEF CompleteStep, StepsInv, StepFrames
  <2>4. done'[q] = done[q] \cup {k} /\ \A p \in Plans \ {q} : done'[p] = done[p]
    BY <2>2 DEF TypeOK
  <2>5. k \in 1 .. plan[q].steps /\ k \notin done[q] /\ 1 .. k - 1 \subseteq done[q]
    BY <2>2 DEF StepReady
  <2>6. InOrder(q)'
    BY <1>1, <2>2, <2>3, <2>4, <2>5 DEF InOrder
  <2>7. \A p \in Plans \ {q} : InOrder(p)'
    BY <1>1, <2>2, <2>4, InOrderFrame
  <2> QED
    BY <2>6, <2>7
<1> QED
  BY <1>2, <1>3, <1>4, <1>6, <1>7, <1>8, <1>9, OnlyWrites DEF Writes

\* Steps are completed in order and only of plans that started, and a completed
\* plan has none left, although the transaction never looks at the plan.
THEOREM StepsCorrect == Spec => []StepsInOrder
<1>1. Init => StepsInv
  BY DEF Init, Empty, StepsInv, StepFrames, InOrder, Idle, NoPlan
<1>2. TypeOK /\ StepsInv /\ [Next]_vars => StepsInv'
  BY StepFramesKept, InOrderKept DEF StepsInv
<1>3. StepsInv => StepsInOrder
  BY DEF StepsInv, InOrder, StepsInOrder, Started, AllStepsDone
<1> QED
  BY <1>1, <1>2, <1>3, TypeCorrect, PTL DEF Spec

-------------------------------------------------------------------------------
(* Refinement: the evacuation tables implement the ledger of beds *)

Capacity == [s \in Shelters |-> shelter[s].capacity]

LEMMA LedgerSame ==
  ASSUME UNCHANGED reservation,
         \A s \in Shelters : shelter'[s].capacity = shelter[s].capacity
  PROVE  UNCHANGED Ledger!ledger
BY DEF Ledger!ledger

LEMMA CapacityKept ==
  ASSUME TypeOK, NEW s \in Shelters, NEW n \in Nat,
         shelter' = [shelter EXCEPT ![s].reserved = n]
  PROVE  \A t \in Shelters : shelter'[t].capacity = shelter[t].capacity
BY ShelterNumbers

\* The instance carries its own copy of Cardinality.
LEMMA LedgerCardinality ==
  ASSUME NEW S
  PROVE  Ledger!Cardinality(S) = Cardinality(S)
BY DEF Cardinality, Ledger!Cardinality

LEMMA LedgerStep ==
  ASSUME TypeOK, ReservationFollowsPlan, BedsInv, [Next]_vars
  PROVE  [Ledger!Next]_(Ledger!ledger)
<1>1. CASE UNCHANGED db
  BY <1>1, LedgerSame DEF db
<1>2. ASSUME NEW c \in Clients,
             CreatePlan(c) \/ SubmitPlan(c) \/ StartPlan(c) \/ CompleteStep(c)
      PROVE  UNCHANGED Ledger!ledger
  BY <1>2, LedgerSame
  DEF CreatePlan, SubmitPlan, StartPlan, UpdatePlanState, CompleteStep
<1>3. ASSUME NEW c \in Clients, RegisterShelter(c)
      PROVE  Ledger!Next
  <2>1. PICK s \in Shelters, n \in Capacities :
          /\ shelter[s] = NoShelter
          /\ shelter' = [shelter EXCEPT ![s] =
                           [status |-> "available", capacity |-> n, reserved |-> 0]]
    BY <1>3 DEF RegisterShelter
  <2>2. Capacity' = [Capacity EXCEPT ![s] = n] /\ Capacity[s] = 0
    <3>1. /\ shelter'[s].capacity = n /\ shelter[s].capacity = 0
          /\ \A t \in Shelters \ {s} : shelter'[t].capacity = shelter[t].capacity
      BY <2>1 DEF TypeOK, NoShelter
    <3> QED
      BY <3>1 DEF Capacity
  <2>3. UNCHANGED reservation
    BY <1>3 DEF RegisterShelter
  <2>4. Ledger!Open(s)
    BY <2>2, <2>3 DEF Ledger!Open, Capacity
  <2> QED
    BY <2>4 DEF Ledger!Next
<1>4. ASSUME NEW c \in Clients, ApprovePlan(c)
      PROVE  Ledger!Next
  <2>1. PICK p \in Plans : p = frame[c].plan /\ Moves(p, "submitted", "approved")
    BY <1>4, ApproveMoves DEF Moves
  <2>2. PICK s \in Shelters, n \in Evacuees :
          s = plan[p].shelter /\ n = plan[p].people /\ n \in Nat
    BY <2>1, PlanRowFacts DEF Moves
  <2>3. /\ HasRoom(s, n)
        /\ shelter' = [shelter EXCEPT ![s].reserved = shelter[s].reserved + n]
        /\ reservation' = [reservation EXCEPT ![p] =
                             [status |-> "active", shelter |-> s, people |-> n]]
    BY <1>4, <2>1, <2>2 DEF ApprovePlan, SetReserved
  <2>4. reservation[p] = Ledger!NoClaim
    BY <2>1, NotReserved
    DEF ReservationFollowsPlan, Follows, Moves, Ledger!NoClaim, NoReservation
  <2>5. Cardinality(Ledger!Beds(s)) + n <= Capacity[s]
    <3>1. shelter[s].reserved \in Nat /\ shelter[s].capacity \in Nat
      BY ShelterNumbers
    <3>2. shelter[s].capacity - shelter[s].reserved >= n
      BY <2>3 DEF HasRoom
    <3>3. shelter[s].reserved = Cardinality(Ledger!Beds(s))
      BY DEF BedsInv, Counted
    <3> QED
      BY <2>2, <3>1, <3>2, <3>3 DEF Capacity
  <2>6. Capacity' = Capacity
    <3>1. shelter[s].reserved + n \in Nat
      BY <2>2, ShelterNumbers
    <3> QED
      BY <2>3, <3>1, CapacityKept DEF Capacity
  <2>7. Ledger!Take(p, s, n)
    BY <2>3, <2>4, <2>5, <2>6, LedgerCardinality DEF Ledger!Take, Capacity
  <2> QED
    BY <2>7 DEF Ledger!Next
<1>5. ASSUME NEW p \in Plans, NEW to \in {"consumed", "released"},
             SettleReservation(p, to), reservation[p].status = "active",
             Capacity' = Capacity
      PROVE  Ledger!Next
  <2>1. reservation' = [reservation EXCEPT ![p].status = to]
    BY <1>5 DEF SettleReservation
  <2>2. Ledger!Resolve(p, to)
    BY <1>5, <2>1 DEF Ledger!Resolve, Capacity
  <2>3. Ledger!GiveBack(p) \/ Ledger!UseUp(p)
    BY <1>5, <2>2 DEF Ledger!GiveBack, Ledger!UseUp
  <2> QED
    BY <2>3 DEF Ledger!Next
<1>6. ASSUME NEW c \in Clients, CompletePlan(c)
      PROVE  Ledger!Next
  <2>1. PICK p \in Plans : p = frame[c].plan /\ Moves(p, "executing", "completed")
    BY <1>6, CompleteMoves DEF Moves
  <2>2. reservation[p].status = "active"
    BY <2>1 DEF ReservationFollowsPlan, Moves
  <2>3. SettleReservation(p, "consumed") /\ Capacity' = Capacity
    BY <1>6, <2>1 DEF CompletePlan, Capacity
  <2> QED
    BY <1>5, <2>2, <2>3
<1>7. ASSUME NEW c \in Clients, CancelPlan(c)
      PROVE  [Ledger!Next]_(Ledger!ledger)
  <2>1. PICK p \in Plans : p = frame[c].plan /\ plan[p] \in PlanRows
    BY <1>7, FrameShape DEF CancelPlan, VersionedOps
  <2>2. ReleaseBeds(p)
    BY <1>7, <2>1 DEF CancelPlan
  <2>3. CASE reservation[p].status # "active"
    BY <2>2, <2>3, LedgerSame DEF ReleaseBeds
  <2>4. CASE reservation[p].status = "active"
    <3>1. PICK s \in Shelters, n \in Nat :
            s = plan[p].shelter /\ n = reservation[p].people
      BY <2>1, <2>4, PlanRowFacts, ReservationCases, ReservationRowFacts
    <3>2. /\ SettleReservation(p, "released")
          /\ shelter[s].reserved >= n
          /\ shelter' = [shelter EXCEPT ![s].reserved = shelter[s].reserved - n]
      BY <2>2, <2>4, <3>1 DEF ReleaseBeds, SetReserved
    <3>3. shelter[s].reserved - n \in Nat
      BY <3>1, <3>2, ShelterNumbers
    <3>4. Capacity' = Capacity
      BY <3>2, <3>3, CapacityKept DEF Capacity
    <3> QED
      BY <1>5, <2>4, <3>2, <3>4
  <2> QED
    BY <2>3, <2>4
<1> QED
  BY <1>1, <1>2, <1>3, <1>4, <1>6, <1>7, OnlyWrites DEF Writes

\* The store implements the ledger: with any number of requests in flight a
\* plan takes all its beds at once, only if they are free, and gives them back
\* or uses them up exactly once.
THEOREM LedgerImplemented == Spec => ImplementsLedger
<1>1. Init => Ledger!Init
  BY DEF Init, Empty, Ledger!Init, NoShelter, NoReservation, Ledger!NoClaim
<1>2. TypeOK /\ ReservationFollowsPlan /\ BedsInv /\ [Next]_vars
        => [Ledger!Next]_(Ledger!ledger)
  BY LedgerStep
<1> QED
  BY <1>1, <1>2, TypeCorrect, ReservationsCorrect, BedsAlways, PTL
  DEF Spec, ImplementsLedger, Ledger!Spec
================================================================================
