------------------------------ MODULE Evacuation ------------------------------
(***************************************************************************)
(* Shelters, evacuation plans and the beds the plans hold.                 *)
(*                                                                         *)
(* Every HTTP request is a frame that advances in two steps.  The service  *)
(* reads the plan and checks what the request needs (internal/evacuation/  *)
(* service.go); then one store transaction checks part of that again and   *)
(* writes (internal/store/sqlite/evacuation.go).  Nothing is locked        *)
(* between the two, so any other request may commit there.  A transaction  *)
(* is one step: SQLite serialises writers, and an error rolls it back.     *)
(***************************************************************************)
EXTENDS Integers, FiniteSets, Lifecycle

CONSTANTS
  Clients,      \* slots for concurrent requests
  Incidents,
  Plans,        \* ids that newID may hand out
  Shelters,
  RoleOf,       \* the role of the user behind each client
  RegionOf,     \* region of a client ("" is any), an incident or a shelter
  Capacities,   \* shelter sizes offered to RegisterShelter
  Evacuees,     \* evacuee counts offered to CreatePlan
  StepCounts,   \* step counts offered to CreatePlan
  MaxLag        \* a quoted version is at most this far behind the row

ASSUME EvacuationAssumption ==
  /\ IsFiniteSet(Plans)
  /\ RoleOf \in [Clients -> Roles]
  /\ Capacities \subseteq Nat \ {0}
  /\ Evacuees \subseteq Nat \ {0}
  /\ StepCounts \subseteq 2 .. 30
  /\ MaxLag \in Nat

VARIABLES
  shelter,      \* table shelters
  plan,         \* table evacuation_plans
  done,         \* evacuation_steps of each plan with completed_at set
  reservation,  \* table shelter_reservations, UNIQUE(plan_id)
  frame,        \* the request each client has in flight
  late,         \* plans whose deadline is in the past
  operational   \* incidents that are active or stabilizing

db == <<shelter, plan, done, reservation>>
env == <<late, operational>>
vars == <<db, frame, env>>

NoShelter == [status |-> "none", capacity |-> 0, reserved |-> 0]
NoPlan == [status |-> "none"]
NoReservation == [status |-> "none"]
Idle == [op |-> "idle"]

ShelterRows ==
  [status : {"available", "restricted", "closed"}, capacity : Nat, reserved : Nat]
PlanRows ==
  [status : PlanStatus, version : Nat \ {0}, incident : Incidents,
   shelter : Shelters, people : Evacuees, steps : StepCounts]
DraftRows ==
  [status : {"draft"}, version : {1}, incident : Incidents,
   shelter : Shelters, people : Evacuees, steps : StepCounts]
ReservationRows ==
  [status : {"active", "released", "consumed"}, shelter : Shelters,
   people : Evacuees]
Frames ==
  [op : {"create"}, draft : DraftRows]
    \cup [op : {"submit", "approve", "start", "complete", "cancel"},
          plan : Plans, version : Nat]
    \cup [op : {"step"}, plan : Plans, step : 0 .. 30]

Empty ==
  /\ shelter = [s \in Shelters |-> NoShelter]
  /\ plan = [p \in Plans |-> NoPlan]
  /\ done = [p \in Plans |-> {}]
  /\ reservation = [p \in Plans |-> NoReservation]
  /\ frame = [c \in Clients |-> Idle]
  /\ late = {}

Init == Empty /\ operational = {}

-------------------------------------------------------------------------------
(* A request enters its handler, having passed the checks of the service.   *)
(* A caller quotes a version that it has read: the current one or an older. *)

Quoted(version) == {v \in 1 .. version : version - v <= MaxLag}

Begin(c, roles, f) ==
  /\ frame[c] = Idle
  /\ RoleOf[c] \in roles
  /\ frame' = [frame EXCEPT ![c] = f]
  /\ UNCHANGED db

Return(c) == frame' = [frame EXCEPT ![c] = Idle]

\* A request about plan p that quotes a version of it.
Versioned(op, p, v) == [op |-> op, plan |-> p, version |-> v]

\* service CreatePlan: the incident, the shelter and the command are valid.
BeginCreate(c) ==
  \E i \in Incidents, s \in Shelters, n \in Evacuees, k \in StepCounts :
    /\ i \in operational
    /\ RegionOf[c] \in {"", RegionOf[i]}
    /\ shelter[s].status \notin {"none", "closed"}
    /\ RegionOf[s] = RegionOf[i]
    /\ Begin(c, {"commander"},
             [op |-> "create",
              draft |-> [status |-> "draft", version |-> 1, incident |-> i,
                         shelter |-> s, people |-> n, steps |-> k]])

\* service Submit: the version is left to the transaction.
BeginSubmit(c) ==
  \E p \in Plans :
    /\ plan[p].status = "draft"
    /\ p \notin late
    /\ \E v \in Quoted(plan[p].version) :
         Begin(c, {"commander"}, Versioned("submit", p, v))

BeginApprove(c) ==
  \E p \in Plans :
    /\ plan[p].status = "submitted"
    /\ p \notin late
    /\ Begin(c, {"commander"}, Versioned("approve", p, plan[p].version))

BeginStart(c) ==
  \E p \in Plans :
    /\ plan[p].status = "approved"
    /\ \E v \in Quoted(plan[p].version) :
         Begin(c, {"commander", "field_operator"}, Versioned("start", p, v))

\* Step 0 stands for an id that is no step of the plan.
BeginStep(c) ==
  \E p \in Plans :
    /\ plan[p].status = "executing"
    /\ \E k \in 0 .. plan[p].steps :
         Begin(c, {"commander", "field_operator"},
               [op |-> "step", plan |-> p, step |-> k])

BeginComplete(c) ==
  \E p \in Plans :
    /\ plan[p].status = "executing"
    /\ done[p] = 1 .. plan[p].steps
    /\ \E v \in Quoted(plan[p].version) :
         Begin(c, {"commander"}, Versioned("complete", p, v))

BeginCancel(c) ==
  \E p \in Plans :
    /\ <<plan[p].status, "cancelled">> \in PlanTransitions
    /\ \E v \in Quoted(plan[p].version) :
         Begin(c, {"commander"}, Versioned("cancel", p, v))

-------------------------------------------------------------------------------
(* The transactions: each rechecks what it rechecks, writes and returns. *)

\* The guard "AND version = ? AND status = ?" of the plan updates.
PlanAtAny(p, v, s) == plan[p] # NoPlan
PlanAt(p, v, s) == plan[p].version = v /\ plan[p].status = s

\* "SET status = ?, version = version + 1"
SetStatusOnly(p, s) == plan' = [plan EXCEPT ![p].status = s]
SetStatus(p, s) ==
  plan' = [plan EXCEPT ![p] =
             [@ EXCEPT !.status = s, !.version = plan[p].version + 1]]

\* "AND status != 'closed' AND capacity - reserved >= ?"
HasRoomWhenEmpty(s, n) ==
  /\ shelter[s].status # "closed"
  /\ shelter[s].capacity >= n
HasRoomButOne(s, n) ==
  /\ shelter[s].status # "closed"
  /\ shelter[s].capacity - shelter[s].reserved >= n - 1
HasRoom(s, n) ==
  /\ shelter[s].status # "closed"
  /\ shelter[s].capacity - shelter[s].reserved >= n

SetReserved(s, n) == shelter' = [shelter EXCEPT ![s].reserved = n]

\* service and store RegisterShelter: one INSERT, no earlier read.
RegisterShelter(c) ==
  \E s \in Shelters, n \in Capacities :
    /\ RoleOf[c] = "commander"
    /\ RegionOf[c] \in {"", RegionOf[s]}
    /\ shelter[s] = NoShelter
    /\ shelter' = [shelter EXCEPT ![s] =
                     [status |-> "available", capacity |-> n, reserved |-> 0]]
    /\ UNCHANGED <<plan, done, reservation, frame>>

CreatePlan(c) ==
  /\ frame[c].op = "create"
  /\ \E p \in Plans : plan[p] = NoPlan /\ plan' = [plan EXCEPT ![p] = frame[c].draft]
  /\ Return(c)
  /\ UNCHANGED <<shelter, done, reservation>>

UpdatePlanState(c, op, from, to) ==
  /\ frame[c].op = op
  /\ PlanAt(frame[c].plan, frame[c].version, from)
  /\ SetStatus(frame[c].plan, to)
  /\ Return(c)
  /\ UNCHANGED <<shelter, done, reservation>>

SubmitPlan(c) == UpdatePlanState(c, "submit", "draft", "submitted")
StartPlan(c) == UpdatePlanState(c, "start", "approved", "executing")

ApprovePlan(c) ==
  LET p == frame[c].plan
      s == plan[p].shelter
      n == plan[p].people
  IN /\ frame[c].op = "approve"
     /\ PlanAt(p, frame[c].version, "submitted")
     /\ HasRoom(s, n)
     /\ SetReserved(s, shelter[s].reserved + n)
     /\ SetStatus(p, "approved")
     /\ reservation' = [reservation EXCEPT ![p] =
                          [status |-> "active", shelter |-> s, people |-> n]]
     /\ Return(c)
     /\ UNCHANGED done

\* "WHERE id = ? AND plan_id = ? AND completed_at IS NULL AND NOT EXISTS" an
\* earlier step with completed_at NULL
StepReadyAnyPlan(p, k) == k \notin done[p] /\ 1 .. k - 1 \subseteq done[p]
StepReadyAnyOrder(p, k) == k \in (1 .. plan[p].steps) \ done[p]
StepReady(p, k) ==
  /\ k \in (1 .. plan[p].steps) \ done[p]
  /\ 1 .. k - 1 \subseteq done[p]

\* The transaction looks at the steps and not at the plan's status.
CompleteStep(c) ==
  LET p == frame[c].plan
      k == frame[c].step
  IN /\ frame[c].op = "step"
     /\ StepReady(p, k)
     /\ done' = [done EXCEPT ![p] = @ \cup {k}]
     /\ Return(c)
     /\ UNCHANGED <<shelter, plan, reservation>>

\* SELECT COUNT of the plan's steps with completed_at NULL is 0
AllStepsDone(p) == done[p] = 1 .. plan[p].steps

\* "SET status = ? WHERE status = 'active'" on the reservation of the plan
KeepReservation(p, s) == UNCHANGED reservation
SettleReservation(p, s) ==
  reservation' = IF reservation[p].status = "active"
                 THEN [reservation EXCEPT ![p].status = s]
                 ELSE reservation

CompletePlan(c) ==
  LET p == frame[c].plan
  IN /\ frame[c].op = "complete"
     /\ AllStepsDone(p)
     /\ PlanAt(p, frame[c].version, "executing")
     /\ reservation[p] # NoReservation
     /\ SetStatus(p, "completed")
     /\ SettleReservation(p, "consumed")
     /\ Return(c)
     /\ UNCHANGED <<shelter, done>>

\* The beds of an active reservation go back to the plan's shelter.
ReleaseNothing(p) == UNCHANGED <<shelter, reservation>>
ReleaseBeds(p) ==
  LET s == plan[p].shelter
      n == reservation[p].people
  IN IF reservation[p].status = "active"
     THEN /\ shelter[s].reserved >= n
          /\ SetReserved(s, shelter[s].reserved - n)
          /\ SettleReservation(p, "released")
     ELSE UNCHANGED <<shelter, reservation>>

CancelPlan(c) ==
  LET p == frame[c].plan
  IN /\ frame[c].op = "cancel"
     /\ plan[p].version = frame[c].version
     /\ <<plan[p].status, "cancelled">> \in PlanTransitions
     /\ SetStatus(p, "cancelled")
     /\ ReleaseBeds(p)
     /\ Return(c)
     /\ UNCHANGED done

\* A recheck refuses, the context ends, SQLite is busy or the process dies:
\* WithinTx rolls back and nothing but the request itself is lost.
RollBack(c) ==
  /\ frame[c] # Idle
  /\ Return(c)
  /\ UNCHANGED db

-------------------------------------------------------------------------------
\* Time passes a plan's deadline.
DeadlinePasses ==
  \E p \in Plans :
    /\ plan[p] # NoPlan /\ p \notin late
    /\ late' = late \cup {p}
    /\ UNCHANGED <<db, frame, operational>>

\* The hazard service activates an incident or ends it (module Incidents, which
\* says when; nothing here depends on that).
IncidentMoves ==
  \E i \in Incidents :
    /\ operational' \in {operational \cup {i}, operational \ {i}}
    /\ UNCHANGED <<db, frame, late>>

Step(c) ==
  \/ RegisterShelter(c)
  \/ BeginCreate(c) \/ CreatePlan(c)
  \/ BeginSubmit(c) \/ SubmitPlan(c)
  \/ BeginApprove(c) \/ ApprovePlan(c)
  \/ BeginStart(c) \/ StartPlan(c)
  \/ BeginStep(c) \/ CompleteStep(c)
  \/ BeginComplete(c) \/ CompletePlan(c)
  \/ BeginCancel(c) \/ CancelPlan(c)
  \/ RollBack(c)

Next ==
  \/ \E c \in Clients : Step(c) /\ UNCHANGED env
  \/ DeadlinePasses
  \/ IncidentMoves

Spec == Init /\ [][Next]_vars

-------------------------------------------------------------------------------
(* Properties *)

\* Every table row and every frame has the shape its SQL and Go types give it;
\* the recorded steps belong to the plan, and a frame's plan was inserted.
TypeOK ==
  /\ shelter \in [Shelters -> ShelterRows \cup {NoShelter}]
  /\ plan \in [Plans -> PlanRows \cup {NoPlan}]
  /\ done \in [Plans -> SUBSET (1 .. 30)]
  /\ \A p \in Plans :
       IF plan[p] = NoPlan THEN done[p] = {} ELSE done[p] \subseteq 1 .. plan[p].steps
  /\ reservation \in [Plans -> ReservationRows \cup {NoReservation}]
  /\ frame \in [Clients -> Frames \cup {Idle}]
  /\ \A c \in Clients :
       frame[c].op \notin {"idle", "create"} => plan[frame[c].plan] # NoPlan
  /\ late \in SUBSET Plans
  /\ operational \in SUBSET Incidents

\* The shelters as the abstract ledger sees them: no counter, and the beds that
\* plans hold are numbered one by one (Ledger!Beds).
Ledger ==
  INSTANCE ShelterLedger WITH
    Owners <- Plans,
    Blocks <- Evacuees,
    capacity <- [s \in Shelters |-> shelter[s].capacity],
    claim <- reservation

\* The counter shelters.reserved, moved by deltas in two transactions of
\* ApprovePlan and CancelPlan, is always the number of beds really held.
ReservedCountsBeds ==
  \A s \in Shelters : shelter[s].reserved = Cardinality(Ledger!Beds(s))

\* No interleaving of approvals promises more beds than the shelter has.
NoOverbooking ==
  \A s \in Shelters : Cardinality(Ledger!Beds(s)) <= shelter[s].capacity

\* A plan has an active reservation exactly while it is approved or executing
\* and a consumed one exactly when completed, in the shelter and for the people
\* of the plan; a released one belongs to a cancelled plan.
ReservationFollowsPlan ==
  \A p \in Plans :
    /\ reservation[p].status = "active" <=> plan[p].status \in {"approved", "executing"}
    /\ reservation[p].status = "consumed" <=> plan[p].status = "completed"
    /\ reservation[p].status = "released" => plan[p].status = "cancelled"
    /\ reservation[p] # NoReservation =>
         /\ reservation[p].shelter = plan[p].shelter
         /\ reservation[p].people = plan[p].people

\* Steps are completed in order whoever completes them, none before the plan
\* started, and a completed plan has none left.
StepsInOrder ==
  \A p \in Plans :
    /\ \A k \in done[p] : 1 .. k - 1 \subseteq done[p]
    /\ done[p] # {} => plan[p].status \in {"executing", "completed", "cancelled"}
    /\ plan[p].status = "completed" => AllStepsDone(p)

\* The version counts the transitions: a caller who quotes a version names one
\* state of the plan, so no two requests ever succeed from the same version.
VersionNamesState ==
  \A p \in Plans :
    CASE plan[p].status = "draft"     -> plan[p].version = 1
      [] plan[p].status = "submitted" -> plan[p].version = 2
      [] plan[p].status = "approved"  -> plan[p].version = 3
      [] plan[p].status = "executing" -> plan[p].version = 4
      [] plan[p].status = "completed" -> plan[p].version = 5
      [] plan[p].status = "cancelled" -> plan[p].version \in 2 .. 5
      [] OTHER -> plan[p] = NoPlan

\* Whatever the interleaving of requests, a plan's status moves only along
\* planTransitions, and what it is for never changes.
PlanFollowsLifecycle ==
  [][\A p \in Plans :
       (plan[p] # NoPlan /\ plan'[p] # plan[p]) =>
         /\ <<plan[p].status, plan'[p].status>> \in PlanTransitions
         /\ plan'[p].version = plan[p].version + 1
         /\ plan'[p].shelter = plan[p].shelter /\ plan'[p].people = plan[p].people]_vars

\* What the check of service CompleteStep says: "steps can complete only while
\* plan is executing".  The transaction does not repeat the check.
StepsOnlyWhileExecuting ==
  [][\A p \in Plans : done'[p] # done[p] => plan[p].status = "executing"]_vars

\* Approving, completing and cancelling plans implements the ledger: a plan takes
\* its beds once, all or none and only if they are free, and gives them back at
\* most once and never after its people used them.
ImplementsLedger == Ledger!Spec
================================================================================
