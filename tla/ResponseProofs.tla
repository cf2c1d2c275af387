---------------------------- MODULE ResponseProofs ----------------------------
(***************************************************************************)
(* In the whole system each service behaves as its own module says, for    *)
(* any clients and any sets of rows: what is proved of Incidents, of       *)
(* Evacuation and of Dispatch alone holds of the three over one database.  *)
(***************************************************************************)
EXTENDS Response, TLAPS

-------------------------------------------------------------------------------
(* What the services have to keep for each other: rows that are open or      *)
(* active name an incident, and go on naming it.                             *)

IncidentsKept == incident = [i \in Incidents |-> incident[i]]

\* A plan takes its incident from the draft in the frame that creates it.
PlanFrame(f) == f.op = "create" => f.draft \in Evacuation!DraftRows
PlansKept ==
  /\ plan \in [Plans -> Evacuation!PlanRows \cup {Evacuation!NoPlan}]
  /\ evacuationFrame = [c \in EvacuationClients |-> evacuationFrame[c]]
  /\ \A c \in EvacuationClients : PlanFrame(evacuationFrame[c])

DispatchFrame(f) ==
  /\ f.op = "create" => f.draft \in Dispatch!DraftRows
  /\ f.op = "allocate" => f.request \in Requests /\ f.unit \in Units
DeploymentsKept ==
  /\ request \in [Requests -> Dispatch!RequestRows \cup {Dispatch!NoRequest}]
  /\ deployment \in [Deployments -> Dispatch!DeploymentRows \cup {Dispatch!NoDeployment}]
  /\ \A d \in Deployments :
       deployment[d] # Dispatch!NoDeployment =>
         request[deployment[d].request] # Dispatch!NoRequest
  /\ dispatchFrame = [c \in DispatchClients |-> dispatchFrame[c]]
  /\ \A c \in DispatchClients : DispatchFrame(dispatchFrame[c])

Kept == IncidentsKept /\ PlansKept /\ DeploymentsKept

-------------------------------------------------------------------------------
(* Incidents *)

OneIncident ==
  \/ incident' = incident
  \/ \E i \in Incidents : \A j \in Incidents : j # i => incident'[j] = incident[j]

LEMMA HazardEffect ==
  ASSUME IncidentsKept, NEW c \in HazardClients, Hazard!Step(c)
  PROVE  IncidentsKept' /\ OneIncident
<1>1. \/ incident' = incident
      \/ \E i, row : incident' = [incident EXCEPT ![i] = row]
  BY DEF Hazard!Step, Hazard!Activate, Hazard!BeginTransition, Hazard!CountDependencies,
         Hazard!TransitionIncident, Hazard!Move, Hazard!RollBack
<1>2. CASE incident' = incident
  BY <1>2 DEF IncidentsKept, OneIncident
<1>3. ASSUME NEW i, NEW row, incident' = [incident EXCEPT ![i] = row]
      PROVE  IncidentsKept' /\ OneIncident
  <2>1. incident' = [j \in Incidents |-> IF j = i THEN row ELSE incident[j]]
    BY <1>3 DEF IncidentsKept
  <2>2. IncidentsKept'
    BY <2>1 DEF IncidentsKept
  <2>3. \A j \in Incidents : j # i => incident'[j] = incident[j]
    BY <2>1
  <2>4. CASE i \in Incidents
    BY <2>2, <2>3, <2>4 DEF OneIncident
  <2>5. CASE i \notin Incidents
    BY <2>1, <2>5 DEF IncidentsKept, OneIncident
  <2> QED
    BY <2>2, <2>4, <2>5
<1> QED
  BY <1>1, <1>2, <1>3

\* Evacuation and dispatch see at most one incident become operational or cease to be.
LEMMA OperationalMoves ==
  ASSUME OneIncident
  PROVE  \/ Operational' = Operational
         \/ \E i \in Incidents : Operational' \in {Operational \cup {i}, Operational \ {i}}
<1>1. CASE incident' = incident
  BY <1>1 DEF Operational
<1>2. ASSUME NEW i \in Incidents, \A j \in Incidents : j # i => incident'[j] = incident[j]
      PROVE  Operational' \in {Operational \cup {i}, Operational \ {i}}
  <2>1. \A j \in Incidents : j # i => (j \in Operational' <=> j \in Operational)
    BY <1>2 DEF Operational
  <2>2. Operational' \subseteq Incidents /\ Operational \subseteq Incidents
    BY DEF Operational
  <2>3. CASE i \in Operational'
    <3>1. Operational' = Operational \cup {i}
      BY <2>1, <2>2, <2>3
    <3> QED
      BY <3>1
  <2>4. CASE i \notin Operational'
    <3>1. Operational' = Operational \ {i}
      BY <2>1, <2>2, <2>4
    <3> QED
      BY <3>1
  <2> QED
    BY <2>3, <2>4
<1> QED
  BY <1>1, <1>2 DEF OneIncident

-------------------------------------------------------------------------------
(* Plans *)

\* One plan at most changes; it was not open before and is a draft now, or it keeps
\* its incident.
OnePlan ==
  \/ plan' = plan
  \/ \E p \in Plans :
       /\ \A q \in Plans : q # p => plan'[q] = plan[q]
       /\ \/ plan[p].status = "none" /\ plan'[p].status = "draft"
          \/ plan'[p].incident = plan[p].incident

LEMMA PlanRowIs ==
  ASSUME PlansKept, NEW p \in Plans, plan[p].status # "none"
  PROVE  plan[p] \in Evacuation!PlanRows
BY DEF PlansKept, Evacuation!NoPlan

LEMMA SetStatusKeeps ==
  ASSUME PlansKept, NEW p, NEW s \in Evacuation!PlanStatus, plan[p].status # "none",
         Evacuation!SetStatus(p, s)
  PROVE  /\ plan' \in [Plans -> Evacuation!PlanRows \cup {Evacuation!NoPlan}]
         /\ OnePlan
<1> DEFINE row == [plan[p] EXCEPT !.status = s, !.version = plan[p].version + 1]
<1>1. plan' = [plan EXCEPT ![p] = row]
  BY DEF Evacuation!SetStatus
<1>2. plan \in [Plans -> Evacuation!PlanRows \cup {Evacuation!NoPlan}]
  BY DEF PlansKept
<1>3. CASE p \notin Plans
  <2>1. plan' = plan
    BY <1>1, <1>2, <1>3
  <2> QED
    BY <1>2, <2>1 DEF OnePlan
<1>4. CASE p \in Plans
  <2>1. PICK old \in Evacuation!PlanRows : old = plan[p]
    BY <1>4, PlanRowIs
  <2>2. old.version + 1 \in Nat \ {0}
    BY DEF Evacuation!PlanRows
  <2>3. row \in Evacuation!PlanRows /\ row.incident = plan[p].incident
    <3>1. \A r \in Evacuation!PlanRows, v \in Nat \ {0} :
            /\ [r EXCEPT !.status = s, !.version = v] \in Evacuation!PlanRows
            /\ [r EXCEPT !.status = s, !.version = v].incident = r.incident
      BY DEF Evacuation!PlanRows
    <3> QED
      BY <2>1, <2>2, <3>1
  <2> HIDE DEF row
  <2>4. /\ plan' \in [Plans -> Evacuation!PlanRows \cup {Evacuation!NoPlan}]
        /\ plan'[p] = row /\ \A q \in Plans : q # p => plan'[q] = plan[q]
    BY <1>1, <1>2, <1>4, <2>3
  <2> QED
    BY <1>4, <2>3, <2>4 DEF OnePlan
<1> QED
  BY <1>3, <1>4

\* A request enters a handler: no row changes.
LEMMA EvacuationBegins ==
  ASSUME NEW c \in EvacuationClients,
         \/ Evacuation!BeginCreate(c) \/ Evacuation!BeginSubmit(c)
         \/ Evacuation!BeginApprove(c) \/ Evacuation!BeginStart(c)
         \/ Evacuation!BeginStep(c) \/ Evacuation!BeginComplete(c)
         \/ Evacuation!BeginCancel(c)
  PROVE  plan' = plan /\ \E f : PlanFrame(f) /\ evacuationFrame' = [evacuationFrame EXCEPT ![c] = f]
<1>1. ASSUME NEW roles, NEW f, PlanFrame(f), Evacuation!Begin(c, roles, f)
      PROVE  plan' = plan
             /\ \E g : PlanFrame(g) /\ evacuationFrame' = [evacuationFrame EXCEPT ![c] = g]
  BY <1>1 DEF Evacuation!Begin, Evacuation!db
<1>2. CASE Evacuation!BeginCreate(c)
  <2>1. PICK i \in Incidents, s \in Shelters, n \in Evacuees, k \in StepCounts :
          Evacuation!Begin(c, {"commander"},
             [op |-> "create",
              draft |-> [status |-> "draft", version |-> 1, incident |-> i,
                         shelter |-> s, people |-> n, steps |-> k]])
    BY <1>2 DEF Evacuation!BeginCreate
  <2>2. [status |-> "draft", version |-> 1, incident |-> i,
         shelter |-> s, people |-> n, steps |-> k] \in Evacuation!DraftRows
    BY DEF Evacuation!DraftRows
  <2>3. PlanFrame([op |-> "create",
                   draft |-> [status |-> "draft", version |-> 1, incident |-> i,
                              shelter |-> s, people |-> n, steps |-> k]])
    BY <2>2 DEF PlanFrame
  <2> QED
    BY <1>1, <2>1, <2>3
<1>3. \A op, p, v : op # "create" => PlanFrame(Evacuation!Versioned(op, p, v))
  BY DEF PlanFrame, Evacuation!Versioned
<1>4. \A p, k : PlanFrame([op |-> "step", plan |-> p, step |-> k])
  BY DEF PlanFrame
<1>5. CASE Evacuation!BeginStep(c)
  BY <1>1, <1>4, <1>5 DEF Evacuation!BeginStep
<1>6. CASE Evacuation!BeginSubmit(c)
  BY <1>1, <1>3, <1>6 DEF Evacuation!BeginSubmit
<1>7. CASE Evacuation!BeginApprove(c)
  BY <1>1, <1>3, <1>7 DEF Evacuation!BeginApprove
<1>8. CASE Evacuation!BeginStart(c)
  BY <1>1, <1>3, <1>8 DEF Evacuation!BeginStart
<1>9. CASE Evacuation!BeginComplete(c)
  BY <1>1, <1>3, <1>9 DEF Evacuation!BeginComplete
<1>10. CASE Evacuation!BeginCancel(c)
  BY <1>1, <1>3, <1>10 DEF Evacuation!BeginCancel
<1> QED
  BY <1>2, <1>5, <1>6, <1>7, <1>8, <1>9, <1>10

LEMMA EvacuationCommits ==
  ASSUME PlansKept, NEW c \in EvacuationClients,
         \/ Evacuation!RegisterShelter(c) \/ Evacuation!CreatePlan(c)
         \/ Evacuation!SubmitPlan(c) \/ Evacuation!ApprovePlan(c)
         \/ Evacuation!StartPlan(c) \/ Evacuation!CompleteStep(c)
         \/ Evacuation!CompletePlan(c) \/ Evacuation!CancelPlan(c)
         \/ Evacuation!RollBack(c)
  PROVE  /\ plan' \in [Plans -> Evacuation!PlanRows \cup {Evacuation!NoPlan}]
         /\ OnePlan
         /\ \/ evacuationFrame' = evacuationFrame
            \/ evacuationFrame' = [evacuationFrame EXCEPT ![c] = Evacuation!Idle]
<1> USE DEF Evacuation!Return
<1>1. CASE Evacuation!RegisterShelter(c) \/ Evacuation!CompleteStep(c) \/ Evacuation!RollBack(c)
  BY <1>1 DEF Evacuation!RegisterShelter, Evacuation!CompleteStep, Evacuation!RollBack,
              Evacuation!db, PlansKept, OnePlan
<1>2. CASE Evacuation!CreatePlan(c)
  <2>1. evacuationFrame[c].draft \in Evacuation!DraftRows
    BY <1>2 DEF Evacuation!CreatePlan, PlansKept, PlanFrame
  <2>2. PICK row \in Evacuation!DraftRows : row = evacuationFrame[c].draft
    BY <2>1
  <2>3. row \in Evacuation!PlanRows /\ row.status = "draft"
    <3>1. Evacuation!DraftRows \subseteq Evacuation!PlanRows
      BY DEF Evacuation!PlanRows, Evacuation!DraftRows, Evacuation!PlanStatus
    <3> QED
      BY <3>1 DEF Evacuation!DraftRows
  <2>4. PICK p \in Plans : plan[p] = Evacuation!NoPlan /\ plan' = [plan EXCEPT ![p] = row]
    BY <1>2, <2>2 DEF Evacuation!CreatePlan
  <2>5. /\ plan' \in [Plans -> Evacuation!PlanRows \cup {Evacuation!NoPlan}]
        /\ plan'[p] = row /\ \A q \in Plans : q # p => plan'[q] = plan[q]
    BY <2>3, <2>4 DEF PlansKept
  <2>6. plan[p].status = "none"
    BY <2>4 DEF Evacuation!NoPlan
  <2>7. OnePlan
    BY <2>3, <2>5, <2>6 DEF OnePlan
  <2> QED
    BY <1>2, <2>5, <2>7 DEF Evacuation!CreatePlan
<1>3. ASSUME NEW p, NEW s \in Evacuation!PlanStatus, plan[p].status # "none", Evacuation!SetStatus(p, s),
             evacuationFrame' = [evacuationFrame EXCEPT ![c] = Evacuation!Idle]
      PROVE  /\ plan' \in [Plans -> Evacuation!PlanRows \cup {Evacuation!NoPlan}]
             /\ OnePlan
             /\ \/ evacuationFrame' = evacuationFrame
                \/ evacuationFrame' = [evacuationFrame EXCEPT ![c] = Evacuation!Idle]
  BY <1>3, SetStatusKeeps
<1>4. {"submitted", "approved", "executing", "completed", "cancelled"} \subseteq Evacuation!PlanStatus
  BY DEF Evacuation!PlanStatus
<1>5. CASE Evacuation!SubmitPlan(c) \/ Evacuation!StartPlan(c)
  BY <1>3, <1>4, <1>5 DEF Evacuation!SubmitPlan, Evacuation!StartPlan,
                          Evacuation!UpdatePlanState, Evacuation!PlanAt
<1>6. CASE Evacuation!ApprovePlan(c)
  BY <1>3, <1>4, <1>6 DEF Evacuation!ApprovePlan, Evacuation!PlanAt
<1>7. CASE Evacuation!CompletePlan(c)
  BY <1>3, <1>4, <1>7 DEF Evacuation!CompletePlan, Evacuation!PlanAt
<1>8. CASE Evacuation!CancelPlan(c)
  <2>1. \A from : <<from, "cancelled">> \in Evacuation!PlanTransitions => from # "none"
    BY DEF Evacuation!PlanTransitions
  <2> QED
    BY <1>3, <1>4, <1>8, <2>1 DEF Evacuation!CancelPlan, Evacuation!Return
<1> QED
  BY <1>1, <1>2, <1>5, <1>6, <1>7, <1>8

LEMMA EvacuationEffect ==
  ASSUME PlansKept, NEW c \in EvacuationClients, Evacuation!Step(c)
  PROVE  PlansKept' /\ OnePlan
<1>1. /\ plan' \in [Plans -> Evacuation!PlanRows \cup {Evacuation!NoPlan}]
      /\ OnePlan
      /\ \/ evacuationFrame' = evacuationFrame
         \/ \E f : PlanFrame(f) /\ evacuationFrame' = [evacuationFrame EXCEPT ![c] = f]
  <2>1. PlanFrame(Evacuation!Idle)
    BY DEF PlanFrame, Evacuation!Idle
  <2>2. ASSUME plan' = plan
        PROVE  plan' \in [Plans -> Evacuation!PlanRows \cup {Evacuation!NoPlan}] /\ OnePlan
    BY <2>2 DEF PlansKept, OnePlan
  <2> QED
    BY <2>1, <2>2, EvacuationBegins, EvacuationCommits DEF Evacuation!Step
<1>2. /\ evacuationFrame' = [x \in EvacuationClients |-> evacuationFrame'[x]]
      /\ \A x \in EvacuationClients : PlanFrame(evacuationFrame'[x])
  <2>1. CASE evacuationFrame' = evacuationFrame
    BY <2>1 DEF PlansKept
  <2>2. ASSUME NEW f, PlanFrame(f), evacuationFrame' = [evacuationFrame EXCEPT ![c] = f]
        PROVE  /\ evacuationFrame' = [x \in EvacuationClients |-> evacuationFrame'[x]]
               /\ \A x \in EvacuationClients : PlanFrame(evacuationFrame'[x])
    <3>1. evacuationFrame' =
            [x \in EvacuationClients |-> IF x = c THEN f ELSE evacuationFrame[x]]
      BY <2>2 DEF PlansKept
    <3> QED
      BY <2>2, <3>1 DEF PlansKept
  <2> QED
    BY <1>1, <2>1, <2>2
<1> QED
  BY <1>1, <1>2 DEF PlansKept

-------------------------------------------------------------------------------
(* Requests and deployments *)

\* An inserted request keeps its incident.
RequestsKeep ==
  \A r \in Requests :
    request[r] # Dispatch!NoRequest =>
      request'[r] # Dispatch!NoRequest /\ request'[r].incident = request[r].incident

\* One deployment at most changes; it is a new one, or keeps its request.
OneDeployment ==
  \/ deployment' = deployment
  \/ \E d \in Deployments :
       /\ \A e \in Deployments : e # d => deployment'[e] = deployment[e]
       /\ deployment'[d] # Dispatch!NoDeployment
       /\ \/ /\ deployment[d].status = "none"
             /\ deployment'[d].request \in Requests
             /\ request[deployment'[d].request] # Dispatch!NoRequest
          \/ /\ deployment[d] # Dispatch!NoDeployment
             /\ deployment'[d].request = deployment[d].request

RequestsTyped == request \in [Requests -> Dispatch!RequestRows \cup {Dispatch!NoRequest}]
DeploymentsTyped ==
  deployment \in [Deployments -> Dispatch!DeploymentRows \cup {Dispatch!NoDeployment}]

LEMMA RowsDiffer ==
  /\ \A row \in Dispatch!RequestRows : row # Dispatch!NoRequest /\ row.status # "none"
  /\ \A row \in Dispatch!DeploymentRows :
       row # Dispatch!NoDeployment /\ row.status # "none" /\ row.request \in Requests
  /\ Dispatch!NoRequest.status = "none" /\ Dispatch!NoDeployment.status = "none"
BY DEF Dispatch!RequestRows, Dispatch!NoRequest, Dispatch!RequestStatus,
       Dispatch!DeploymentRows, Dispatch!NoDeployment, Dispatch!DeploymentStatus

LEMMA SetRequestKeeps ==
  ASSUME DeploymentsKept, NEW r, NEW s \in Dispatch!RequestStatus,
         request[r].status # "none", Dispatch!SetRequest(r, s)
  PROVE  RequestsTyped' /\ RequestsKeep
<1> DEFINE row == [request[r] EXCEPT !.status = s, !.version = request[r].version + 1]
<1>1. request' = [request EXCEPT ![r] = row]
  BY DEF Dispatch!SetRequest
<1>2. request \in [Requests -> Dispatch!RequestRows \cup {Dispatch!NoRequest}]
  BY DEF DeploymentsKept
<1>3. CASE r \notin Requests
  <2>1. request' = request
    BY <1>1, <1>2, <1>3
  <2> QED
    BY <1>2, <2>1 DEF RequestsTyped, RequestsKeep
<1>4. CASE r \in Requests
  <2>1. PICK old \in Dispatch!RequestRows : old = request[r]
    BY <1>2, <1>4, RowsDiffer
  <2>2. old.version + 1 \in Nat \ {0}
    BY DEF Dispatch!RequestRows
  <2>3. row \in Dispatch!RequestRows /\ row.incident = request[r].incident
    <3>1. \A q \in Dispatch!RequestRows, v \in Nat \ {0} :
            /\ [q EXCEPT !.status = s, !.version = v] \in Dispatch!RequestRows
            /\ [q EXCEPT !.status = s, !.version = v].incident = q.incident
      BY DEF Dispatch!RequestRows
    <3> QED
      BY <2>1, <2>2, <3>1
  <2> HIDE DEF row
  <2>4. /\ request' \in [Requests -> Dispatch!RequestRows \cup {Dispatch!NoRequest}]
        /\ request'[r] = row /\ \A q \in Requests : q # r => request'[q] = request[q]
    BY <1>1, <1>2, <1>4, <2>3
  <2> QED
    BY <1>4, <2>3, <2>4, RowsDiffer DEF RequestsTyped, RequestsKeep
<1> QED
  BY <1>3, <1>4

LEMMA DispatchBegins ==
  ASSUME NEW c \in DispatchClients, NEW a \in Users,
         \/ Dispatch!BeginCreate(c, a) \/ Dispatch!BeginApprove(c, a)
         \/ Dispatch!BeginAllocate(c, a) \/ Dispatch!BeginTransition(c, a)
  PROVE  /\ request' = request /\ deployment' = deployment
         /\ \E f : DispatchFrame(f) /\ dispatchFrame' = [dispatchFrame EXCEPT ![c] = f]
<1>1. ASSUME NEW roles, NEW f, DispatchFrame(f), Dispatch!Begin(c, a, roles, f)
      PROVE  /\ request' = request /\ deployment' = deployment
             /\ \E g : DispatchFrame(g) /\ dispatchFrame' = [dispatchFrame EXCEPT ![c] = g]
  BY <1>1 DEF Dispatch!Begin, Dispatch!db
<1>2. CASE Dispatch!BeginCreate(c, a)
  <2>1. PICK i \in Incidents, k \in Skills, n \in Quantities :
          Dispatch!Begin(c, a, {"commander", "field_operator"},
             [op |-> "create",
              draft |-> [status |-> "requested", version |-> 1, incident |-> i,
                         skill |-> k, quantity |-> n]])
    BY <1>2 DEF Dispatch!BeginCreate
  <2>2. [status |-> "requested", version |-> 1, incident |-> i,
         skill |-> k, quantity |-> n] \in Dispatch!DraftRows
    BY DEF Dispatch!DraftRows
  <2>3. DispatchFrame([op |-> "create",
                       draft |-> [status |-> "requested", version |-> 1, incident |-> i,
                                  skill |-> k, quantity |-> n]])
    BY <2>2 DEF DispatchFrame
  <2> QED
    BY <1>1, <2>1, <2>3
<1>3. CASE Dispatch!BeginApprove(c, a)
  <2>1. \A r, v : DispatchFrame([op |-> "approve", request |-> r, version |-> v])
    BY DEF DispatchFrame
  <2> QED
    BY <1>1, <1>3, <2>1 DEF Dispatch!BeginApprove
<1>4. CASE Dispatch!BeginAllocate(c, a)
  <2>1. \A r \in Requests, u \in Units : \A v, w :
          DispatchFrame([op |-> "allocate", request |-> r, version |-> v,
                         unit |-> u, unitVersion |-> w])
    BY DEF DispatchFrame
  <2> QED
    BY <1>1, <1>4, <2>1 DEF Dispatch!BeginAllocate
<1>5. CASE Dispatch!BeginTransition(c, a)
  <2>1. \A d, v, to :
          DispatchFrame([op |-> "transition", deployment |-> d, version |-> v, to |-> to])
    BY DEF DispatchFrame
  <2> QED
    BY <1>1, <1>5, <2>1 DEF Dispatch!BeginTransition
<1> QED
  BY <1>2, <1>3, <1>4, <1>5

LEMMA AllocateKeeps ==
  ASSUME DeploymentsKept, NEW c \in DispatchClients, Dispatch!AllocateUnit(c)
  PROVE  RequestsTyped' /\ RequestsKeep /\ DeploymentsTyped' /\ OneDeployment
<1>1. PICK r \in Requests, u \in Units :
        r = dispatchFrame[c].request /\ u = dispatchFrame[c].unit
  BY DEF Dispatch!AllocateUnit, DeploymentsKept, DispatchFrame
<1>2. request[r].status # "none" /\ request[r] # Dispatch!NoRequest
  BY <1>1, RowsDiffer DEF Dispatch!AllocateUnit, Dispatch!RequestAt, Dispatch!Allocatable
<1>3. PICK s \in Dispatch!RequestStatus : Dispatch!SetRequest(r, s)
  BY <1>1 DEF Dispatch!AllocateUnit, Dispatch!AllocationStatus, Dispatch!RequestStatus
<1>4. RequestsTyped' /\ RequestsKeep
  BY <1>2, <1>3, SetRequestKeeps
<1> DEFINE row == [status |-> "assigned", version |-> 1, request |-> r, unit |-> u]
<1>5. PICK d \in Deployments :
        /\ deployment[d] = Dispatch!NoDeployment
        /\ deployment' = [deployment EXCEPT ![d] = row]
  BY <1>1 DEF Dispatch!AllocateUnit
<1>6. row \in Dispatch!DeploymentRows /\ row.request = r
  BY DEF Dispatch!DeploymentRows, Dispatch!DeploymentStatus
<1> HIDE DEF row
<1>7. /\ DeploymentsTyped' /\ deployment'[d] = row
      /\ \A e \in Deployments : e # d => deployment'[e] = deployment[e]
  BY <1>5, <1>6 DEF DeploymentsKept, DeploymentsTyped
<1>8. OneDeployment
  BY <1>2, <1>5, <1>6, <1>7, RowsDiffer DEF OneDeployment
<1> QED
  BY <1>4, <1>7, <1>8

LEMMA TransitionKeeps ==
  ASSUME DeploymentsKept, NEW c \in DispatchClients, Dispatch!TransitionDeployment(c)
  PROVE  RequestsTyped' /\ RequestsKeep /\ DeploymentsTyped' /\ OneDeployment
<1> DEFINE d == dispatchFrame[c].deployment
           to == dispatchFrame[c].to
           row == [deployment[d] EXCEPT !.status = to, !.version = deployment[d].version + 1]
<1>1. /\ <<deployment[d].status, to>> \in Dispatch!DeploymentTransitions
      /\ deployment' = [deployment EXCEPT ![d] = row]
      /\ Dispatch!SettleRequest(deployment[d].request, d) \/ request' = request
  BY DEF Dispatch!TransitionDeployment, Dispatch!DeploymentAt
<1>2. deployment[d].status # "none" /\ to \in Dispatch!DeploymentStatus
  BY <1>1 DEF Dispatch!DeploymentTransitions, Dispatch!DeploymentStatus
<1>3. RequestsTyped' /\ RequestsKeep
  <2>1. CASE request' = request
    BY <2>1 DEF DeploymentsKept, RequestsTyped, RequestsKeep
  <2>2. ASSUME NEW r, Dispatch!SettleRequest(r, d), request' # request
        PROVE  RequestsTyped' /\ RequestsKeep
    <3>1. Dispatch!SetRequest(r, "fulfilled") /\ request[r].status # "none"
      BY <2>2 DEF Dispatch!SettleRequest
    <3> QED
      BY <3>1, SetRequestKeeps DEF Dispatch!RequestStatus
  <2> QED
    BY <1>1, <2>1, <2>2
<1>4. deployment \in [Deployments -> Dispatch!DeploymentRows \cup {Dispatch!NoDeployment}]
  BY DEF DeploymentsKept
<1>5. CASE d \notin Deployments
  <2>1. deployment' = deployment
    BY <1>1, <1>4, <1>5
  <2> QED
    BY <1>3, <1>4, <2>1 DEF DeploymentsTyped, OneDeployment
<1>6. CASE d \in Deployments
  <2>1. PICK old \in Dispatch!DeploymentRows : old = deployment[d]
    BY <1>2, <1>4, <1>6, RowsDiffer
  <2>2. old.version + 1 \in Nat \ {0}
    BY DEF Dispatch!DeploymentRows
  <2>3. row \in Dispatch!DeploymentRows /\ row.request = deployment[d].request
    <3>1. \A q \in Dispatch!DeploymentRows, v \in Nat \ {0}, s \in Dispatch!DeploymentStatus :
            /\ [q EXCEPT !.status = s, !.version = v] \in Dispatch!DeploymentRows
            /\ [q EXCEPT !.status = s, !.version = v].request = q.request
      BY DEF Dispatch!DeploymentRows
    <3> QED
      BY <1>2, <2>1, <2>2, <3>1
  <2> HIDE DEF row
  <2>4. /\ DeploymentsTyped' /\ deployment'[d] = row
        /\ \A e \in Deployments : e # d => deployment'[e] = deployment[e]
    BY <1>1, <1>4, <1>6, <2>3 DEF DeploymentsTyped
  <2>5. deployment[d] # Dispatch!NoDeployment /\ row # Dispatch!NoDeployment
    BY <2>1, <2>3, RowsDiffer
  <2>6. OneDeployment
    BY <1>6, <2>3, <2>4, <2>5 DEF OneDeployment
  <2> QED
    BY <1>3, <2>4, <2>6
<1> QED
  BY <1>5, <1>6

LEMMA DispatchCommits ==
  ASSUME DeploymentsKept, NEW c \in DispatchClients,
         \/ \E a \in Users : Dispatch!RegisterUnit(a)
         \/ Dispatch!CreateRequest(c) \/ Dispatch!ApproveRequest(c)
         \/ Dispatch!AllocateUnit(c) \/ Dispatch!TransitionDeployment(c)
         \/ Dispatch!RollBack(c)
  PROVE  /\ RequestsTyped' /\ RequestsKeep /\ DeploymentsTyped' /\ OneDeployment
         /\ \/ dispatchFrame' = dispatchFrame
            \/ dispatchFrame' = [dispatchFrame EXCEPT ![c] = Dispatch!Idle]
<1>1. \/ dispatchFrame' = dispatchFrame
      \/ dispatchFrame' = [dispatchFrame EXCEPT ![c] = Dispatch!Idle]
  BY DEF Dispatch!RegisterUnit, Dispatch!CreateRequest, Dispatch!ApproveRequest,
         Dispatch!AllocateUnit, Dispatch!TransitionDeployment, Dispatch!RollBack,
         Dispatch!Return
<1>2. CASE (\E a \in Users : Dispatch!RegisterUnit(a)) \/ Dispatch!RollBack(c)
  <2>1. request' = request /\ deployment' = deployment
    BY <1>2 DEF Dispatch!RegisterUnit, Dispatch!RollBack, Dispatch!db
  <2> QED
    BY <1>1, <2>1 DEF DeploymentsKept, RequestsTyped, RequestsKeep, DeploymentsTyped,
                      OneDeployment
<1>3. ASSUME deployment' = deployment
      PROVE  DeploymentsTyped' /\ OneDeployment
  BY <1>3 DEF DeploymentsKept, DeploymentsTyped, OneDeployment
<1>4. CASE Dispatch!CreateRequest(c)
  <2>1. PICK row \in Dispatch!DraftRows : row = dispatchFrame[c].draft
    BY <1>4 DEF Dispatch!CreateRequest, DeploymentsKept, DispatchFrame
  <2>2. Dispatch!DraftRows \subseteq Dispatch!RequestRows
    BY DEF Dispatch!DraftRows, Dispatch!RequestRows, Dispatch!RequestStatus
  <2>3. PICK r \in Requests :
          request[r] = Dispatch!NoRequest /\ request' = [request EXCEPT ![r] = row]
    BY <1>4, <2>1 DEF Dispatch!CreateRequest
  <2>4. RequestsTyped' /\ \A q \in Requests : q # r => request'[q] = request[q]
    BY <2>2, <2>3 DEF DeploymentsKept, RequestsTyped
  <2> QED
    BY <1>1, <1>3, <1>4, <2>3, <2>4 DEF RequestsKeep, Dispatch!CreateRequest
<1>5. CASE Dispatch!ApproveRequest(c)
  <2>1. request[dispatchFrame[c].request].status # "none"
        /\ Dispatch!SetRequest(dispatchFrame[c].request, "approved")
    BY <1>5 DEF Dispatch!ApproveRequest, Dispatch!RequestAt
  <2>2. RequestsTyped' /\ RequestsKeep
    BY <2>1, SetRequestKeeps DEF Dispatch!RequestStatus
  <2> QED
    BY <1>1, <1>3, <1>5, <2>2 DEF Dispatch!ApproveRequest
<1> QED
  BY <1>1, <1>2, <1>4, <1>5, AllocateKeeps, TransitionKeeps

LEMMA DispatchEffect ==
  ASSUME DeploymentsKept, NEW c \in DispatchClients, Dispatch!Step(c)
  PROVE  DeploymentsKept' /\ RequestsKeep /\ OneDeployment
<1>1. /\ RequestsTyped' /\ RequestsKeep /\ DeploymentsTyped' /\ OneDeployment
      /\ \/ dispatchFrame' = dispatchFrame
         \/ \E f : DispatchFrame(f) /\ dispatchFrame' = [dispatchFrame EXCEPT ![c] = f]
  <2>1. DispatchFrame(Dispatch!Idle)
    BY DEF DispatchFrame, Dispatch!Idle
  <2>2. ASSUME request' = request, deployment' = deployment
        PROVE  RequestsTyped' /\ RequestsKeep /\ DeploymentsTyped' /\ OneDeployment
    BY <2>2 DEF DeploymentsKept, RequestsTyped, RequestsKeep, DeploymentsTyped, OneDeployment
  <2> QED
    BY <2>1, <2>2, DispatchBegins, DispatchCommits DEF Dispatch!Step
<1>2. /\ dispatchFrame' = [x \in DispatchClients |-> dispatchFrame'[x]]
      /\ \A x \in DispatchClients : DispatchFrame(dispatchFrame'[x])
  <2>1. CASE dispatchFrame' = dispatchFrame
    BY <2>1 DEF DeploymentsKept
  <2>2. ASSUME NEW f, DispatchFrame(f), dispatchFrame' = [dispatchFrame EXCEPT ![c] = f]
        PROVE  /\ dispatchFrame' = [x \in DispatchClients |-> dispatchFrame'[x]]
               /\ \A x \in DispatchClients : DispatchFrame(dispatchFrame'[x])
    <3>1. dispatchFrame' =
            [x \in DispatchClients |-> IF x = c THEN f ELSE dispatchFrame[x]]
      BY <2>2 DEF DeploymentsKept
    <3> QED
      BY <2>2, <3>1 DEF DeploymentsKept
  <2> QED
    BY <1>1, <2>1, <2>2
<1>3. ASSUME NEW d \in Deployments, deployment'[d] # Dispatch!NoDeployment
      PROVE  request'[deployment'[d].request] # Dispatch!NoRequest
  <2>1. /\ deployment[d] # Dispatch!NoDeployment =>
             deployment[d].request \in Requests
             /\ request[deployment[d].request] # Dispatch!NoRequest
    BY RowsDiffer DEF DeploymentsKept
  <2>2. deployment'[d].request \in Requests /\ request[deployment'[d].request] # Dispatch!NoRequest
    BY <1>1, <1>3, <2>1 DEF OneDeployment
  <2> QED
    BY <1>1, <2>2 DEF RequestsKeep
<1> QED
  BY <1>1, <1>2, <1>3 DEF DeploymentsKept, RequestsTyped, DeploymentsTyped

-------------------------------------------------------------------------------
(* What incidents see of a step of the others: at most one incident gets its *)
(* first open plan or active deployment, or loses its last.                  *)

\* All incidents but one, which need not even be in the table, are as busy as before.
OnlyAbout(i) == \A j \in Incidents : j # i => (j \in Busy' <=> j \in Busy)

LEMMA BusyMoves ==
  ASSUME NEW i, OnlyAbout(i)
  PROVE  Busy' = Busy \/ \E j \in Incidents : Busy' \in {Busy \cup {j}, Busy \ {j}}
<1>1. Busy' \subseteq Incidents /\ Busy \subseteq Incidents
  BY DEF Busy
<1>2. CASE i \notin Incidents
  <2>1. Busy' = Busy
    BY <1>1, <1>2 DEF OnlyAbout
  <2> QED
    BY <2>1
<1>3. CASE i \in Incidents
  <2>1. CASE i \in Busy'
    <3>1. Busy' = Busy \cup {i}
      BY <1>1, <1>3, <2>1 DEF OnlyAbout
    <3> QED
      BY <1>3, <3>1
  <2>2. CASE i \notin Busy'
    <3>1. Busy' = Busy \ {i}
      BY <1>1, <1>3, <2>2 DEF OnlyAbout
    <3> QED
      BY <1>3, <3>1
  <2> QED
    BY <2>1, <2>2
<1> QED
  BY <1>2, <1>3

LEMMA PlansMoveBusy ==
  ASSUME OnePlan, UNCHANGED dispatch
  PROVE  \E i : OnlyAbout(i)
<1>1. request' = request /\ deployment' = deployment
  BY DEF dispatch
<1>2. CASE plan' = plan
  <2>1. \A i : OnlyAbout(i)
    BY <1>1, <1>2 DEF OnlyAbout, Busy
  <2> QED
    BY <2>1
<1>3. ASSUME NEW p \in Plans,
             \A q \in Plans : q # p => plan'[q] = plan[q],
             \/ plan[p].status = "none" /\ plan'[p].status = "draft"
             \/ plan'[p].incident = plan[p].incident
      PROVE  OnlyAbout(plan[p].incident)
  <2>1. "none" \notin OpenPlanStatus /\ "draft" \notin OpenPlanStatus
    BY DEF OpenPlanStatus
  <2>2. ASSUME NEW j \in Incidents, j # plan[p].incident, NEW q \in Plans
        PROVE  (plan'[q].status \in OpenPlanStatus /\ plan'[q].incident = j)
                 <=> (plan[q].status \in OpenPlanStatus /\ plan[q].incident = j)
    BY <1>3, <2>1, <2>2
  <2> QED
    BY <1>1, <2>2 DEF OnlyAbout, Busy
<1> QED
  BY <1>2, <1>3 DEF OnePlan

LEMMA DeploymentsMoveBusy ==
  ASSUME DeploymentsKept, OneDeployment, RequestsKeep, plan' = plan
  PROVE  \E i : OnlyAbout(i)
<1> DEFINE Holds(d, j) ==
      /\ deployment[d].status \in ActiveDeployment
      /\ request[deployment[d].request].incident = j
<1>1. "none" \notin ActiveDeployment
  BY DEF ActiveDeployment
<1>2. ASSUME NEW d \in Deployments, deployment[d] # Dispatch!NoDeployment
      PROVE  request'[deployment[d].request].incident = request[deployment[d].request].incident
  <2>1. deployment[d].request \in Requests
        /\ request[deployment[d].request] # Dispatch!NoRequest
    BY <1>2, RowsDiffer DEF DeploymentsKept
  <2> QED
    BY <2>1 DEF RequestsKeep
<1>3. ASSUME NEW d \in Deployments, deployment'[d] = deployment[d], NEW j
      PROVE  Holds(d, j)' <=> Holds(d, j)
  <2>1. CASE deployment[d] = Dispatch!NoDeployment
    BY <1>1, <1>3, <2>1, RowsDiffer
  <2>2. CASE deployment[d] # Dispatch!NoDeployment
    BY <1>2, <1>3, <2>2
  <2> QED
    BY <2>1, <2>2
<1>4. ASSUME NEW i,
             \A j \in Incidents : j # i =>
               \A d \in Deployments : Holds(d, j)' <=> Holds(d, j)
      PROVE  OnlyAbout(i)
  BY <1>4 DEF OnlyAbout, Busy
<1>5. CASE deployment' = deployment
  <2>1. \A i : OnlyAbout(i)
    BY <1>3, <1>4, <1>5
  <2> QED
    BY <2>1
<1>6. ASSUME NEW d \in Deployments,
             \A e \in Deployments : e # d => deployment'[e] = deployment[e],
             \/ deployment[d].status = "none"
             \/ /\ deployment[d] # Dispatch!NoDeployment
                /\ deployment'[d].request = deployment[d].request
      PROVE  \E i : OnlyAbout(i)
  <2>1. PICK i : i = request'[deployment'[d].request].incident
    OBVIOUS
  <2>2. ASSUME NEW j \in Incidents, j # i PROVE Holds(d, j)' <=> Holds(d, j)
    BY <1>1, <1>2, <1>6, <2>1, <2>2
  <2>3. ASSUME NEW j \in Incidents, j # i, NEW e \in Deployments
        PROVE  Holds(e, j)' <=> Holds(e, j)
    BY <1>3, <1>6, <2>2, <2>3
  <2> QED
    BY <1>4, <2>3
<1> QED
  BY <1>5, <1>6 DEF OneDeployment

-------------------------------------------------------------------------------
(* Each step, as each service sees it *)

LEMMA HazardSteps ==
  ASSUME Kept, NEW c \in HazardClients, HazardStep(c)
  PROVE  /\ Kept'
         /\ [Hazard!Next]_Hazard!vars
         /\ [Evacuation!Next]_Evacuation!vars
         /\ [Dispatch!Next]_Dispatch!vars
<1>1. /\ Hazard!Step(c)
      /\ plan' = plan /\ request' = request /\ deployment' = deployment
      /\ UNCHANGED <<evacuation, dispatch>>
  BY DEF HazardStep, evacuation, dispatch
<1>2. IncidentsKept' /\ OneIncident
  BY <1>1, HazardEffect DEF Kept
<1>3. Kept'
  BY <1>1, <1>2 DEF Kept, PlansKept, DeploymentsKept, evacuation, dispatch
<1>4. Busy' = Busy
  BY <1>1 DEF Busy
<1>5. Hazard!Next
  BY <1>1, <1>4 DEF Hazard!Next
<1>6. CASE Operational' = Operational
  BY <1>1, <1>3, <1>5, <1>6 DEF evacuation, dispatch, Evacuation!vars, Evacuation!db,
     Evacuation!env, Dispatch!vars, Dispatch!db, Dispatch!env
<1>7. ASSUME NEW i \in Incidents, Operational' \in {Operational \cup {i}, Operational \ {i}}
      PROVE  Evacuation!IncidentMoves /\ Dispatch!IncidentMoves
  BY <1>1, <1>7 DEF evacuation, dispatch, Evacuation!IncidentMoves, Evacuation!db,
     Dispatch!IncidentMoves, Dispatch!db
<1> QED
  BY <1>2, <1>3, <1>5, <1>6, <1>7, OperationalMoves DEF Evacuation!Next, Dispatch!Next

LEMMA EvacuationSteps ==
  ASSUME Kept, NEW c \in EvacuationClients, EvacuationStep(c)
  PROVE  /\ Kept'
         /\ [Hazard!Next]_Hazard!vars
         /\ [Evacuation!Next]_Evacuation!vars
         /\ [Dispatch!Next]_Dispatch!vars
<1>1. /\ Evacuation!Step(c) /\ planLate' = planLate
      /\ incident' = incident /\ UNCHANGED <<hazard, dispatch>>
  BY DEF EvacuationStep, hazard
<1>2. PlansKept' /\ OnePlan
  BY <1>1, EvacuationEffect DEF Kept
<1>3. Kept'
  BY <1>1, <1>2 DEF Kept, IncidentsKept, DeploymentsKept, dispatch
<1>4. Operational' = Operational
  BY <1>1 DEF Operational
<1>5. Evacuation!Next
  BY <1>1, <1>4 DEF Evacuation!Next, Evacuation!env
<1>6. UNCHANGED Dispatch!vars
  BY <1>1, <1>4 DEF dispatch, Dispatch!vars, Dispatch!db, Dispatch!env
<1>7. Busy' = Busy \/ \E j \in Incidents : Busy' \in {Busy \cup {j}, Busy \ {j}}
  BY <1>1, <1>2, PlansMoveBusy, BusyMoves
<1>8. [Hazard!Next]_Hazard!vars
  BY <1>1, <1>7 DEF hazard, Hazard!Next, Hazard!WorkMoves, Hazard!vars
<1> QED
  BY <1>3, <1>5, <1>6, <1>8

LEMMA DispatchSteps ==
  ASSUME Kept, NEW c \in DispatchClients, DispatchStep(c)
  PROVE  /\ Kept'
         /\ [Hazard!Next]_Hazard!vars
         /\ [Evacuation!Next]_Evacuation!vars
         /\ [Dispatch!Next]_Dispatch!vars
<1>1. /\ Dispatch!Step(c) /\ needLate' = needLate
      /\ incident' = incident /\ plan' = plan /\ UNCHANGED <<hazard, evacuation>>
  BY DEF DispatchStep, hazard, evacuation
<1>2. DeploymentsKept' /\ RequestsKeep /\ OneDeployment
  BY <1>1, DispatchEffect DEF Kept
<1>3. Kept'
  BY <1>1, <1>2 DEF Kept, IncidentsKept, PlansKept, evacuation
<1>4. Operational' = Operational
  BY <1>1 DEF Operational
<1>5. Dispatch!Next
  BY <1>1, <1>4 DEF Dispatch!Next, Dispatch!env
<1>6. UNCHANGED Evacuation!vars
  BY <1>1, <1>4 DEF evacuation, Evacuation!vars, Evacuation!db, Evacuation!env
<1>7. Busy' = Busy \/ \E j \in Incidents : Busy' \in {Busy \cup {j}, Busy \ {j}}
  BY <1>1, <1>2, DeploymentsMoveBusy, BusyMoves DEF Kept
<1>8. [Hazard!Next]_Hazard!vars
  BY <1>1, <1>7 DEF hazard, Hazard!Next, Hazard!WorkMoves, Hazard!vars
<1> QED
  BY <1>3, <1>5, <1>6, <1>8

LEMMA ClockSteps ==
  ASSUME Kept, TimePasses \/ UNCHANGED vars
  PROVE  /\ Kept'
         /\ [Hazard!Next]_Hazard!vars
         /\ [Evacuation!Next]_Evacuation!vars
         /\ [Dispatch!Next]_Dispatch!vars
<1>1. /\ UNCHANGED <<incident, hazardFrame, shelter, plan, done, reservation, evacuationFrame,
                     unit, request, deployment, dispatchFrame>>
      /\ Evacuation!DeadlinePasses \/ planLate' = planLate
      /\ Dispatch!NeedTimePasses \/ needLate' = needLate
  BY DEF TimePasses, vars, hazard, evacuation, dispatch, Evacuation!DeadlinePasses,
         Evacuation!db, Dispatch!NeedTimePasses, Dispatch!db
<1>2. Kept'
  BY <1>1 DEF Kept, IncidentsKept, PlansKept, DeploymentsKept
<1>3. Operational' = Operational /\ Busy' = Busy
  BY <1>1 DEF Operational, Busy
<1>4. UNCHANGED Hazard!vars
  BY <1>1, <1>3 DEF Hazard!vars
<1>5. [Evacuation!Next]_Evacuation!vars
  BY <1>1, <1>3 DEF Evacuation!Next, Evacuation!vars, Evacuation!db, Evacuation!env
<1>6. [Dispatch!Next]_Dispatch!vars
  BY <1>1, <1>3 DEF Dispatch!Next, Dispatch!vars, Dispatch!db, Dispatch!env
<1> QED
  BY <1>2, <1>4, <1>5, <1>6

-------------------------------------------------------------------------------
(* Theorem *)

LEMMA ResponseInit == Init => Kept /\ Hazard!Init /\ Evacuation!Init /\ Dispatch!Init
<1> SUFFICES ASSUME Init PROVE Kept /\ Hazard!Init /\ Evacuation!Init /\ Dispatch!Init
  OBVIOUS
<1>1. incident = [i \in Incidents |-> Hazard!NoIncident]
  BY DEF Init, Hazard!Empty
<1>2. /\ plan = [p \in Plans |-> Evacuation!NoPlan]
      /\ evacuationFrame = [c \in EvacuationClients |-> Evacuation!Idle]
  BY DEF Init, Evacuation!Empty
<1>3. /\ request = [r \in Requests |-> Dispatch!NoRequest]
      /\ deployment = [d \in Deployments |-> Dispatch!NoDeployment]
      /\ dispatchFrame = [c \in DispatchClients |-> Dispatch!Idle]
  BY DEF Init, Dispatch!Empty
<1>4. IncidentsKept
  BY <1>1 DEF IncidentsKept
<1>5. PlansKept
  BY <1>2 DEF PlansKept, PlanFrame, Evacuation!Idle
<1>6. DeploymentsKept
  BY <1>3 DEF DeploymentsKept, DispatchFrame, Dispatch!Idle
<1>7. Busy = {}
  BY <1>2, <1>3 DEF Busy, Evacuation!NoPlan, Dispatch!NoDeployment, OpenPlanStatus,
                    ActiveDeployment
<1>8. Operational = {}
  BY <1>1 DEF Operational, Hazard!NoIncident, OperationalStatus
<1> QED
  BY <1>4, <1>5, <1>6, <1>7, <1>8 DEF Kept, Init, Hazard!Init, Evacuation!Init, Dispatch!Init

\* A step of one service is, for each of the others, a step of the environment that its
\* own module allows, or nothing: CreatePlan and CreateRequest see incidents become
\* operational and cease to be, CountOpenDependencies sees plans and deployments come
\* and go, one incident at a time.  So the theorems about Incidents, Evacuation and
\* Dispatch are theorems about the system.
THEOREM ServicesCompose == Spec => ServicesInContext
<1>1. Kept /\ [Next]_vars => /\ Kept'
                             /\ [Hazard!Next]_Hazard!vars
                             /\ [Evacuation!Next]_Evacuation!vars
                             /\ [Dispatch!Next]_Dispatch!vars
  BY HazardSteps, EvacuationSteps, DispatchSteps, ClockSteps DEF Next
<1> QED
  BY <1>1, ResponseInit, PTL DEF Spec, ServicesInContext, Hazard!Spec, Evacuation!Spec,
                                 Dispatch!Spec
================================================================================
