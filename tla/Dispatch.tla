------------------------------- MODULE Dispatch -------------------------------
(***************************************************************************)
(* Field units, resource requests and the deployments that bind a unit to  *)
(* a request.                                                              *)
(*                                                                         *)
(* An HTTP request is a frame that advances in two steps, as in module     *)
(* Evacuation: the service reads rows and checks them (internal/dispatch/  *)
(* service.go), then one store transaction checks part of that again and   *)
(* writes (internal/store/sqlite/dispatch.go).  Others commit in between.  *)
(***************************************************************************)
EXTENDS Integers, FiniteSets, Lifecycle

CONSTANTS
  Clients,      \* slots for concurrent requests
  Users,        \* whoever sends them
  Incidents,
  Units,
  Requests,     \* ids that newID may hand out
  Deployments,  \* ids that newID may hand out
  RoleOf,       \* the role of a user
  RegionOf,     \* region of a user ("" is any), an incident or a unit
  SkillsOf,     \* a unit's type paired with each of its capabilities
  OperatorOf,   \* the user a unit belongs to, if any
  Skills,       \* the pairs of a type and a capability that a request can need
  Quantities,   \* quantities offered to CreateRequest
  MaxLag        \* a quoted version is at most this far behind the row

ASSUME DispatchAssumption ==
  /\ IsFiniteSet(Units) /\ IsFiniteSet(Deployments)
  /\ RoleOf \in [Users -> Roles]
  /\ Quantities \subseteq 1 .. 100
  /\ MaxLag \in Nat
  /\ "nobody" \notin Requests

VARIABLES
  unit,         \* table field_units: what changes in it
  request,      \* table resource_requests
  deployment,   \* table deployments
  frame,        \* the request each client has in flight
  late,         \* resource requests whose needed_by is in the past
  operational   \* incidents that are active or stabilizing

db == <<unit, request, deployment>>
env == <<late, operational>>
vars == <<db, frame, env>>

NoUnit == [status |-> "none"]
NoRequest == [status |-> "none"]
NoDeployment == [status |-> "none"]
Idle == [op |-> "idle"]

UnitRows == [status : {"available", "deployed", "offline"}, version : Nat \ {0}]
RequestRows ==
  [status : RequestStatus, version : Nat \ {0}, incident : Incidents,
   skill : Skills, quantity : Quantities]
DraftRows ==
  [status : {"requested"}, version : {1}, incident : Incidents,
   skill : Skills, quantity : Quantities]
DeploymentRows ==
  [status : DeploymentStatus, version : Nat \ {0}, request : Requests, unit : Units]
Frames ==
  [op : {"create"}, draft : DraftRows]
    \cup [op : {"approve"}, request : Requests, version : Nat]
    \cup [op : {"allocate"}, request : Requests, version : Nat,
          unit : Units, unitVersion : Nat]
    \cup [op : {"transition"}, deployment : Deployments,
          version : Nat, to : DeploymentStatus]

Empty ==
  /\ unit = [u \in Units |-> NoUnit]
  /\ request = [r \in Requests |-> NoRequest]
  /\ deployment = [d \in Deployments |-> NoDeployment]
  /\ frame = [c \in Clients |-> Idle]
  /\ late = {}

Init == Empty /\ operational = {}

-------------------------------------------------------------------------------
(* A request enters its handler, having passed the checks of the service.   *)
(* A caller quotes a version that it has read: the current one or an older. *)

Quoted(version) == {v \in 1 .. version : version - v <= MaxLag}

Begin(c, a, roles, f) ==
  /\ frame[c] = Idle
  /\ RoleOf[a] \in roles
  /\ frame' = [frame EXCEPT ![c] = f]
  /\ UNCHANGED db

Return(c) == frame' = [frame EXCEPT ![c] = Idle]

Allocatable == {"approved", "partially_allocated"}

\* service CreateRequest: the incident and the command are valid.
BeginCreate(c, a) ==
  \E i \in Incidents, k \in Skills, n \in Quantities :
    /\ i \in operational
    /\ RegionOf[a] \in {"", RegionOf[i]}
    /\ Begin(c, a, {"commander", "field_operator"},
             [op |-> "create",
              draft |-> [status |-> "requested", version |-> 1, incident |-> i,
                         skill |-> k, quantity |-> n]])

BeginApprove(c, a) ==
  \E r \in Requests :
    /\ request[r].status = "requested"
    /\ r \notin late
    /\ \E v \in Quoted(request[r].version) :
         Begin(c, a, {"commander"}, [op |-> "approve", request |-> r, version |-> v])

\* "unit is outside the incident region", "unit type does not match request",
\* "unit lacks the required capability"
Qualifies(u, r) ==
  /\ RegionOf[u] = RegionOf[request[r].incident]
  /\ request[r].skill \in SkillsOf[u]

BeginAllocate(c, a) ==
  \E r \in Requests, u \in Units :
    /\ request[r].status \in Allocatable
    /\ unit[u] # NoUnit
    /\ Qualifies(u, r)
    /\ r \notin late
    /\ \E v \in Quoted(request[r].version), w \in Quoted(unit[u].version) :
         Begin(c, a, {"commander"},
               [op |-> "allocate", request |-> r, version |-> v,
                unit |-> u, unitVersion |-> w])

\* "deployment belongs to another operator" and "commander role is required to
\* release a deployment"
MayMove(a, d, to) ==
  /\ RoleOf[a] = "field_operator" => OperatorOf[deployment[d].unit] = a
  /\ to \in {"released", "cancelled"} => RoleOf[a] = "commander"

BeginTransition(c, a) ==
  \E d \in Deployments, to \in DeploymentStatus :
    /\ <<deployment[d].status, to>> \in DeploymentTransitions
    /\ MayMove(a, d, to)
    /\ \E v \in Quoted(deployment[d].version) :
         Begin(c, a, {"commander", "field_operator"},
               [op |-> "transition", deployment |-> d,
                version |-> v, to |-> to])

-------------------------------------------------------------------------------
(* The transactions *)

\* The deployments of a request, or of a unit, that hold their unit.
ActiveOf(r) ==
  {d \in Deployments : /\ deployment[d].status \in ActiveDeployment
                       /\ deployment[d].request = r}
HeldBy(u) ==
  {d \in Deployments : /\ deployment[d].status \in ActiveDeployment
                       /\ deployment[d].unit = u}

\* "SET status = ?, version = version + 1" on one row of each table
SetRequestOnly(r, s) == request' = [request EXCEPT ![r].status = s]
SetRequest(r, s) ==
  request' = [request EXCEPT ![r] =
                [@ EXCEPT !.status = s, !.version = request[r].version + 1]]
SetUnit(u, s) ==
  unit' = [unit EXCEPT ![u] = [status |-> s, version |-> unit[u].version + 1]]

\* service and store RegisterUnit: one INSERT, no earlier read.
RegisterUnit(a) ==
  \E u \in Units :
    /\ RoleOf[a] = "commander"
    /\ RegionOf[a] \in {"", RegionOf[u]}
    /\ unit[u] = NoUnit
    /\ unit' = [unit EXCEPT ![u] = [status |-> "available", version |-> 1]]
    /\ UNCHANGED <<request, deployment, frame>>

CreateRequest(c) ==
  /\ frame[c].op = "create"
  /\ \E r \in Requests :
       request[r] = NoRequest /\ request' = [request EXCEPT ![r] = frame[c].draft]
  /\ Return(c)
  /\ UNCHANGED <<unit, deployment>>

\* "AND version = ? AND status = ?"; needed_by is compared with the time that
\* the service read, so it is not checked again.
RequestAtAny(r, v, S) == TRUE
RequestAt(r, v, S) == request[r].version = v /\ request[r].status \in S

ApproveRequest(c) ==
  /\ frame[c].op = "approve"
  /\ RequestAt(frame[c].request, frame[c].version, {"requested"})
  /\ SetRequest(frame[c].request, "approved")
  /\ Return(c)
  /\ UNCHANGED <<unit, deployment>>

\* "allocated" once the request has all the units that it asks for
AllocationStatusMixedUp(r) ==
  IF Cardinality(ActiveOf(r)) + 1 >= request[r].quantity
  THEN "allocated" ELSE "assigned"
AllocationStatus(r) ==
  IF Cardinality(ActiveOf(r)) + 1 >= request[r].quantity
  THEN "allocated" ELSE "partially_allocated"

\* The unit is claimed first, and the index deployments_active_unit_idx refuses
\* a second active deployment of it.
AllocateUnit(c) ==
  LET r == frame[c].request
      u == frame[c].unit
  IN /\ frame[c].op = "allocate"
     /\ RequestAt(r, frame[c].version, Allocatable)
     /\ unit[u] = [status |-> "available", version |-> frame[c].unitVersion]
     /\ SetUnit(u, "deployed")
     /\ SetRequest(r, AllocationStatus(r))
     /\ HeldBy(u) = {}
     /\ \E d \in Deployments :
          /\ deployment[d] = NoDeployment
          /\ deployment' = [deployment EXCEPT ![d] =
                              [status |-> "assigned", version |-> 1,
                               request |-> r, unit |-> u]]
     /\ Return(c)

\* "WHERE id = ? AND status = 'deployed'"; no row updated is an error.
ReleaseNothing(u) == UNCHANGED unit
ReleaseUnit(u) == unit[u].status = "deployed" /\ SetUnit(u, "available")

\* The request is fulfilled when none of its other deployments is active.
SettleAtOnce(r, d) ==
  IF request[r].status \in {"allocated", "partially_allocated"}
  THEN SetRequest(r, "fulfilled")
  ELSE UNCHANGED request
SettleRequest(r, d) ==
  IF /\ ActiveOf(r) \subseteq {d}
     /\ request[r].status \in {"allocated", "partially_allocated"}
  THEN SetRequest(r, "fulfilled")
  ELSE UNCHANGED request

\* "WHERE id = ? AND version = ?" and CanTransition
DeploymentAtAny(d, v, to) == TRUE
DeploymentAt(d, v, to) ==
  /\ deployment[d].version = v
  /\ <<deployment[d].status, to>> \in DeploymentTransitions

TransitionDeployment(c) ==
  LET d == frame[c].deployment
      to == frame[c].to
  IN /\ frame[c].op = "transition"
     /\ DeploymentAt(d, frame[c].version, to)
     /\ deployment' = [deployment EXCEPT ![d] =
                         [@ EXCEPT !.status = to,
                                   !.version = deployment[d].version + 1]]
     /\ IF to \in {"released", "cancelled"}
        THEN /\ ReleaseUnit(deployment[d].unit)
             /\ SettleRequest(deployment[d].request, d)
        ELSE UNCHANGED <<unit, request>>
     /\ Return(c)

\* A recheck refuses, the context ends, SQLite is busy or the process dies:
\* WithinTx rolls back and nothing but the request itself is lost.
RollBack(c) ==
  /\ frame[c] # Idle
  /\ Return(c)
  /\ UNCHANGED db

-------------------------------------------------------------------------------
\* Time passes the needed_by of a request.
NeedTimePasses ==
  \E r \in Requests :
    /\ request[r] # NoRequest /\ r \notin late
    /\ late' = late \cup {r}
    /\ UNCHANGED <<db, frame, operational>>

\* The hazard service activates an incident or ends it (module Incidents, which
\* says when; nothing here depends on that).
IncidentMoves ==
  \E i \in Incidents :
    /\ operational' \in {operational \cup {i}, operational \ {i}}
    /\ UNCHANGED <<db, frame, late>>

Step(c) ==
  \/ \E a \in Users :
       \/ RegisterUnit(a)
       \/ BeginCreate(c, a)
       \/ BeginApprove(c, a)
       \/ BeginAllocate(c, a)
       \/ BeginTransition(c, a)
  \/ CreateRequest(c)
  \/ ApproveRequest(c)
  \/ AllocateUnit(c)
  \/ TransitionDeployment(c)
  \/ RollBack(c)

Next ==
  \/ \E c \in Clients : Step(c) /\ UNCHANGED env
  \/ NeedTimePasses
  \/ IncidentMoves

Spec == Init /\ [][Next]_vars

-------------------------------------------------------------------------------
(* Properties *)

\* Every table row and every frame has the shape its SQL and Go types give it,
\* a deployment names a unit and a request that were inserted, and so does a frame.
TypeOK ==
  /\ unit \in [Units -> UnitRows \cup {NoUnit}]
  /\ request \in [Requests -> RequestRows \cup {NoRequest}]
  /\ deployment \in [Deployments -> DeploymentRows \cup {NoDeployment}]
  /\ \A d \in Deployments :
       deployment[d] # NoDeployment =>
         /\ unit[deployment[d].unit] # NoUnit
         /\ request[deployment[d].request] # NoRequest
  /\ frame \in [Clients -> Frames \cup {Idle}]
  /\ \A c \in Clients :
       /\ frame[c].op \in {"approve", "allocate"} => request[frame[c].request] # NoRequest
       /\ frame[c].op = "allocate" => unit[frame[c].unit] # NoUnit
       /\ frame[c].op = "transition" => deployment[frame[c].deployment] # NoDeployment
  /\ late \in SUBSET Requests
  /\ operational \in SUBSET Incidents

\* A unit is deployed exactly while one deployment holds it, so its release is
\* never refused ("deployed unit cannot be released") and the unique index never
\* has to refuse an allocation.
UnitsServeOnce ==
  \A u \in Units :
    Cardinality(HeldBy(u)) = IF unit[u].status = "deployed" THEN 1 ELSE 0

\* The status of a request tells how many units serve it now: never more than it
\* asked for, none once it is fulfilled, and fulfilled only after some served.
RequestCountsUnits ==
  \A r \in Requests :
    LET active == Cardinality(ActiveOf(r))
    IN CASE request[r].status = "partially_allocated" ->
              1 <= active /\ active < request[r].quantity
         [] request[r].status = "allocated" ->
              1 <= active /\ active <= request[r].quantity
         [] request[r].status = "fulfilled" ->
              active = 0 /\ \E d \in Deployments : deployment[d] # NoDeployment
                                                   /\ deployment[d].request = r
         [] OTHER -> active = 0

DeploymentsOf(r) ==
  {d \in Deployments : deployment[d] # NoDeployment /\ deployment[d].request = r}
ClaimsOn(u) ==
  {d \in Deployments : deployment[d] # NoDeployment /\ deployment[d].unit = u}

\* Versions count what happened to a row, so a quoted version names one moment in
\* its life: a unit's goes up when it is claimed and when it comes back, a
\* request's at its approval, for each unit it is given and when it is fulfilled.
VersionsCountChanges ==
  /\ \A u \in Units :
       unit[u] # NoUnit =>
         unit[u].version + Cardinality(HeldBy(u)) = 1 + 2 * Cardinality(ClaimsOn(u))
  /\ \A r \in Requests :
       request[r] # NoRequest =>
         request[r].version =
           Cardinality(DeploymentsOf(r)) + (CASE request[r].status = "requested" -> 1
                                              [] request[r].status = "fulfilled" -> 3
                                              [] OTHER -> 2)

\* Whatever the interleaving, requests and deployments move along their tables.
\* Giving a second unit to a partly allocated request leaves it so, a self-loop
\* that requestTransitions does not have.
LifecyclesFollowed ==
  [][/\ \A r \in Requests :
          (request[r] # NoRequest /\ request'[r] # request[r]) =>
            \/ <<request[r].status, request'[r].status>> \in RequestTransitions
            \/ request[r].status = request'[r].status /\ request[r].status = "partially_allocated"
     /\ \A d \in Deployments :
          (deployment[d] # NoDeployment /\ deployment'[d] # deployment[d]) =>
            <<deployment[d].status, deployment'[d].status>> \in DeploymentTransitions]_vars

\* The request that each unit serves is read off the deployments that hold it.
Pool ==
  INSTANCE UnitPool WITH
    quantity <- [r \in Requests |->
                   IF request[r].status \in {"none", "requested"}
                   THEN 0 ELSE request[r].quantity],
    taking <- {r \in Requests : request[r].status \in Allocatable},
    serves <- [u \in Units |->
                 IF HeldBy(u) = {} THEN "nobody"
                 ELSE deployment[CHOOSE d \in HeldBy(u) : TRUE].request]

\* Allocating units and moving deployments implements the pool: a unit serves one
\* request at a time, and a request that was full, or was left by its last unit,
\* never takes another.
ImplementsPool == Pool!Spec
================================================================================
