---------------------------- MODULE DispatchProofs ----------------------------
(***************************************************************************)
(* Theorems about Dispatch for any clients, units, requests, deployments   *)
(* and quantities.                                                         *)
(***************************************************************************)
EXTENDS Dispatch, TLAPS, FiniteSetTheorems

-------------------------------------------------------------------------------
(* Rows and frames *)

\* What the columns of an inserted row hold.
LEMMA RequestRowFacts ==
  ASSUME NEW row \in RequestRows
  PROVE  /\ row.status \in RequestStatus /\ row.version \in Nat /\ row.version > 0
         /\ row.quantity \in Nat /\ row.quantity >= 1 /\ row # NoRequest
         /\ row.quantity \in Quantities
<1>1. row.status \in RequestStatus /\ row.version \in Nat \ {0}
      /\ row.quantity \in Quantities
  BY DEF RequestRows
<1>2. row.quantity \in 1 .. 100
  BY <1>1, DispatchAssumption DEF DispatchAssumption
<1> QED
  BY <1>1, <1>2 DEF NoRequest, RequestStatus

LEMMA DeploymentRowFacts ==
  ASSUME NEW row \in DeploymentRows
  PROVE  /\ row.status \in DeploymentStatus /\ row.version \in Nat
         /\ row.request \in Requests /\ row.unit \in Units /\ row # NoDeployment
BY DEF DeploymentRows, NoDeployment, DeploymentStatus

LEMMA UnitRowFacts ==
  ASSUME NEW row \in UnitRows
  PROVE  /\ row.status \in {"available", "deployed", "offline"}
         /\ row.version \in Nat /\ row # NoUnit
BY DEF UnitRows, NoUnit

\* A status of one of the tables tells that the row was inserted.
LEMMA Inserted ==
  ASSUME TypeOK
  PROVE  /\ \A u \in Units : unit[u].status \in {"available", "deployed", "offline"}
                               <=> unit[u] \in UnitRows
         /\ \A r \in Requests : request[r].status \in RequestStatus
                                  <=> request[r] \in RequestRows
         /\ \A d \in Deployments : deployment[d].status \in DeploymentStatus
                                     <=> deployment[d] \in DeploymentRows
         /\ \A u \in Units : unit[u] \in UnitRows \/ unit[u] = NoUnit
         /\ \A r \in Requests : request[r] \in RequestRows \/ request[r] = NoRequest
         /\ \A d \in Deployments :
              deployment[d] \in DeploymentRows \/ deployment[d] = NoDeployment
<1>1. /\ \A u \in Units : unit[u] \in UnitRows \cup {NoUnit}
      /\ \A r \in Requests : request[r] \in RequestRows \cup {NoRequest}
      /\ \A d \in Deployments : deployment[d] \in DeploymentRows \cup {NoDeployment}
  BY DEF TypeOK
<1>2. /\ NoUnit.status = "none" /\ NoRequest.status = "none"
      /\ NoDeployment.status = "none"
  BY DEF NoUnit, NoRequest, NoDeployment
<1>3. "none" \notin RequestStatus /\ "none" \notin DeploymentStatus
  BY DEF RequestStatus, DeploymentStatus
<1> QED
  BY <1>1, <1>2, <1>3, RequestRowFacts, DeploymentRowFacts, UnitRowFacts

\* What a frame of each kind holds, once the type invariant is known.
LEMMA FrameShape ==
  ASSUME TypeOK, NEW c \in Clients
  PROVE  /\ frame[c].op = "create" => frame[c].draft \in DraftRows
         /\ frame[c].op \in {"approve", "allocate"} =>
              /\ frame[c].request \in Requests
              /\ request[frame[c].request] \in RequestRows
         /\ frame[c].op = "allocate" =>
              /\ frame[c].unit \in Units
              /\ unit[frame[c].unit] \in UnitRows
         /\ frame[c].op = "transition" =>
              /\ frame[c].deployment \in Deployments
              /\ deployment[frame[c].deployment] \in DeploymentRows
              /\ frame[c].to \in DeploymentStatus
<1>1. frame[c] \in Frames \cup {Idle}
  BY DEF TypeOK
<1>2. /\ frame[c].op \in {"approve", "allocate"} => request[frame[c].request] # NoRequest
      /\ frame[c].op = "allocate" => unit[frame[c].unit] # NoUnit
      /\ frame[c].op = "transition" => deployment[frame[c].deployment] # NoDeployment
  BY DEF TypeOK
<1> QED
  BY <1>1, <1>2, Inserted DEF Frames, Idle

-------------------------------------------------------------------------------
(* What a committed transaction does to the rows *)

\* One row of a table has its status changed and its version raised.
UnitMoves(u, from, to) ==
  /\ u \in Units
  /\ unit' \in [Units -> UnitRows \cup {NoUnit}]
  /\ unit[u] \in UnitRows /\ unit[u].status = from
  /\ unit'[u] \in UnitRows /\ unit'[u].status = to
  /\ unit'[u].version = unit[u].version + 1
  /\ \A v \in Units \ {u} : unit'[v] = unit[v]

RequestMoves(r, from, to) ==
  /\ r \in Requests
  /\ request' \in [Requests -> RequestRows \cup {NoRequest}]
  /\ request[r] \in RequestRows /\ request[r].status = from
  /\ request'[r] \in RequestRows /\ request'[r].status = to
  /\ request'[r].version = request[r].version + 1
  /\ request'[r].quantity = request[r].quantity
  /\ \A q \in Requests \ {r} : request'[q] = request[q]

DeploymentMoves(d, from, to) ==
  /\ d \in Deployments
  /\ <<from, to>> \in DeploymentTransitions
  /\ deployment' \in [Deployments -> DeploymentRows \cup {NoDeployment}]
  /\ deployment[d] \in DeploymentRows /\ deployment[d].status = from
  /\ deployment'[d] \in DeploymentRows /\ deployment'[d].status = to
  /\ deployment'[d].request = deployment[d].request
  /\ deployment'[d].unit = deployment[d].unit
  /\ \A e \in Deployments \ {d} : deployment'[e] = deployment[e]

\* The transactions, each by what it finds and what it leaves.
Registers(u) ==
  /\ u \in Units /\ unit[u] = NoUnit
  /\ unit' \in [Units -> UnitRows \cup {NoUnit}]
  /\ unit'[u] = [status |-> "available", version |-> 1]
  /\ \A v \in Units \ {u} : unit'[v] = unit[v]
  /\ UNCHANGED <<request, deployment>>

Requested(r) ==
  /\ r \in Requests /\ request[r] = NoRequest
  /\ request' \in [Requests -> RequestRows \cup {NoRequest}]
  /\ request'[r] \in RequestRows
  /\ request'[r].status = "requested" /\ request'[r].version = 1
  /\ \A q \in Requests \ {r} : request'[q] = request[q]
  /\ UNCHANGED <<unit, deployment>>

Approves(r) ==
  RequestMoves(r, "requested", "approved") /\ UNCHANGED <<unit, deployment>>

Allocates(r, u, d) ==
  /\ UnitMoves(u, "available", "deployed")
  /\ HeldBy(u) = {}
  /\ request[r].status \in Allocatable
  /\ RequestMoves(r, request[r].status, AllocationStatus(r))
  /\ d \in Deployments /\ deployment[d] = NoDeployment
  /\ deployment' \in [Deployments -> DeploymentRows \cup {NoDeployment}]
  /\ deployment'[d] \in DeploymentRows /\ deployment'[d].status = "assigned"
  /\ deployment'[d].request = r /\ deployment'[d].unit = u
  /\ \A e \in Deployments \ {d} : deployment'[e] = deployment[e]

Progresses(d, from, to) ==
  /\ DeploymentMoves(d, from, to)
  /\ to \in ActiveDeployment
  /\ UNCHANGED <<unit, request>>

Ends(d, from, to) ==
  /\ DeploymentMoves(d, from, to)
  /\ to \in {"released", "cancelled"}
  /\ UnitMoves(deployment[d].unit, "deployed", "available")
  /\ LET r == deployment[d].request
         served == request[r].status \in {"allocated", "partially_allocated"}
     IN \/ /\ served /\ ActiveOf(r) \subseteq {d}
           /\ RequestMoves(r, request[r].status, "fulfilled")
        \/ /\ ~(served /\ ActiveOf(r) \subseteq {d})
           /\ UNCHANGED request

\* A deployment leaves only states in which it holds its unit.
LEMMA LeavesActive ==
  ASSUME NEW from, NEW to, <<from, to>> \in DeploymentTransitions
  PROVE  /\ from \in ActiveDeployment /\ to \in DeploymentStatus
         /\ to \in ActiveDeployment \/ to \in {"released", "cancelled"}
         /\ ~(to \in ActiveDeployment /\ to \in {"released", "cancelled"})
BY DEF DeploymentTransitions, ActiveDeployment, DeploymentStatus

LEMMA SetUnitMoves ==
  ASSUME TypeOK, NEW u \in Units, unit[u] \in UnitRows,
         NEW s \in {"available", "deployed"}, SetUnit(u, s)
  PROVE  UnitMoves(u, unit[u].status, s)
<1> DEFINE row == [status |-> s, version |-> unit[u].version + 1]
<1>1. unit[u].version \in Nat
  BY UnitRowFacts
<1>2. row \in UnitRows /\ row.status = s /\ row.version = unit[u].version + 1
  BY <1>1 DEF UnitRows
<1>3. unit' = [unit EXCEPT ![u] = row]
  BY DEF SetUnit
<1> HIDE DEF row
<1> QED
  BY <1>2, <1>3 DEF UnitMoves, TypeOK

LEMMA SetRequestMoves ==
  ASSUME TypeOK, NEW r \in Requests, request[r] \in RequestRows,
         NEW s \in RequestStatus, SetRequest(r, s)
  PROVE  RequestMoves(r, request[r].status, s)
<1> DEFINE row == [request[r] EXCEPT !.status = s, !.version = request[r].version + 1]
<1>1. \A old \in RequestRows, v \in Nat \ {0} :
        LET new == [old EXCEPT !.status = s, !.version = v]
        IN new \in RequestRows /\ new.status = s /\ new.version = v
           /\ new.quantity = old.quantity
  BY DEF RequestRows
<1>2. request[r].version + 1 \in Nat \ {0}
  BY RequestRowFacts
<1>3. row \in RequestRows /\ row.status = s /\ row.version = request[r].version + 1
      /\ row.quantity = request[r].quantity
  BY <1>1, <1>2
<1>4. request' = [request EXCEPT ![r] = row]
  BY DEF SetRequest
<1> HIDE DEF row
<1> QED
  BY <1>3, <1>4 DEF RequestMoves, TypeOK

LEMMA CreateEffect ==
  ASSUME TypeOK, NEW c \in Clients, CreateRequest(c)
  PROVE  \E r \in Requests : Requested(r)
<1>1. PICK r \in Requests :
        request[r] = NoRequest /\ request' = [request EXCEPT ![r] = frame[c].draft]
  BY DEF CreateRequest
<1>2. frame[c].draft \in DraftRows
  BY FrameShape DEF CreateRequest
<1>3. /\ frame[c].draft \in RequestRows
      /\ frame[c].draft.status = "requested" /\ frame[c].draft.version = 1
  BY <1>2 DEF DraftRows, RequestRows, RequestStatus
<1>4. Requested(r)
  BY <1>1, <1>3 DEF Requested, CreateRequest, TypeOK
<1> QED
  BY <1>4

LEMMA ApproveEffect ==
  ASSUME TypeOK, NEW c \in Clients, ApproveRequest(c)
  PROVE  \E r \in Requests : Approves(r)
<1>1. PICK r \in Requests : r = frame[c].request /\ request[r] \in RequestRows
  BY FrameShape DEF ApproveRequest
<1>2. request[r].status = "requested" /\ SetRequest(r, "approved")
  BY <1>1 DEF ApproveRequest, RequestAt
<1>3. RequestMoves(r, "requested", "approved")
  BY <1>1, <1>2, SetRequestMoves DEF RequestStatus
<1> QED
  BY <1>3 DEF Approves, ApproveRequest

LEMMA AllocateEffect ==
  ASSUME TypeOK, NEW c \in Clients, AllocateUnit(c)
  PROVE  \E r \in Requests, u \in Units, d \in Deployments : Allocates(r, u, d)
<1>1. PICK r \in Requests, u \in Units :
        /\ r = frame[c].request /\ request[r] \in RequestRows
        /\ u = frame[c].unit /\ unit[u] \in UnitRows
  BY FrameShape DEF AllocateUnit
<1>2. /\ request[r].status \in Allocatable
      /\ unit[u] = [status |-> "available", version |-> frame[c].unitVersion]
      /\ SetUnit(u, "deployed") /\ SetRequest(r, AllocationStatus(r))
      /\ HeldBy(u) = {}
  BY <1>1 DEF AllocateUnit, RequestAt
<1> DEFINE row == [status |-> "assigned", version |-> 1, request |-> r, unit |-> u]
<1>3. PICK d \in Deployments :
        deployment[d] = NoDeployment /\ deployment' = [deployment EXCEPT ![d] = row]
  BY <1>1 DEF AllocateUnit
<1>4. row \in DeploymentRows /\ row.status = "assigned" /\ row.request = r /\ row.unit = u
  BY DEF DeploymentRows, DeploymentStatus
<1> HIDE DEF row
<1>5. AllocationStatus(r) \in RequestStatus
  BY DEF AllocationStatus, RequestStatus
<1>6. RequestMoves(r, request[r].status, AllocationStatus(r))
  BY <1>1, <1>2, <1>5, SetRequestMoves
<1>7. UnitMoves(u, "available", "deployed")
  BY <1>1, <1>2, SetUnitMoves
<1>8. Allocates(r, u, d)
  BY <1>2, <1>3, <1>4, <1>6, <1>7 DEF Allocates, TypeOK
<1> QED
  BY <1>8

LEMMA TransitionEffect ==
  ASSUME TypeOK, NEW c \in Clients, TransitionDeployment(c)
  PROVE  \E d \in Deployments, from, to \in DeploymentStatus :
           Progresses(d, from, to) \/ Ends(d, from, to)
<1>1. PICK d \in Deployments, to \in DeploymentStatus :
        /\ d = frame[c].deployment /\ to = frame[c].to
        /\ deployment[d] \in DeploymentRows
  BY FrameShape DEF TransitionDeployment
<1> DEFINE from == deployment[d].status
           row == [deployment[d] EXCEPT !.status = to, !.version = deployment[d].version + 1]
<1>2. <<from, to>> \in DeploymentTransitions
  BY <1>1 DEF TransitionDeployment, DeploymentAt
<1>3. deployment' = [deployment EXCEPT ![d] = row]
  BY <1>1 DEF TransitionDeployment
<1>4. /\ row \in DeploymentRows /\ row.status = to
      /\ row.request = deployment[d].request /\ row.unit = deployment[d].unit
  <2>1. \A old \in DeploymentRows, v \in Nat \ {0} :
          LET new == [old EXCEPT !.status = to, !.version = v]
          IN new \in DeploymentRows /\ new.status = to
             /\ new.request = old.request /\ new.unit = old.unit
    BY DEF DeploymentRows
  <2>2. deployment[d].version + 1 \in Nat \ {0}
    BY <1>1 DEF DeploymentRows
  <2> QED
    BY <1>1, <2>1, <2>2
<1> HIDE DEF row
<1>5. DeploymentMoves(d, from, to)
  BY <1>1, <1>2, <1>3, <1>4 DEF DeploymentMoves, TypeOK
<1>6. CASE to \notin {"released", "cancelled"}
  <2>1. UNCHANGED <<unit, request>>
    BY <1>1, <1>6 DEF TransitionDeployment
  <2>2. Progresses(d, from, to)
    BY <1>2, <1>5, <1>6, <2>1, LeavesActive DEF Progresses
  <2> QED
    BY <1>1, <2>2, DeploymentRowFacts
<1>7. CASE to \in {"released", "cancelled"}
  <2>1. ReleaseUnit(deployment[d].unit) /\ SettleRequest(deployment[d].request, d)
    BY <1>1, <1>7 DEF TransitionDeployment
  <2>2. PICK u \in Units, r \in Requests :
          /\ u = deployment[d].unit /\ r = deployment[d].request
          /\ unit[u] \in UnitRows /\ request[r] \in RequestRows
    BY <1>1, DeploymentRowFacts, Inserted DEF TypeOK
  <2>3. UnitMoves(u, "deployed", "available")
    BY <2>1, <2>2, SetUnitMoves DEF ReleaseUnit
  <2>4. SetRequest(r, "fulfilled") => RequestMoves(r, request[r].status, "fulfilled")
    BY <2>2, SetRequestMoves DEF RequestStatus
  <2>5. Ends(d, from, to)
    BY <1>5, <1>7, <2>1, <2>2, <2>3, <2>4 DEF Ends, SettleRequest
  <2> QED
    BY <1>1, <2>5, DeploymentRowFacts
<1> QED
  BY <1>6, <1>7

\* Every step of the system commits one of these transactions or writes no row.
LEMMA StepEffect ==
  ASSUME TypeOK, [Next]_vars
  PROVE  \/ UNCHANGED db
         \/ \E u \in Units : Registers(u)
         \/ \E r \in Requests : Requested(r) \/ Approves(r)
         \/ \E r \in Requests, u \in Units, d \in Deployments : Allocates(r, u, d)
         \/ \E d \in Deployments, from, to \in DeploymentStatus :
              Progresses(d, from, to) \/ Ends(d, from, to)
<1>1. CASE UNCHANGED vars \/ NeedTimePasses \/ IncidentMoves
  BY <1>1 DEF vars, NeedTimePasses, IncidentMoves, db
<1>2. ASSUME NEW c \in Clients, NEW a \in Users, RegisterUnit(a)
      PROVE  \E u \in Units : Registers(u)
  <2>1. PICK u \in Units :
          unit[u] = NoUnit
          /\ unit' = [unit EXCEPT ![u] = [status |-> "available", version |-> 1]]
    BY <1>2 DEF RegisterUnit
  <2>2. [status |-> "available", version |-> 1] \in UnitRows
    BY DEF UnitRows
  <2>3. Registers(u)
    BY <1>2, <2>1, <2>2 DEF Registers, RegisterUnit, TypeOK
  <2> QED
    BY <2>3
<1>3. ASSUME NEW c \in Clients, NEW a \in Users,
             \/ BeginCreate(c, a) \/ BeginApprove(c, a)
             \/ BeginAllocate(c, a) \/ BeginTransition(c, a)
      PROVE  UNCHANGED db
  BY <1>3, Zenon DEF BeginCreate, BeginApprove, BeginAllocate, BeginTransition, Begin
<1>4. ASSUME NEW c \in Clients, RollBack(c)
      PROVE  UNCHANGED db
  BY <1>4 DEF RollBack
<1> QED
  BY <1>1, <1>2, <1>3, <1>4, CreateEffect, ApproveEffect, AllocateEffect,
     TransitionEffect
  DEF Next, Step

-------------------------------------------------------------------------------
(* Types *)

\* The part of the type invariant about the rows.
Tables ==
  /\ unit \in [Units -> UnitRows \cup {NoUnit}]
  /\ request \in [Requests -> RequestRows \cup {NoRequest}]
  /\ deployment \in [Deployments -> DeploymentRows \cup {NoDeployment}]
  /\ \A d \in Deployments :
       deployment[d] # NoDeployment =>
         /\ unit[deployment[d].unit] # NoUnit
         /\ request[deployment[d].request] # NoRequest

\* No row is ever deleted.
RowsStay ==
  /\ \A u \in Units : unit[u] # NoUnit => unit'[u] # NoUnit
  /\ \A r \in Requests : request[r] # NoRequest => request'[r] # NoRequest
  /\ \A d \in Deployments : deployment[d] # NoDeployment => deployment'[d] # NoDeployment

LEMMA UnitMovesStay ==
  ASSUME NEW u, NEW from, NEW to, UnitMoves(u, from, to)
  PROVE  \A v \in Units : unit[v] # NoUnit => unit'[v] # NoUnit
BY UnitRowFacts DEF UnitMoves

LEMMA RequestMovesStay ==
  ASSUME NEW r, NEW from, NEW to, RequestMoves(r, from, to)
  PROVE  \A q \in Requests : request[q] # NoRequest => request'[q] # NoRequest
BY RequestRowFacts DEF RequestMoves

\* A deployment that moves still names its unit and its request.
LEMMA DeploymentMovesTables ==
  ASSUME TypeOK, NEW d, NEW from, NEW to, DeploymentMoves(d, from, to),
         unit' \in [Units -> UnitRows \cup {NoUnit}],
         request' \in [Requests -> RequestRows \cup {NoRequest}],
         \A u \in Units : unit[u] # NoUnit => unit'[u] # NoUnit,
         \A r \in Requests : request[r] # NoRequest => request'[r] # NoRequest
  PROVE  Tables' /\ RowsStay
<1>1. \A e \in Deployments :
        deployment'[e] # NoDeployment =>
          /\ deployment[e] \in DeploymentRows
          /\ deployment'[e].unit = deployment[e].unit
          /\ deployment'[e].request = deployment[e].request
  BY Inserted DEF DeploymentMoves
<1>2. \A e \in Deployments : deployment[e] # NoDeployment => deployment'[e] # NoDeployment
  BY DeploymentRowFacts DEF DeploymentMoves
<1>3. \A e \in Deployments :
        deployment[e] \in DeploymentRows =>
          /\ deployment[e].unit \in Units /\ unit[deployment[e].unit] # NoUnit
          /\ deployment[e].request \in Requests
          /\ request[deployment[e].request] # NoRequest
  BY DeploymentRowFacts DEF TypeOK
<1>4. deployment' \in [Deployments -> DeploymentRows \cup {NoDeployment}]
  BY DEF DeploymentMoves
<1> QED
  BY <1>1, <1>2, <1>3, <1>4 DEF Tables, RowsStay

LEMMA TablesStep ==
  ASSUME TypeOK, [Next]_vars
  PROVE  Tables' /\ RowsStay
<1> USE DEF Tables, RowsStay
<1>1. CASE UNCHANGED db
  BY <1>1 DEF db, TypeOK
<1>2. \A d \in Deployments :
        deployment[d] # NoDeployment =>
          deployment[d].unit \in Units /\ deployment[d].request \in Requests
  BY Inserted, DeploymentRowFacts
<1>3. ASSUME NEW u \in Units, Registers(u)
      PROVE  Tables' /\ RowsStay
  <2>1. \A v \in Units : unit[v] # NoUnit => unit'[v] # NoUnit
    BY <1>3 DEF Registers
  <2> QED
    BY <1>2, <1>3, <2>1 DEF Registers, TypeOK
<1>4. ASSUME NEW r \in Requests, Requested(r)
      PROVE  Tables' /\ RowsStay
  <2>1. \A q \in Requests : request[q] # NoRequest => request'[q] # NoRequest
    BY <1>4 DEF Requested
  <2> QED
    BY <1>2, <1>4, <2>1 DEF Requested, TypeOK
<1>5. ASSUME NEW r \in Requests, Approves(r)
      PROVE  Tables' /\ RowsStay
  <2>1. /\ \A q \in Requests : request[q] # NoRequest => request'[q] # NoRequest
        /\ request' \in [Requests -> RequestRows \cup {NoRequest}]
    BY <1>5, RequestMovesStay DEF Approves, RequestMoves
  <2> QED
    BY <1>2, <1>5, <2>1 DEF Approves, TypeOK
<1>6. ASSUME NEW r \in Requests, NEW u \in Units, NEW d \in Deployments, Allocates(r, u, d)
      PROVE  Tables' /\ RowsStay
  <2>1. /\ \A q \in Requests : request[q] # NoRequest => request'[q] # NoRequest
        /\ request' \in [Requests -> RequestRows \cup {NoRequest}]
        /\ request'[r] # NoRequest
    BY <1>6, RequestMovesStay, RequestRowFacts DEF Allocates, RequestMoves
  <2>2. /\ \A v \in Units : unit[v] # NoUnit => unit'[v] # NoUnit
        /\ unit' \in [Units -> UnitRows \cup {NoUnit}]
        /\ unit'[u] # NoUnit
    BY <1>6, UnitMovesStay, UnitRowFacts DEF Allocates, UnitMoves
  <2>3. /\ deployment' \in [Deployments -> DeploymentRows \cup {NoDeployment}]
        /\ deployment[d] = NoDeployment
        /\ deployment'[d].unit = u /\ deployment'[d].request = r
        /\ \A e \in Deployments \ {d} : deployment'[e] = deployment[e]
    BY <1>6 DEF Allocates
  <2> QED
    BY <1>2, <2>1, <2>2, <2>3 DEF TypeOK
<1>7. ASSUME NEW d \in Deployments, NEW from, NEW to, Progresses(d, from, to)
      PROVE  Tables' /\ RowsStay
  BY <1>7, DeploymentMovesTables DEF Progresses, TypeOK
<1>8. ASSUME NEW d \in Deployments, NEW from, NEW to, Ends(d, from, to)
      PROVE  Tables' /\ RowsStay
  <2>1. /\ \A q \in Requests : request[q] # NoRequest => request'[q] # NoRequest
        /\ request' \in [Requests -> RequestRows \cup {NoRequest}]
    <3>1. UNCHANGED request \/ \E r, s : RequestMoves(r, s, "fulfilled")
      BY <1>8 DEF Ends
    <3> QED
      BY <3>1, RequestMovesStay DEF RequestMoves, TypeOK
  <2>2. /\ \A v \in Units : unit[v] # NoUnit => unit'[v] # NoUnit
        /\ unit' \in [Units -> UnitRows \cup {NoUnit}]
    BY <1>8, UnitMovesStay DEF Ends, UnitMoves
  <2> QED
    BY <1>8, <2>1, <2>2, DeploymentMovesTables DEF Ends
<1> QED
  BY <1>1, <1>3, <1>4, <1>5, <1>6, <1>7, <1>8, StepEffect

\* The rows that a frame names were inserted.
Grounded(f) ==
  /\ f.op \in {"approve", "allocate"} => request[f.request] # NoRequest
  /\ f.op = "allocate" => unit[f.unit] # NoUnit
  /\ f.op = "transition" => deployment[f.deployment] # NoDeployment

LEMMA GroundedStays ==
  ASSUME RowsStay, NEW f \in Frames \cup {Idle}, Grounded(f)
  PROVE  Grounded(f)'
BY DEF RowsStay, Grounded, Frames, Idle

LEMMA QuotedNat == \A n : Quoted(n) \subseteq Nat
BY DEF Quoted

\* A frame is made only by the handler of its kind, of what the handler read.
LEMMA BeginFrames ==
  ASSUME TypeOK, NEW c \in Clients, NEW a \in Users,
         \/ BeginCreate(c, a) \/ BeginApprove(c, a)
         \/ BeginAllocate(c, a) \/ BeginTransition(c, a)
  PROVE  \E f \in Frames : Grounded(f) /\ frame' = [frame EXCEPT ![c] = f]
<1>1. CASE BeginCreate(c, a)
  <2>1. PICK i \in Incidents, k \in Skills, n \in Quantities :
          Begin(c, a, {"commander", "field_operator"},
                [op |-> "create",
                 draft |-> [status |-> "requested", version |-> 1, incident |-> i,
                            skill |-> k, quantity |-> n]])
    BY <1>1 DEF BeginCreate
  <2> DEFINE d == [status |-> "requested", version |-> 1, incident |-> i,
                   skill |-> k, quantity |-> n]
             f == [op |-> "create", draft |-> d]
  <2>2. d \in DraftRows
    BY DEF DraftRows
  <2> HIDE DEF d
  <2>3. f \in Frames /\ Grounded(f)
    BY <2>2 DEF Frames, Grounded
  <2>4. frame' = [frame EXCEPT ![c] = f]
    BY <2>1 DEF Begin, d
  <2> QED
    BY <2>3, <2>4
<1>2. CASE BeginApprove(c, a)
  <2>1. PICK r \in Requests, v \in Nat :
          /\ request[r].status = "requested"
          /\ Begin(c, a, {"commander"}, [op |-> "approve", request |-> r, version |-> v])
    BY <1>2, QuotedNat DEF BeginApprove
  <2> DEFINE f == [op |-> "approve", request |-> r, version |-> v]
  <2>2. f \in Frames /\ Grounded(f)
    BY <2>1 DEF Frames, Grounded, NoRequest
  <2>3. frame' = [frame EXCEPT ![c] = f]
    BY <2>1 DEF Begin
  <2> QED
    BY <2>2, <2>3
<1>3. CASE BeginAllocate(c, a)
  <2>1. PICK r \in Requests, u \in Units :
          /\ request[r].status \in Allocatable /\ unit[u] # NoUnit
          /\ \E v \in Quoted(request[r].version), w \in Quoted(unit[u].version) :
               Begin(c, a, {"commander"},
                     [op |-> "allocate", request |-> r, version |-> v,
                      unit |-> u, unitVersion |-> w])
    BY <1>3 DEF BeginAllocate
  <2>2. PICK v \in Nat, w \in Nat :
          Begin(c, a, {"commander"},
                [op |-> "allocate", request |-> r, version |-> v,
                 unit |-> u, unitVersion |-> w])
    BY <2>1, QuotedNat
  <2> DEFINE f == [op |-> "allocate", request |-> r, version |-> v,
                   unit |-> u, unitVersion |-> w]
  <2>3. f \in Frames /\ Grounded(f)
    BY <2>1 DEF Frames, Grounded, NoRequest, Allocatable
  <2>4. frame' = [frame EXCEPT ![c] = f]
    BY <2>2 DEF Begin
  <2> QED
    BY <2>3, <2>4
<1>4. CASE BeginTransition(c, a)
  <2>1. PICK d \in Deployments, to \in DeploymentStatus, v \in Nat :
          /\ <<deployment[d].status, to>> \in DeploymentTransitions
          /\ Begin(c, a, {"commander", "field_operator"},
                   [op |-> "transition", deployment |-> d, version |-> v, to |-> to])
    BY <1>4, QuotedNat DEF BeginTransition
  <2> DEFINE f == [op |-> "transition", deployment |-> d, version |-> v, to |-> to]
  <2>2. deployment[d] # NoDeployment
    BY <2>1, LeavesActive DEF NoDeployment, ActiveDeployment
  <2>3. f \in Frames /\ Grounded(f)
    BY <2>2 DEF Frames, Grounded
  <2>4. frame' = [frame EXCEPT ![c] = f]
    BY <2>1 DEF Begin
  <2> QED
    BY <2>3, <2>4
<1> QED
  BY <1>1, <1>2, <1>3, <1>4

LEMMA FramesStep ==
  ASSUME TypeOK, [Next]_vars
  PROVE  /\ frame' \in [Clients -> Frames \cup {Idle}]
         /\ \A c \in Clients : Grounded(frame[c])'
<1>1. frame \in [Clients -> Frames \cup {Idle}] /\ \A c \in Clients : Grounded(frame[c])
  BY DEF TypeOK, Grounded
<1>2. RowsStay
  BY TablesStep
<1>3. \/ frame' = frame
      \/ \E c \in Clients : Return(c)
      \/ \E c \in Clients, f \in Frames : Grounded(f) /\ frame' = [frame EXCEPT ![c] = f]
  <2>1. ASSUME NEW c \in Clients, Step(c)
        PROVE  \/ frame' = frame \/ Return(c)
               \/ \E f \in Frames : Grounded(f) /\ frame' = [frame EXCEPT ![c] = f]
    BY <2>1, BeginFrames
    DEF Step, RegisterUnit, CreateRequest, ApproveRequest, AllocateUnit,
        TransitionDeployment, RollBack
  <2> QED
    BY <2>1 DEF Next, NeedTimePasses, IncidentMoves, vars
<1>4. Grounded(Idle)
  BY DEF Grounded, Idle
<1>5. \/ frame' = frame
      \/ \E c \in Clients, f \in Frames \cup {Idle} :
           Grounded(f) /\ frame' = [frame EXCEPT ![c] = f]
  BY <1>3, <1>4 DEF Return
<1> QED
  BY <1>1, <1>2, <1>5, GroundedStays

LEMMA TypeStep ==
  ASSUME TypeOK, [Next]_vars
  PROVE  TypeOK'
<1>1. late' \in SUBSET Requests /\ operational' \in SUBSET Incidents
  BY DEF TypeOK, Next, NeedTimePasses, IncidentMoves, vars, env
<1> QED
  BY <1>1, TablesStep, FramesStep DEF TypeOK, Tables, Grounded

LEMMA TypeInit == Init => TypeOK
BY DEF Init, Empty, TypeOK, Idle

\* Whatever requests race, rows and frames keep the shape that SQL and Go give
\* them, no row is lost, and no deployment or frame names one that is not there.
THEOREM TypeCorrect == Spec => []TypeOK
BY TypeInit, TypeStep, PTL DEF Spec

-------------------------------------------------------------------------------
(* Counting deployments *)

Held(u) == Cardinality(HeldBy(u))
Claimed(u) == Cardinality(ClaimsOn(u))
Active(r) == Cardinality(ActiveOf(r))
Given(r) == Cardinality(DeploymentsOf(r))

One(b) == IF b THEN 1 ELSE 0

LEMMA AddOne ==
  ASSUME NEW S \in SUBSET Deployments, NEW d \in Deployments \ S, NEW T,
         NEW b \in BOOLEAN, T = IF b THEN S \cup {d} ELSE S
  PROVE  Cardinality(T) = Cardinality(S) + One(b) /\ Cardinality(S) \in Nat
<1>1. IsFiniteSet(S)
  BY FS_Subset, DispatchAssumption DEF DispatchAssumption
<1>2. Cardinality(S) \in Nat
  BY <1>1, FS_CardinalityType
<1>3. Cardinality(S \cup {d}) = Cardinality(S) + 1
  BY <1>1, FS_AddElement
<1> QED
  BY <1>2, <1>3 DEF One

LEMMA RemoveOne ==
  ASSUME NEW S \in SUBSET Deployments, NEW d \in Deployments
  PROVE  /\ Cardinality(S \ {d}) = Cardinality(S) - One(d \in S)
         /\ Cardinality(S) \in Nat
         /\ d \in S => (Cardinality(S) = 1 <=> S \subseteq {d})
         /\ d \in S => Cardinality(S) >= 1
<1>1. IsFiniteSet(S) /\ IsFiniteSet(S \ {d})
  BY FS_Subset, DispatchAssumption DEF DispatchAssumption
<1>2. Cardinality(S) \in Nat /\ Cardinality(S \ {d}) \in Nat
  BY <1>1, FS_CardinalityType
<1>3. Cardinality(S \ {d}) = IF d \in S THEN Cardinality(S) - 1 ELSE Cardinality(S)
  BY <1>1, FS_RemoveElement
<1>4. Cardinality(S \ {d}) = 0 <=> S \ {d} = {}
  BY <1>1, FS_EmptySet
<1>5. S \ {d} = {} <=> S \subseteq {d}
  OBVIOUS
<1> QED
  BY <1>2, <1>3, <1>4, <1>5 DEF One

LEMMA CountsAreNumbers ==
  /\ \A u : Held(u) \in Nat /\ Claimed(u) \in Nat
  /\ \A r : Active(r) \in Nat /\ Given(r) \in Nat
  /\ \A u : HeldBy(u) = {} <=> Held(u) = 0
<1>1. /\ \A u : HeldBy(u) \subseteq Deployments /\ ClaimsOn(u) \subseteq Deployments
      /\ \A r : ActiveOf(r) \subseteq Deployments /\ DeploymentsOf(r) \subseteq Deployments
  BY DEF HeldBy, ClaimsOn, ActiveOf, DeploymentsOf
<1>2. \A S \in SUBSET Deployments : Cardinality(S) \in Nat /\ (S = {} <=> Cardinality(S) = 0)
  BY FS_Subset, FS_CardinalityType, FS_EmptySet, DispatchAssumption DEF DispatchAssumption
<1> QED
  BY <1>1, <1>2 DEF Held, Claimed, Active, Given

LEMMA CountsSame ==
  ASSUME UNCHANGED deployment
  PROVE  /\ \A u : Held(u)' = Held(u) /\ Claimed(u)' = Claimed(u)
         /\ \A r : Active(r)' = Active(r) /\ Given(r)' = Given(r)
BY DEF Held, Claimed, Active, Given, HeldBy, ClaimsOn, ActiveOf, DeploymentsOf

\* An allocation adds one deployment to its unit and to its request.
LEMMA CountsAfterAllocation ==
  ASSUME TypeOK, NEW r, NEW u, NEW d, Allocates(r, u, d)
  PROVE  /\ \A v : Held(v)' = Held(v) + One(v = u) /\ Claimed(v)' = Claimed(v) + One(v = u)
         /\ \A q : Active(q)' = Active(q) + One(q = r) /\ Given(q)' = Given(q) + One(q = r)
<1>1. /\ d \in Deployments /\ deployment[d] = NoDeployment
      /\ deployment'[d].status = "assigned" /\ deployment'[d] # NoDeployment
      /\ deployment'[d].request = r /\ deployment'[d].unit = u
      /\ \A e \in Deployments \ {d} : deployment'[e] = deployment[e]
  BY DeploymentRowFacts DEF Allocates
<1>2. /\ deployment[d].status \notin ActiveDeployment
      /\ deployment'[d].status \in ActiveDeployment
  BY <1>1 DEF NoDeployment, ActiveDeployment
<1>3. \A v : /\ HeldBy(v)' = IF v = u THEN HeldBy(v) \cup {d} ELSE HeldBy(v)
             /\ d \in Deployments \ HeldBy(v)
  BY <1>1, <1>2 DEF HeldBy
<1>4. \A v : /\ ClaimsOn(v)' = IF v = u THEN ClaimsOn(v) \cup {d} ELSE ClaimsOn(v)
             /\ d \in Deployments \ ClaimsOn(v)
  BY <1>1 DEF ClaimsOn
<1>5. \A q : /\ ActiveOf(q)' = IF q = r THEN ActiveOf(q) \cup {d} ELSE ActiveOf(q)
             /\ d \in Deployments \ ActiveOf(q)
  BY <1>1, <1>2 DEF ActiveOf
<1>6. \A q : /\ DeploymentsOf(q)' = IF q = r THEN DeploymentsOf(q) \cup {d} ELSE DeploymentsOf(q)
             /\ d \in Deployments \ DeploymentsOf(q)
  BY <1>1 DEF DeploymentsOf
<1>7. /\ \A v : HeldBy(v) \subseteq Deployments /\ ClaimsOn(v) \subseteq Deployments
      /\ \A q : ActiveOf(q) \subseteq Deployments /\ DeploymentsOf(q) \subseteq Deployments
  BY DEF HeldBy, ClaimsOn, ActiveOf, DeploymentsOf
<1> QED
  BY <1>3, <1>4, <1>5, <1>6, <1>7, AddOne DEF Held, Claimed, Active, Given

\* A deployment on its way still counts.
LEMMA CountsAfterProgress ==
  ASSUME NEW d, NEW from, NEW to, Progresses(d, from, to)
  PROVE  /\ \A u : Held(u)' = Held(u) /\ Claimed(u)' = Claimed(u)
         /\ \A r : Active(r)' = Active(r) /\ Given(r)' = Given(r)
<1>1. \A e \in Deployments :
        /\ deployment'[e].status \in ActiveDeployment <=> deployment[e].status \in ActiveDeployment
        /\ deployment'[e] = NoDeployment <=> deployment[e] = NoDeployment
        /\ deployment[e] # NoDeployment => /\ deployment'[e].request = deployment[e].request
                                           /\ deployment'[e].unit = deployment[e].unit
  BY LeavesActive, DeploymentRowFacts DEF Progresses, DeploymentMoves
<1>2. \A e \in Deployments : deployment[e].status \in ActiveDeployment
                               => deployment[e] # NoDeployment
  BY DEF NoDeployment, ActiveDeployment
<1>3. /\ \A u : HeldBy(u)' = HeldBy(u) /\ ClaimsOn(u)' = ClaimsOn(u)
      /\ \A r : ActiveOf(r)' = ActiveOf(r) /\ DeploymentsOf(r)' = DeploymentsOf(r)
  BY <1>1, <1>2 DEF HeldBy, ClaimsOn, ActiveOf, DeploymentsOf
<1> QED
  BY <1>3 DEF Held, Claimed, Active, Given

\* A deployment that ends leaves its unit and its request with one less.
LEMMA CountsAfterEnd ==
  ASSUME NEW d, NEW from, NEW to, Ends(d, from, to)
  PROVE  /\ \A u : Held(u)' = Held(u) - One(u = deployment[d].unit) /\ Claimed(u)' = Claimed(u)
         /\ \A r : Active(r)' = Active(r) - One(r = deployment[d].request) /\ Given(r)' = Given(r)
         /\ Held(deployment[d].unit) >= 1
         /\ Active(deployment[d].request) >= 1
         /\ ActiveOf(deployment[d].request) \subseteq {d} <=> Active(deployment[d].request) = 1
<1>1. /\ d \in Deployments
      /\ deployment[d].status \in ActiveDeployment
      /\ deployment'[d].status \notin ActiveDeployment
      /\ deployment[d] # NoDeployment /\ deployment'[d] # NoDeployment
      /\ deployment'[d].request = deployment[d].request
      /\ deployment'[d].unit = deployment[d].unit
      /\ \A e \in Deployments \ {d} : deployment'[e] = deployment[e]
  BY LeavesActive, DeploymentRowFacts DEF Ends, DeploymentMoves
<1>2. /\ \A u : ClaimsOn(u)' = ClaimsOn(u)
      /\ \A r : DeploymentsOf(r)' = DeploymentsOf(r)
  BY <1>1 DEF ClaimsOn, DeploymentsOf
<1>3. /\ \A u : HeldBy(u)' = HeldBy(u) \ {d} /\ (d \in HeldBy(u) <=> u = deployment[d].unit)
      /\ \A r : ActiveOf(r)' = ActiveOf(r) \ {d} /\ (d \in ActiveOf(r) <=> r = deployment[d].request)
  BY <1>1 DEF HeldBy, ActiveOf
<1>4. \A u, r : HeldBy(u) \subseteq Deployments /\ ActiveOf(r) \subseteq Deployments
  BY DEF HeldBy, ActiveOf
<1>5. ASSUME NEW u
      PROVE  /\ Held(u)' = Held(u) - One(u = deployment[d].unit)
             /\ u = deployment[d].unit => Held(u) >= 1
  BY <1>1, <1>3, <1>4, RemoveOne DEF Held, One
<1>6. ASSUME NEW r
      PROVE  /\ Active(r)' = Active(r) - One(r = deployment[d].request)
             /\ r = deployment[d].request =>
                  Active(r) >= 1 /\ (ActiveOf(r) \subseteq {d} <=> Active(r) = 1)
  BY <1>1, <1>3, <1>4, RemoveOne DEF Active, One
<1> QED
  BY <1>2, <1>5, <1>6 DEF Claimed, Given

-------------------------------------------------------------------------------
(* A unit serves once *)

\* UnitsServeOnce for one unit.
ServesOnce(u) == Held(u) = One(unit[u].status = "deployed")
ServeInv == \A u \in Units : ServesOnce(u)

LEMMA ServesOnceStep ==
  ASSUME TypeOK, \A u \in Units : ServesOnce(u), [Next]_vars
  PROVE  \A u \in Units : ServesOnce(u)'
<1> USE DEF ServesOnce
<1>1. CASE UNCHANGED db
  BY <1>1, CountsSame DEF db
<1>2. ASSUME NEW u \in Units, Registers(u)
      PROVE  \A v \in Units : ServesOnce(v)'
  BY <1>2, CountsSame DEF Registers, NoUnit, One
<1>3. ASSUME NEW r \in Requests, Requested(r) \/ Approves(r)
      PROVE  \A v \in Units : ServesOnce(v)'
  BY <1>3, CountsSame DEF Requested, Approves
<1>4. ASSUME NEW r \in Requests, NEW u \in Units, NEW d \in Deployments, Allocates(r, u, d)
      PROVE  \A v \in Units : ServesOnce(v)'
  <2>1. /\ unit[u].status = "available" /\ unit'[u].status = "deployed"
        /\ \A v \in Units \ {u} : unit'[v] = unit[v]
    BY <1>4 DEF Allocates, UnitMoves
  <2>2. \A v \in Units : Held(v)' = Held(v) + One(v = u)
    BY <1>4, CountsAfterAllocation
  <2> QED
    BY <2>1, <2>2 DEF One
<1>5. ASSUME NEW d \in Deployments, NEW from, NEW to, Progresses(d, from, to)
      PROVE  \A v \in Units : ServesOnce(v)'
  BY <1>5, CountsAfterProgress DEF Progresses
<1>6. ASSUME NEW d \in Deployments, NEW from, NEW to, Ends(d, from, to)
      PROVE  \A v \in Units : ServesOnce(v)'
  <2>1. PICK u \in Units : u = deployment[d].unit
    BY <1>6 DEF Ends, UnitMoves
  <2>2. /\ unit[u].status = "deployed" /\ unit'[u].status = "available"
        /\ \A v \in Units \ {u} : unit'[v] = unit[v]
    BY <1>6, <2>1 DEF Ends, UnitMoves
  <2>3. \A v \in Units : Held(v)' = Held(v) - One(v = u)
    BY <1>6, <2>1, CountsAfterEnd
  <2> QED
    BY <2>2, <2>3 DEF One
<1> QED
  BY <1>1, <1>2, <1>3, <1>4, <1>5, <1>6, StepEffect

\* With no deployment in the table every count is zero.
LEMMA CountsInit ==
  ASSUME Init
  PROVE  /\ \A u : Held(u) = 0 /\ Claimed(u) = 0
         /\ \A r : Active(r) = 0 /\ Given(r) = 0
<1>1. /\ \A u : HeldBy(u) = {} /\ ClaimsOn(u) = {}
      /\ \A r : ActiveOf(r) = {} /\ DeploymentsOf(r) = {}
  BY DEF Init, Empty, HeldBy, ClaimsOn, ActiveOf, DeploymentsOf, NoDeployment,
         ActiveDeployment
<1> QED
  BY <1>1, FS_EmptySet DEF Held, Claimed, Active, Given

LEMMA ServesOnceAlways == Spec => []ServeInv
<1>1. Init => ServeInv
  BY CountsInit DEF Init, Empty, NoUnit, ServeInv, ServesOnce, One
<1>2. TypeOK /\ ServeInv /\ [Next]_vars => ServeInv'
  BY ServesOnceStep DEF ServeInv
<1> QED
  BY <1>1, <1>2, TypeCorrect, PTL DEF Spec

\* A unit is deployed exactly while one deployment holds it, for any number of
\* requests that claim it at once: whatever the service read before, the claim and
\* the release each find the row as the deployments left it.
THEOREM UnitsCorrect == Spec => []UnitsServeOnce
<1>1. ServeInv => UnitsServeOnce
  BY DEF UnitsServeOnce, ServeInv, ServesOnce, Held, One
<1> QED
  BY <1>1, ServesOnceAlways, PTL

-------------------------------------------------------------------------------
(* The status of a request tells how many units serve it *)

\* RequestCountsUnits for one request.
Counts(r) ==
  /\ request[r].status = "partially_allocated" =>
       1 <= Active(r) /\ Active(r) < request[r].quantity
  /\ request[r].status = "allocated" =>
       1 <= Active(r) /\ Active(r) <= request[r].quantity
  /\ request[r].status = "fulfilled" =>
       Active(r) = 0 /\ \E d \in Deployments : deployment[d] # NoDeployment
                                               /\ deployment[d].request = r
  /\ request[r].status \notin {"partially_allocated", "allocated", "fulfilled"} =>
       Active(r) = 0

CountsInv == \A r \in Requests : Counts(r)

LEMMA CountsFrame ==
  ASSUME TypeOK, NEW r \in Requests, Counts(r), request'[r] = request[r],
         Active(r)' = Active(r),
         \A d \in Deployments :
           deployment[d] # NoDeployment => /\ deployment'[d] # NoDeployment
                                           /\ deployment'[d].request = deployment[d].request
  PROVE  Counts(r)'
BY DEF Counts

LEMMA RequestCountsStep ==
  ASSUME TypeOK, \A r \in Requests : Counts(r), [Next]_vars
  PROVE  \A r \in Requests : Counts(r)'
<1>1. CASE UNCHANGED <<request, deployment>>
  BY <1>1, CountsSame, CountsFrame
<1>2. ASSUME NEW r \in Requests, Requested(r) \/ Approves(r)
      PROVE  \A q \in Requests : Counts(q)'
  <2>1. /\ request[r].status \in {"none", "requested"}
        /\ request'[r].status \in {"requested", "approved"}
        /\ \A q \in Requests \ {r} : request'[q] = request[q]
        /\ deployment' = deployment
    BY <1>2 DEF Requested, Approves, RequestMoves, NoRequest
  <2>2. Counts(r)'
    BY <2>1, CountsSame DEF Counts
  <2> QED
    BY <2>1, <2>2, CountsSame, CountsFrame
<1>3. ASSUME NEW r \in Requests, NEW u \in Units, NEW d \in Deployments, Allocates(r, u, d)
      PROVE  \A q \in Requests : Counts(q)'
  <2>1. /\ request[r].status \in Allocatable
        /\ request'[r].status = AllocationStatus(r)
        /\ request'[r].quantity = request[r].quantity
        /\ request[r].quantity \in Nat /\ request[r].quantity >= 1
        /\ \A q \in Requests \ {r} : request'[q] = request[q]
    BY <1>3, RequestRowFacts DEF Allocates, RequestMoves
  <2>2. \A q \in Requests : Active(q)' = Active(q) + One(q = r) /\ Active(q) \in Nat
    BY <1>3, CountsAfterAllocation, CountsAreNumbers
  <2>3. \A e \in Deployments : deployment[e] # NoDeployment => deployment'[e] = deployment[e]
    BY <1>3 DEF Allocates
  <2>4. Active(r) <= request[r].quantity - 1
    BY <2>1, <2>2 DEF Counts, Allocatable
  <2>5. Counts(r)'
    BY <2>1, <2>2, <2>4 DEF Counts, AllocationStatus, Active, One
  <2>6. \A q \in Requests \ {r} : Counts(q)'
    BY <2>1, <2>2, <2>3, CountsFrame DEF One
  <2> QED
    BY <2>5, <2>6
<1>4. ASSUME NEW d \in Deployments, NEW from, NEW to, Progresses(d, from, to)
      PROVE  \A q \in Requests : Counts(q)'
  <2>1. \A e \in Deployments :
          deployment[e] # NoDeployment => /\ deployment'[e] # NoDeployment
                                          /\ deployment'[e].request = deployment[e].request
    BY <1>4, DeploymentRowFacts DEF Progresses, DeploymentMoves
  <2> QED
    BY <1>4, <2>1, CountsAfterProgress, CountsFrame DEF Progresses
<1>5. ASSUME NEW d \in Deployments, NEW from, NEW to, Ends(d, from, to)
      PROVE  \A q \in Requests : Counts(q)'
  <2>1. \A e \in Deployments :
          deployment[e] # NoDeployment => /\ deployment'[e] # NoDeployment
                                          /\ deployment'[e].request = deployment[e].request
    BY <1>5, DeploymentRowFacts DEF Ends, DeploymentMoves
  <2>2. PICK r \in Requests : r = deployment[d].request
    BY <1>5, DeploymentRowFacts DEF Ends, DeploymentMoves
  <2>3. /\ \A q \in Requests : Active(q)' = Active(q) - One(q = r) /\ Active(q) \in Nat
        /\ Active(r) >= 1
        /\ ActiveOf(r) \subseteq {d} <=> Active(r) = 1
    BY <1>5, <2>2, CountsAfterEnd, CountsAreNumbers
  <2>4. request[r].status \in {"allocated", "partially_allocated"}
    BY <2>3 DEF Counts
  <2>5. CASE Active(r) = 1
    <3>1. RequestMoves(r, request[r].status, "fulfilled")
      BY <1>5, <2>2, <2>3, <2>4, <2>5 DEF Ends
    <3>2. Active(r)' = 0
      BY <2>3, <2>5 DEF One
    <3>3. deployment[d] # NoDeployment
      BY <1>5, DeploymentRowFacts DEF Ends, DeploymentMoves
    <3>4. Counts(r)'
      BY <2>1, <2>2, <3>1, <3>2, <3>3 DEF Counts, RequestMoves
    <3>5. \A q \in Requests \ {r} : Counts(q)'
      BY <2>1, <2>3, <3>1, CountsFrame DEF RequestMoves, One
    <3> QED
      BY <3>4, <3>5
  <2>6. CASE Active(r) # 1
    <3>1. UNCHANGED request
      BY <1>5, <2>2, <2>3, <2>6 DEF Ends
    <3>2. request[r].quantity \in Nat
      BY <2>4, Inserted, RequestRowFacts DEF RequestStatus
    <3>3. Counts(r)'
      BY <2>3, <2>4, <2>6, <3>1, <3>2 DEF Counts, One
    <3>4. \A q \in Requests \ {r} : Counts(q)'
      BY <2>1, <2>3, <3>1, CountsFrame DEF One
    <3> QED
      BY <3>3, <3>4
  <2> QED
    BY <2>5, <2>6
<1> QED
  BY <1>1, <1>2, <1>3, <1>4, <1>5, StepEffect DEF db, Registers

LEMMA CountsAlways == Spec => []CountsInv
<1>1. Init => CountsInv
  BY CountsInit DEF Init, Empty, NoRequest, CountsInv, Counts
<1>2. TypeOK /\ CountsInv /\ [Next]_vars => CountsInv'
  BY RequestCountsStep DEF CountsInv
<1> QED
  BY <1>1, <1>2, TypeCorrect, PTL DEF Spec

\* The status of a request never lies about the units that serve it: it is never
\* given more than it asked for, and the last unit to leave settles it.
THEOREM RequestsCorrect == Spec => []RequestCountsUnits
<1>1. CountsInv => RequestCountsUnits
  BY DEF CountsInv, RequestCountsUnits, Counts, Active
<1> QED
  BY <1>1, CountsAlways, PTL

-------------------------------------------------------------------------------
(* Versions *)

Phase(status) == CASE status = "requested" -> 1 [] status = "fulfilled" -> 3 [] OTHER -> 2

\* VersionsCountChanges for one unit and for one request; before they are
\* inserted there is nothing to count.
UnitVersion(u) ==
  IF unit[u] = NoUnit THEN Held(u) = 0 /\ Claimed(u) = 0
  ELSE unit[u].version + Held(u) = 1 + 2 * Claimed(u)
RequestVersion(r) ==
  IF request[r] = NoRequest THEN Given(r) = 0
  ELSE request[r].version = Given(r) + Phase(request[r].status)

VersionsInv ==
  /\ \A u \in Units : UnitVersion(u)
  /\ \A r \in Requests : RequestVersion(r)

LEMMA UnitVersionStep ==
  ASSUME TypeOK, VersionsInv, [Next]_vars
  PROVE  \A u \in Units : UnitVersion(u)'
<1> USE DEF UnitVersion
<1>1. \A u \in Units : UnitVersion(u)
  BY DEF VersionsInv
<1>2. CASE UNCHANGED <<unit, deployment>>
  BY <1>1, <1>2, CountsSame
<1>3. ASSUME NEW u \in Units, Registers(u)
      PROVE  \A v \in Units : UnitVersion(v)'
  <2>1. unit'[u].version = 1 /\ unit'[u] # NoUnit /\ unit[u] = NoUnit
    BY <1>3 DEF Registers, NoUnit
  <2> QED
    BY <1>1, <1>3, <2>1, CountsSame DEF Registers
<1>4. ASSUME NEW r \in Requests, NEW u \in Units, NEW d \in Deployments, Allocates(r, u, d)
      PROVE  \A v \in Units : UnitVersion(v)'
  <2>1. /\ unit[u] # NoUnit /\ unit'[u] # NoUnit
        /\ unit[u].version \in Nat /\ unit'[u].version = unit[u].version + 1
        /\ \A v \in Units \ {u} : unit'[v] = unit[v]
    BY <1>4, UnitRowFacts DEF Allocates, UnitMoves
  <2>2. \A v \in Units : /\ Held(v)' = Held(v) + One(v = u)
                         /\ Claimed(v)' = Claimed(v) + One(v = u)
                         /\ Held(v) \in Nat /\ Claimed(v) \in Nat
    BY <1>4, CountsAfterAllocation, CountsAreNumbers
  <2> QED
    BY <1>1, <2>1, <2>2 DEF One
<1>5. ASSUME NEW d \in Deployments, NEW from, NEW to, Progresses(d, from, to)
      PROVE  \A v \in Units : UnitVersion(v)'
  BY <1>1, <1>5, CountsAfterProgress DEF Progresses
<1>6. ASSUME NEW d \in Deployments, NEW from, NEW to, Ends(d, from, to)
      PROVE  \A v \in Units : UnitVersion(v)'
  <2>1. PICK u \in Units : u = deployment[d].unit
    BY <1>6 DEF Ends, UnitMoves
  <2>2. /\ unit[u] # NoUnit /\ unit'[u] # NoUnit
        /\ unit[u].version \in Nat /\ unit'[u].version = unit[u].version + 1
        /\ \A v \in Units \ {u} : unit'[v] = unit[v]
    BY <1>6, <2>1, UnitRowFacts DEF Ends, UnitMoves
  <2>3. \A v \in Units : /\ Held(v)' = Held(v) - One(v = u)
                         /\ Claimed(v)' = Claimed(v)
                         /\ Held(v) \in Nat /\ Claimed(v) \in Nat
    BY <1>6, <2>1, CountsAfterEnd, CountsAreNumbers
  <2> QED
    BY <1>1, <2>2, <2>3 DEF One
<1> QED
  BY <1>2, <1>3, <1>4, <1>5, <1>6, StepEffect DEF db, Requested, Approves

LEMMA RequestVersionStep ==
  ASSUME TypeOK, VersionsInv, [Next]_vars
  PROVE  \A r \in Requests : RequestVersion(r)'
<1> USE DEF RequestVersion
<1>1. \A r \in Requests : RequestVersion(r)
  BY DEF VersionsInv
<1>2. CASE UNCHANGED <<request, deployment>>
  BY <1>1, <1>2, CountsSame
<1>3. ASSUME NEW r \in Requests, NEW from, NEW to, NEW given \in {0, 1},
             RequestMoves(r, from, to),
             Phase(to) + given = Phase(from) + 1,
             \A q \in Requests : Given(q)' = Given(q) + (IF q = r THEN given ELSE 0)
      PROVE  \A q \in Requests : RequestVersion(q)'
  <2>1. /\ request[r] # NoRequest /\ request'[r] # NoRequest
        /\ request[r].version \in Nat /\ request'[r].version = request[r].version + 1
        /\ request[r].status = from /\ request'[r].status = to
        /\ \A q \in Requests \ {r} : request'[q] = request[q]
    BY <1>3, RequestRowFacts DEF RequestMoves
  <2>2. \A q \in Requests : Given(q) \in Nat
    BY CountsAreNumbers
  <2>3. Phase(from) \in Nat /\ Phase(to) \in Nat
    BY DEF Phase
  <2>4. RequestVersion(r)'
    BY <1>1, <1>3, <2>1, <2>2, <2>3
  <2>5. \A q \in Requests \ {r} : RequestVersion(q)'
    BY <1>1, <1>3, <2>1, <2>2
  <2> QED
    BY <2>4, <2>5
<1>4. ASSUME NEW r \in Requests, Requested(r)
      PROVE  \A q \in Requests : RequestVersion(q)'
  <2>1. /\ request[r] = NoRequest /\ request'[r] # NoRequest
        /\ request'[r].version = 1 /\ request'[r].status = "requested"
    BY <1>4, RequestRowFacts DEF Requested
  <2> QED
    BY <1>1, <1>4, <2>1, CountsSame DEF Requested, Phase
<1>5. ASSUME NEW r \in Requests, Approves(r)
      PROVE  \A q \in Requests : RequestVersion(q)'
  BY <1>3, <1>5, CountsSame, CountsAreNumbers DEF Approves, Phase
<1>6. ASSUME NEW r \in Requests, NEW u \in Units, NEW d \in Deployments, Allocates(r, u, d)
      PROVE  \A q \in Requests : RequestVersion(q)'
  <2>1. /\ RequestMoves(r, request[r].status, AllocationStatus(r))
        /\ request[r].status \in Allocatable
    BY <1>6 DEF Allocates
  <2>2. Phase(AllocationStatus(r)) = 2 /\ Phase(request[r].status) = 2
    BY <2>1 DEF Phase, AllocationStatus, Allocatable
  <2>3. \A q \in Requests : Given(q)' = Given(q) + (IF q = r THEN 1 ELSE 0)
    BY <1>6, CountsAfterAllocation DEF One
  <2> QED
    BY <1>3, <2>1, <2>2, <2>3
<1>7. ASSUME NEW d \in Deployments, NEW from, NEW to, Progresses(d, from, to)
      PROVE  \A q \in Requests : RequestVersion(q)'
  BY <1>1, <1>7, CountsAfterProgress DEF Progresses
<1>8. ASSUME NEW d \in Deployments, NEW from, NEW to, Ends(d, from, to)
      PROVE  \A q \in Requests : RequestVersion(q)'
  <2>1. \A q \in Requests : Given(q)' = Given(q) /\ Given(q) \in Nat
    BY <1>8, CountsAfterEnd, CountsAreNumbers
  <2>2. CASE UNCHANGED request
    BY <1>1, <2>1, <2>2
  <2>3. CASE ~UNCHANGED request
    <3>1. PICK r \in Requests :
            /\ request[r].status \in {"allocated", "partially_allocated"}
            /\ RequestMoves(r, request[r].status, "fulfilled")
      BY <1>8, <2>3 DEF Ends, RequestMoves
    <3>2. Phase(request[r].status) = 2 /\ Phase("fulfilled") = 3
      BY <3>1 DEF Phase
    <3> QED
      BY <1>3, <2>1, <3>1, <3>2
  <2> QED
    BY <2>2, <2>3
<1> QED
  BY <1>2, <1>4, <1>5, <1>6, <1>7, <1>8, StepEffect DEF db, Registers

\* A version names one moment in the life of its row, because it counts the
\* changes of the row: no two transactions ever raise it for the same change and
\* none changes the row without it.
THEOREM VersionsCorrect == Spec => []VersionsCountChanges
<1>1. Init => VersionsInv
  BY CountsInit DEF Init, Empty, VersionsInv, UnitVersion, RequestVersion
<1>2. TypeOK /\ VersionsInv /\ [Next]_vars => VersionsInv'
  BY UnitVersionStep, RequestVersionStep DEF VersionsInv
<1>3. VersionsInv => VersionsCountChanges
  BY DEF VersionsInv, UnitVersion, RequestVersion, VersionsCountChanges, Held, Claimed,
         Given, Phase
<1> QED
  BY <1>1, <1>2, <1>3, TypeCorrect, PTL DEF Spec

-------------------------------------------------------------------------------
(* Lifecycles *)

RequestFollows(r) ==
  (request[r] # NoRequest /\ request'[r] # request[r]) =>
    \/ <<request[r].status, request'[r].status>> \in RequestTransitions
    \/ request[r].status = request'[r].status /\ request[r].status = "partially_allocated"
DeploymentFollows(d) ==
  (deployment[d] # NoDeployment /\ deployment'[d] # deployment[d]) =>
    <<deployment[d].status, deployment'[d].status>> \in DeploymentTransitions

\* What LifecyclesFollowed says of a step.
Follows ==
  /\ \A r \in Requests :
       (request[r] # NoRequest /\ request'[r] # request[r]) =>
         \/ <<request[r].status, request'[r].status>> \in RequestTransitions
         \/ request[r].status = request'[r].status /\ request[r].status = "partially_allocated"
  /\ \A d \in Deployments :
       (deployment[d] # NoDeployment /\ deployment'[d] # deployment[d]) =>
         <<deployment[d].status, deployment'[d].status>> \in DeploymentTransitions

LEMMA FollowsStep ==
  ASSUME TypeOK, [Next]_vars
  PROVE  Follows
<1>1. \A r \in Requests : RequestFollows(r)
  <2>1. ASSUME UNCHANGED request
        PROVE  \A r \in Requests : RequestFollows(r)
    BY <2>1 DEF RequestFollows
  <2>2. ASSUME NEW r \in Requests, Requested(r)
        PROVE  \A q \in Requests : RequestFollows(q)
    BY <2>2 DEF RequestFollows, Requested
  <2>3. ASSUME NEW r \in Requests, NEW from, NEW to, RequestMoves(r, from, to),
               \/ <<from, to>> \in RequestTransitions
               \/ from = to /\ from = "partially_allocated"
        PROVE  \A q \in Requests : RequestFollows(q)
    BY <2>3 DEF RequestFollows, RequestMoves
  <2>4. ASSUME NEW r \in Requests, Approves(r)
        PROVE  \A q \in Requests : RequestFollows(q)
    BY <2>3, <2>4 DEF Approves, RequestTransitions
  <2>5. ASSUME NEW r \in Requests, NEW u \in Units, NEW d \in Deployments, Allocates(r, u, d)
        PROVE  \A q \in Requests : RequestFollows(q)
    <3>1. /\ request[r].status \in {"approved", "partially_allocated"}
          /\ AllocationStatus(r) \in {"allocated", "partially_allocated"}
      BY <2>5 DEF Allocates, Allocatable, AllocationStatus
    <3> QED
      BY <2>3, <2>5, <3>1 DEF Allocates, RequestTransitions
  <2>6. ASSUME NEW d \in Deployments, NEW from, NEW to, Ends(d, from, to)
        PROVE  \A q \in Requests : RequestFollows(q)
    <3>1. CASE ~UNCHANGED request
      <4>1. PICK r \in Requests :
              /\ request[r].status \in {"allocated", "partially_allocated"}
              /\ RequestMoves(r, request[r].status, "fulfilled")
        BY <2>6, <3>1 DEF Ends, RequestMoves
      <4> QED
        BY <2>3, <4>1 DEF RequestTransitions
    <3> QED
      BY <2>1, <3>1
  <2> QED
    BY <2>1, <2>2, <2>4, <2>5, <2>6, StepEffect DEF db, Registers, Progresses
<1>2. \A d \in Deployments : DeploymentFollows(d)
  <2>1. ASSUME NEW d \in Deployments, NEW from, NEW to, DeploymentMoves(d, from, to)
        PROVE  \A e \in Deployments : DeploymentFollows(e)
    BY <2>1 DEF DeploymentFollows, DeploymentMoves
  <2>2. ASSUME NEW r \in Requests, NEW u \in Units, NEW d \in Deployments, Allocates(r, u, d)
        PROVE  \A e \in Deployments : DeploymentFollows(e)
    BY <2>2 DEF DeploymentFollows, Allocates
  <2>3. ASSUME UNCHANGED deployment
        PROVE  \A e \in Deployments : DeploymentFollows(e)
    BY <2>3 DEF DeploymentFollows
  <2> QED
    BY <2>1, <2>2, <2>3, StepEffect DEF db, Registers, Requested, Approves, Progresses, Ends
<1> QED
  BY <1>1, <1>2 DEF Follows, RequestFollows, DeploymentFollows

\* Whatever the interleaving, requests and deployments move along their tables.
THEOREM LifecyclesCorrect == Spec => LifecyclesFollowed
<1>1. TypeOK /\ [Next]_vars => [Follows]_vars
  BY FollowsStep
<1> QED
  BY <1>1, TypeCorrect, PTL DEF Spec, LifecyclesFollowed, Follows

-------------------------------------------------------------------------------
(* Refinement: the dispatch tables implement the pool of units *)

\* The three variables of the pool, as Dispatch reads them off its tables.
Asked ==
  [r \in Requests |->
     IF request[r].status \in {"none", "requested"} THEN 0 ELSE request[r].quantity]
Taking == {r \in Requests : request[r].status \in Allocatable}
ServesNow ==
  [u \in Units |->
     IF HeldBy(u) = {} THEN "nobody"
     ELSE deployment[CHOOSE d \in HeldBy(u) : TRUE].request]

\* The deployments that hold a unit say which request it serves.
LEMMA ServesWhom ==
  ASSUME TypeOK, ServeInv, NEW u \in Units
  PROVE  /\ HeldBy(u) = {} => ServesNow[u] = "nobody"
         /\ \A d \in HeldBy(u) : HeldBy(u) = {d} /\ ServesNow[u] = deployment[d].request
<1>1. Held(u) = 0 \/ Held(u) = 1
  BY DEF ServeInv, ServesOnce, One
<1>2. IsFiniteSet(HeldBy(u))
  BY FS_Subset, DispatchAssumption DEF DispatchAssumption, HeldBy
<1>3. HeldBy(u) = {} \/ \E d : HeldBy(u) = {d}
  BY <1>1, <1>2, FS_EmptySet, FS_Singleton DEF Held
<1>4. \A d : HeldBy(u) = {d} => (CHOOSE e \in HeldBy(u) : TRUE) = d
  OBVIOUS
<1> QED
  BY <1>3, <1>4 DEF ServesNow

\* A unit keeps its request as long as the same deployments hold it.
LEMMA ServesSame ==
  ASSUME NEW u \in Units, HeldBy(u)' = HeldBy(u),
         \A d \in HeldBy(u) : deployment'[d].request = deployment[d].request
  PROVE  ServesNow'[u] = ServesNow[u]
<1>1. HeldBy(u) # {} => (CHOOSE d \in HeldBy(u) : TRUE) \in HeldBy(u)
  OBVIOUS
<1> QED
  BY <1>1 DEF ServesNow

LEMMA ServesChange ==
  ASSUME NEW u \in Units, NEW r, ServesNow'[u] = r,
         \A v \in Units \ {u} : ServesNow'[v] = ServesNow[v]
  PROVE  ServesNow' = [ServesNow EXCEPT ![u] = r]
<1>1. /\ ServesNow = [v \in Units |-> ServesNow[v]]
      /\ ServesNow' = [v \in Units |-> ServesNow'[v]]
  BY DEF ServesNow
<1> QED
  BY <1>1

LEMMA HeldFacts ==
  ASSUME TypeOK, NEW d, NEW u, d \in HeldBy(u)
  PROVE  /\ d \in Deployments /\ deployment[d] \in DeploymentRows
         /\ deployment[d].unit = u /\ deployment[d].request \in Requests
         /\ deployment[d].request # "nobody"
BY Inserted, DeploymentRowFacts, DispatchAssumption
DEF HeldBy, ActiveDeployment, DeploymentStatus, DispatchAssumption

\* The instance carries its own copy of Cardinality.
LEMMA PoolCardinality ==
  ASSUME NEW S
  PROVE  Pool!Cardinality(S) = Cardinality(S)
BY DEF Cardinality, Pool!Cardinality

\* The units that serve a request, counted by the deployments that hold them.
LEMMA ServingIsActive ==
  ASSUME TypeOK, ServeInv, NEW r \in Requests
  PROVE  /\ Pool!Serving(r) = {deployment[d].unit : d \in ActiveOf(r)}
         /\ Cardinality(Pool!Serving(r)) = Active(r)
         /\ \A d, e \in ActiveOf(r) : deployment[d].unit = deployment[e].unit => d = e
<1> DEFINE f == [d \in ActiveOf(r) |-> deployment[d].unit]
           S == {u \in Units : ServesNow[u] = r}
<1>1. \A d \in ActiveOf(r) : /\ deployment[d].unit \in Units
                             /\ d \in HeldBy(deployment[d].unit)
                             /\ deployment[d].request = r
  BY Inserted, DeploymentRowFacts DEF ActiveOf, HeldBy, ActiveDeployment, DeploymentStatus
<1>2. \A u \in Units : \A d \in HeldBy(u) : d \in ActiveOf(deployment[d].request)
  BY DEF ActiveOf, HeldBy
<1>3. \A d, e \in ActiveOf(r) : deployment[d].unit = deployment[e].unit => d = e
  BY <1>1, ServesWhom
<1>4. \A d \in ActiveOf(r) : deployment[d].unit \in S
  BY <1>1, ServesWhom
<1>5. \A u \in S : \E d \in ActiveOf(r) : deployment[d].unit = u
  <2> TAKE u \in S
  <2>1. r # "nobody"
    BY DispatchAssumption DEF DispatchAssumption
  <2>2. PICK d : d \in HeldBy(u)
    BY <2>1, ServesWhom
  <2>3. ServesNow[u] = deployment[d].request /\ deployment[d].unit = u
    BY <2>2, ServesWhom, HeldFacts
  <2> QED
    BY <1>2, <2>2, <2>3
<1>6. f \in Bijection(ActiveOf(r), S)
  <2>1. f \in [ActiveOf(r) -> S]
    BY <1>4
  <2>2. IsInjective(f)
    BY <1>3 DEF IsInjective
  <2>3. \A u \in S : \E d \in ActiveOf(r) : f[d] = u
    BY <1>5
  <2> QED
    BY <2>1, <2>2, <2>3 DEF Bijection, Injection, Surjection
<1>7. Cardinality(S) = Cardinality(ActiveOf(r))
  <2>1. IsFiniteSet(ActiveOf(r))
    BY FS_Subset, DispatchAssumption DEF DispatchAssumption, ActiveOf
  <2>2. ExistsBijection(ActiveOf(r), S)
    BY <1>6 DEF ExistsBijection
  <2> QED
    BY <2>1, <2>2, FS_Bijection
<1>8. Pool!Serving(r) = S
  BY DEF Pool!Serving, ServesNow
<1> QED
  BY <1>3, <1>4, <1>5, <1>7, <1>8 DEF Active

\* One named step for each kind of change of the three variables.
LEMMA PoolSame ==
  ASSUME Asked' = Asked, Taking' = Taking, ServesNow' = ServesNow
  PROVE  UNCHANGED Pool!pool
BY DEF Pool!pool, Asked, Taking, ServesNow

LEMMA PoolOpen ==
  ASSUME NEW r \in Requests, NEW n \in Quantities, Asked[r] = 0,
         Asked' = [Asked EXCEPT ![r] = n], Taking' = Taking \cup {r}, ServesNow' = ServesNow
  PROVE  Pool!Next
<1>1. Pool!Open(r)
  BY DEF Pool!Open, Asked, Taking, ServesNow
<1> QED
  BY <1>1 DEF Pool!Next

LEMMA PoolTake ==
  ASSUME NEW r \in Requests, NEW u \in Units, r \in Taking,
         ServesNow[u] = "nobody", ServesNow' = [ServesNow EXCEPT ![u] = r],
         Taking' = IF Cardinality(Pool!Serving(r)) + 1 < Asked[r] THEN Taking ELSE Taking \ {r},
         Asked' = Asked
  PROVE  Pool!Next
<1>1. Pool!Take(r, u)
  BY PoolCardinality DEF Pool!Take, Pool!Nobody, Asked, Taking, ServesNow
<1> QED
  BY <1>1 DEF Pool!Next

LEMMA PoolLeave ==
  ASSUME NEW r \in Requests, NEW u \in Units,
         ServesNow[u] = r, ServesNow' = [ServesNow EXCEPT ![u] = "nobody"],
         Taking' = IF Pool!Serving(r) = {u} THEN Taking \ {r} ELSE Taking,
         Asked' = Asked
  PROVE  Pool!Next
<1>1. Pool!Leave(r, u)
  BY DEF Pool!Leave, Pool!Nobody, Asked, Taking, ServesNow
<1> QED
  BY <1>1 DEF Pool!Next

\* The request rows of the pool change only with a request's status.
LEMMA AskedSame ==
  ASSUME NEW r, NEW from, NEW to, RequestMoves(r, from, to),
         from \notin {"none", "requested"}, to \notin {"none", "requested"}
  PROVE  Asked' = Asked
BY DEF Asked, RequestMoves

LEMMA TakeStep ==
  ASSUME TypeOK, ServeInv,
         NEW r \in Requests, NEW u \in Units, NEW d \in Deployments, Allocates(r, u, d)
  PROVE  Pool!Next
<1>1. /\ request[r].status \in Allocatable
      /\ RequestMoves(r, request[r].status, AllocationStatus(r))
      /\ HeldBy(u) = {} /\ deployment[d] = NoDeployment
      /\ deployment'[d].status = "assigned"
      /\ deployment'[d].request = r /\ deployment'[d].unit = u
      /\ \A e \in Deployments \ {d} : deployment'[e] = deployment[e]
  BY DEF Allocates
<1>2. Asked' = Asked
  <2>1. /\ request[r].status \notin {"none", "requested"}
        /\ AllocationStatus(r) \notin {"none", "requested"}
    BY <1>1 DEF Allocatable, AllocationStatus
  <2> QED
    BY <1>1, <2>1, AskedSame
<1>3. Asked[r] = request[r].quantity /\ request[r].quantity \in Nat
  BY <1>1, RequestRowFacts DEF Asked, Allocatable, RequestMoves
<1>4. Cardinality(Pool!Serving(r)) = Cardinality(ActiveOf(r))
      /\ Cardinality(ActiveOf(r)) \in Nat
  BY ServingIsActive, CountsAreNumbers DEF Active
<1>5. Taking' = IF Cardinality(Pool!Serving(r)) + 1 < Asked[r] THEN Taking ELSE Taking \ {r}
  <2>1. request'[r].status \in Allocatable <=> Cardinality(ActiveOf(r)) + 1 < request[r].quantity
    BY <1>1, <1>3, <1>4 DEF RequestMoves, AllocationStatus, Allocatable
  <2>2. Taking' = IF request'[r].status \in Allocatable THEN Taking ELSE Taking \ {r}
    BY <1>1 DEF Taking, RequestMoves
  <2> QED
    BY <1>3, <1>4, <2>1, <2>2
<1>6. HeldBy(u)' = {d}
  BY <1>1 DEF HeldBy, ActiveDeployment
<1>7. ServesNow'[u] = r
  <2>1. (CHOOSE e \in {d} : TRUE) = d
    OBVIOUS
  <2> QED
    BY <1>1, <1>6, <2>1 DEF ServesNow
<1>8. \A v \in Units \ {u} : ServesNow'[v] = ServesNow[v]
  <2> TAKE v \in Units \ {u}
  <2>1. HeldBy(v)' = HeldBy(v) /\ d \notin HeldBy(v)
    BY <1>1 DEF HeldBy, NoDeployment, ActiveDeployment
  <2>2. \A e \in HeldBy(v) : deployment'[e].request = deployment[e].request
    BY <1>1, <2>1 DEF HeldBy
  <2> QED
    BY <2>1, <2>2, ServesSame
<1>9. ServesNow[u] = "nobody"
  BY <1>1, ServesWhom
<1>10. ServesNow' = [ServesNow EXCEPT ![u] = r]
  BY <1>7, <1>8, ServesChange
<1>11. r \in Taking
  BY <1>1 DEF Taking
<1> QED
  BY <1>2, <1>5, <1>9, <1>10, <1>11, PoolTake

LEMMA LeaveStep ==
  ASSUME TypeOK, ServeInv, CountsInv,
         NEW d \in Deployments, NEW from, NEW to, Ends(d, from, to)
  PROVE  Pool!Next
<1>1. PICK r \in Requests, u \in Units :
        /\ r = deployment[d].request /\ u = deployment[d].unit
        /\ d \in ActiveOf(r) /\ d \in HeldBy(u)
  BY LeavesActive, DeploymentRowFacts DEF Ends, DeploymentMoves, ActiveOf, HeldBy
<1>2. /\ deployment'[d].status \notin ActiveDeployment
      /\ \A e \in Deployments \ {d} : deployment'[e] = deployment[e]
  BY LeavesActive DEF Ends, DeploymentMoves
<1>3. HeldBy(u) = {d} /\ ServesNow[u] = r
  BY <1>1, ServesWhom
<1>4. HeldBy(u)' = {}
  BY <1>2, <1>3 DEF HeldBy
<1>5. ServesNow'[u] = "nobody"
  BY <1>4 DEF ServesNow
<1>6. \A v \in Units \ {u} : ServesNow'[v] = ServesNow[v]
  <2> TAKE v \in Units \ {u}
  <2>1. HeldBy(v)' = HeldBy(v) /\ d \notin HeldBy(v)
    BY <1>1, <1>2 DEF HeldBy
  <2>2. \A e \in HeldBy(v) : deployment'[e].request = deployment[e].request
    BY <1>2, <2>1 DEF HeldBy
  <2> QED
    BY <2>1, <2>2, ServesSame
<1>7. ServesNow' = [ServesNow EXCEPT ![u] = "nobody"]
  BY <1>5, <1>6, ServesChange
<1>8. Pool!Serving(r) = {u} <=> ActiveOf(r) \subseteq {d}
  BY <1>1, ServingIsActive
<1>9. request[r].status \in {"allocated", "partially_allocated"}
  BY <1>1, CountsAfterEnd DEF CountsInv, Counts
<1>10. CASE ActiveOf(r) \subseteq {d}
  <2>1. RequestMoves(r, request[r].status, "fulfilled")
    BY <1>1, <1>9, <1>10 DEF Ends
  <2>2. Asked' = Asked
    BY <1>9, <2>1, AskedSame
  <2>3. Taking' = Taking \ {r}
    BY <2>1 DEF Taking, RequestMoves, Allocatable
  <2> QED
    BY <1>3, <1>7, <1>8, <1>10, <2>2, <2>3, PoolLeave
<1>11. CASE ~(ActiveOf(r) \subseteq {d})
  <2>1. UNCHANGED request
    BY <1>1, <1>11 DEF Ends
  <2>2. Asked' = Asked /\ Taking' = Taking
    BY <2>1 DEF Asked, Taking
  <2> QED
    BY <1>3, <1>7, <1>8, <1>11, <2>2, PoolLeave
<1> QED
  BY <1>10, <1>11

LEMMA PoolStep ==
  ASSUME TypeOK, ServeInv, CountsInv, [Next]_vars
  PROVE  [Pool!Next]_(Pool!pool)
<1>1. ASSUME UNCHANGED deployment
      PROVE  ServesNow' = ServesNow
  BY <1>1 DEF ServesNow, HeldBy
<1>2. ASSUME UNCHANGED request
      PROVE  Asked' = Asked /\ Taking' = Taking
  BY <1>2 DEF Asked, Taking
<1>3. CASE UNCHANGED <<request, deployment>>
  BY <1>1, <1>2, <1>3, PoolSame
<1>4. ASSUME NEW r \in Requests, Requested(r)
      PROVE  UNCHANGED Pool!pool
  <2>1. /\ request[r].status = "none" /\ request'[r].status = "requested"
        /\ \A q \in Requests \ {r} : request'[q] = request[q]
    BY <1>4 DEF Requested, NoRequest
  <2>2. Asked' = Asked /\ Taking' = Taking
    BY <2>1 DEF Asked, Taking, Allocatable
  <2> QED
    BY <1>1, <1>4, <2>2, PoolSame DEF Requested
<1>5. ASSUME NEW r \in Requests, Approves(r)
      PROVE  Pool!Next
  <2>1. PICK n \in Quantities : n = request[r].quantity
    BY <1>5, RequestRowFacts DEF Approves, RequestMoves
  <2>2. Asked[r] = 0 /\ Asked' = [Asked EXCEPT ![r] = n]
    BY <1>5, <2>1 DEF Asked, Approves, RequestMoves
  <2>3. Taking' = Taking \cup {r}
    BY <1>5 DEF Taking, Approves, RequestMoves, Allocatable
  <2> QED
    BY <1>1, <1>5, <2>2, <2>3, PoolOpen DEF Approves
<1>6. ASSUME NEW d \in Deployments, NEW from, NEW to, Progresses(d, from, to)
      PROVE  UNCHANGED Pool!pool
  <2>1. \A e \in Deployments :
          /\ deployment'[e].status \in ActiveDeployment
               <=> deployment[e].status \in ActiveDeployment
          /\ deployment'[e].unit = deployment[e].unit
          /\ deployment'[e].request = deployment[e].request
    BY <1>6, LeavesActive DEF Progresses, DeploymentMoves
  <2>2. \A u \in Units : HeldBy(u)' = HeldBy(u)
    BY <2>1 DEF HeldBy
  <2>3. \A u \in Units : \A e \in HeldBy(u) : deployment'[e].request = deployment[e].request
    BY <2>1 DEF HeldBy
  <2>4. \A u \in Units : ServesNow'[u] = ServesNow[u]
    BY <2>2, <2>3, ServesSame
  <2>5. ServesNow' = ServesNow
    BY <2>4 DEF ServesNow
  <2> QED
    BY <1>2, <1>6, <2>5, PoolSame DEF Progresses
<1> QED
  BY <1>3, <1>4, <1>5, <1>6, TakeStep, LeaveStep, StepEffect DEF db, Registers

\* The store implements the pool: with any number of requests in flight a unit
\* serves one request at a time, a request takes no more units than it asked for,
\* and one that was full, or was left by its last unit, never takes another.
THEOREM PoolImplemented == Spec => ImplementsPool
<1>1. Init => Pool!Init
  <2> SUFFICES ASSUME Init PROVE Pool!Init
    OBVIOUS
  <2>1. \A u : HeldBy(u) = {}
    BY DEF Init, Empty, HeldBy, NoDeployment, ActiveDeployment
  <2>2. \A r \in Requests : request[r].status = "none"
    BY DEF Init, Empty, NoRequest
  <2> QED
    BY <2>1, <2>2 DEF Pool!Init, Pool!Nobody, Allocatable
<1>2. TypeOK /\ ServeInv /\ CountsInv /\ [Next]_vars => [Pool!Next]_(Pool!pool)
  BY PoolStep
<1> QED
  BY <1>1, <1>2, TypeCorrect, ServesOnceAlways, CountsAlways, PTL
  DEF Spec, ImplementsPool, Pool!Spec
================================================================================
