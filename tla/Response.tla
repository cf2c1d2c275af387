------------------------------- MODULE Response -------------------------------
(***************************************************************************)
(* The control plane's one database with its three services: incidents,    *)
(* evacuation and dispatch.  A step is a step of one service; the others   *)
(* see it only through the rows that they read: evacuation and dispatch    *)
(* look at the status of incidents, and the closure of an incident counts  *)
(* open plans and active deployments.                                      *)
(***************************************************************************)
EXTENDS Integers, FiniteSets, Lifecycle

CONSTANTS
  HazardClients, EvacuationClients, DispatchClients, Users,
  Incidents, Shelters, Plans, Units, Requests, Deployments,
  RoleOf, RegionOf, RefOf, SkillsOf, OperatorOf,
  Capacities, Evacuees, StepCounts, Skills, Quantities, MaxVersion, MaxLag

VARIABLES
  incident, hazardFrame,
  shelter, plan, done, reservation, evacuationFrame, planLate,
  unit, request, deployment, dispatchFrame, needLate

hazard == <<incident, hazardFrame>>
evacuation == <<shelter, plan, done, reservation, evacuationFrame, planLate>>
dispatch == <<unit, request, deployment, dispatchFrame, needLate>>
vars == <<hazard, evacuation, dispatch>>

\* What CreatePlan and CreateRequest ask of an incident.
Operational == {i \in Incidents : incident[i].status \in OperationalStatus}

\* What CountOpenDependencies counts; a deployment row copies the incident of its
\* resource request.
Busy ==
  {i \in Incidents :
     \/ \E p \in Plans : plan[p].status \in OpenPlanStatus /\ plan[p].incident = i
     \/ \E d \in Deployments :
          /\ deployment[d].status \in ActiveDeployment
          /\ request[deployment[d].request].incident = i}

Hazard ==
  INSTANCE Incidents WITH
    Clients <- HazardClients, frame <- hazardFrame, busy <- Busy
Evacuation ==
  INSTANCE Evacuation WITH
    Clients <- EvacuationClients, frame <- evacuationFrame, late <- planLate,
    operational <- Operational
Dispatch ==
  INSTANCE Dispatch WITH
    Clients <- DispatchClients, frame <- dispatchFrame, late <- needLate,
    operational <- Operational

Init == Hazard!Empty /\ Evacuation!Empty /\ Dispatch!Empty

\* Ending an incident touches no plan and no deployment.
HazardStepCascading(c) ==
  /\ Hazard!Step(c)
  /\ LET ended == {i \in Incidents : incident'[i].status \in {"closed", "cancelled"}}
     IN /\ plan' = [p \in Plans |->
                      IF plan[p].status \in OpenPlanStatus /\ plan[p].incident \in ended
                      THEN [plan[p] EXCEPT !.status = "cancelled"] ELSE plan[p]]
        /\ deployment' = [d \in Deployments |->
                            IF /\ deployment[d].status \in ActiveDeployment
                               /\ request[deployment[d].request].incident \in ended
                            THEN [deployment[d] EXCEPT !.status = "cancelled"]
                            ELSE deployment[d]]
  /\ UNCHANGED <<shelter, done, reservation, evacuationFrame, planLate,
                 unit, request, dispatchFrame, needLate>>
HazardStep(c) == Hazard!Step(c) /\ UNCHANGED <<evacuation, dispatch>>

EvacuationStep(c) ==
  Evacuation!Step(c) /\ UNCHANGED planLate /\ UNCHANGED <<hazard, dispatch>>

DispatchStep(c) ==
  Dispatch!Step(c) /\ UNCHANGED needLate /\ UNCHANGED <<hazard, evacuation>>

TimePasses ==
  \/ UNCHANGED <<hazard, dispatch>> /\ Evacuation!DeadlinePasses
  \/ UNCHANGED <<hazard, evacuation>> /\ Dispatch!NeedTimePasses

Next ==
  \/ \E c \in HazardClients : HazardStep(c)
  \/ \E c \in EvacuationClients : EvacuationStep(c)
  \/ \E c \in DispatchClients : DispatchStep(c)
  \/ TimePasses

Spec == Init /\ [][Next]_vars

-------------------------------------------------------------------------------
(* Properties *)

\* Each service behaves in the whole system as its own module says, so what is
\* shown of a module alone holds of the system: no service writes what another
\* relies on, and incidents move only as evacuation and dispatch assume.
ServicesInContext == Hazard!Spec /\ Evacuation!Spec /\ Dispatch!Spec

\* The conflict "incident_has_active_operations" of service Transition: an
\* incident is not closed while it has open plans or active deployments.
ClosedOnlyWhenQuiet ==
  [][\A i \in Incidents :
       (incident[i].status # "closed" /\ incident'[i].status = "closed") => i \notin Busy]_vars
================================================================================
