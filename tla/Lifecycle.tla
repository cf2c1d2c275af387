------------------------------- MODULE Lifecycle -------------------------------
(***************************************************************************)
(* The status tables of the Go models.  Every service and every store      *)
(* function that changes a status is checked against one of these maps, or *)
(* is supposed to follow it.  A table is the set of the <<from, to>> pairs *)
(* for which CanTransition answers true.                                   *)
(***************************************************************************)

Roles == {"commander", "field_operator", "auditor"}

\* internal/hazard/model.go
IncidentStatus ==
  {"monitoring", "active", "stabilizing", "closed", "cancelled"}

IncidentTransitions ==
  {<<"monitoring", "active">>, <<"monitoring", "cancelled">>,
   <<"active", "stabilizing">>, <<"active", "cancelled">>,
   <<"stabilizing", "active">>, <<"stabilizing", "closed">>}

\* The services open work on an incident only in these two states.
OperationalStatus == {"active", "stabilizing"}

\* internal/evacuation/model.go
PlanStatus ==
  {"draft", "submitted", "approved", "executing", "completed", "cancelled"}

PlanTransitions ==
  {<<"draft", "submitted">>, <<"draft", "cancelled">>,
   <<"submitted", "approved">>, <<"submitted", "cancelled">>,
   <<"approved", "executing">>, <<"approved", "cancelled">>,
   <<"executing", "completed">>, <<"executing", "cancelled">>}

\* What hazard's CountOpenDependencies counts as a plan in progress.
OpenPlanStatus == {"submitted", "approved", "executing"}

\* internal/dispatch/model.go
RequestStatus ==
  {"requested", "approved", "partially_allocated", "allocated", "fulfilled",
   "cancelled"}

RequestTransitions ==
  {<<"requested", "approved">>, <<"requested", "cancelled">>,
   <<"approved", "partially_allocated">>, <<"approved", "allocated">>,
   <<"approved", "cancelled">>, <<"partially_allocated", "allocated">>,
   <<"partially_allocated", "fulfilled">>,
   <<"partially_allocated", "cancelled">>, <<"allocated", "fulfilled">>,
   <<"allocated", "cancelled">>}

DeploymentStatus ==
  {"assigned", "acknowledged", "en_route", "on_scene", "released", "cancelled"}

DeploymentTransitions ==
  {<<"assigned", "acknowledged">>, <<"assigned", "cancelled">>,
   <<"acknowledged", "en_route">>, <<"acknowledged", "cancelled">>,
   <<"en_route", "on_scene">>, <<"en_route", "cancelled">>,
   <<"on_scene", "released">>}

\* The states in which a deployment holds its unit: the partial unique index
\* deployments_active_unit_idx and every count of active deployments.
ActiveDeployment == {"assigned", "acknowledged", "en_route", "on_scene"}
================================================================================
