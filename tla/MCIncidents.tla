----------------------------- MODULE MCIncidents -----------------------------
(***************************************************************************)
(* Incidents of two regions that two commanders move at the same time,     *)
(* while an auditor pages through the list and the audit events.  All bear *)
(* one external reference, written with a space at its end: 1 and 2, which *)
(* are of different regions, and 3, which is of 1's region, so that the    *)
(* activation of either refuses the other.                                 *)
(***************************************************************************)
EXTENDS IncidentRecords, TLC

CONSTANTS c1, c2, r1

MCRoleOf == (c1 :> "commander" @@ c2 :> "commander" @@ r1 :> "auditor")
MCRegionOf == (c1 :> "" @@ c2 :> "north" @@ r1 :> "" @@ 1 :> "north" @@ 2 :> "south" @@ 3 :> "north")
MCRefOf == [i \in Incidents |-> [name |-> "quake", padded |-> TRUE]]

\* Bound: one incident at a time has work open.
OneBusy == Cardinality(busy) <= 1
================================================================================
