----------------------------- MODULE MCEvacuation -----------------------------
(***************************************************************************)
(* Two commanders, two plans that compete for the beds of one shelter.     *)
(***************************************************************************)
EXTENDS Evacuation, TLC

CONSTANTS c1, c2, i1, p1, p2, s1

MCClients == {c1, c2}
MCIncidents == {i1}
MCPlans == {p1, p2}
MCShelters == {s1}
MCRoleOf == [c \in MCClients |-> "commander"]
MCRegionOf == [x \in MCClients \cup MCIncidents \cup MCShelters |->
                 IF x = c1 THEN "" ELSE "north"]
MCCapacities == {2}
MCEvacuees == {1, 2}
MCStepCounts == {2}

Symmetry == Permutations(MCPlans)
================================================================================
