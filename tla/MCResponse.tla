------------------------------ MODULE MCResponse ------------------------------
(***************************************************************************)
(* One incident, one plan and one resource request for it, and one request *)
(* in flight in each service.                                              *)
(***************************************************************************)
EXTENDS Response, TLC

CONSTANTS h1, e1, x1, chief, i1, s1, p1, u1, r1, d1, rescue

MCRoleOf == [x \in {h1, e1, chief} |-> "commander"]
MCRegionOf == [x \in {h1, e1, chief, i1, s1, u1} |-> "north"]
MCRefOf == [i \in {i1} |-> [name |-> "quake", padded |-> FALSE]]
MCSkillsOf == [u \in {u1} |-> {rescue}]
MCOperatorOf == [u \in {u1} |-> "none"]
================================================================================
