------------------------------ MODULE MCDispatch ------------------------------
(***************************************************************************)
(* Two requests in flight: two resource requests compete for two units and *)
(* each needs both.  There is one deployment more than units, so that a    *)
(* unit serves again.  An operator to whom both belong moves deployments   *)
(* as well as the commander.                                               *)
(***************************************************************************)
EXTENDS Dispatch, TLC

CONSTANTS c1, c2, chief, crew, i1, u1, u2, r1, r2, d1, d2, d3, rescue

MCClients == {c1, c2}
MCUnits == {u1, u2}
MCRequests == {r1, r2}
MCDeployments == {d1, d2, d3}
MCRoleOf == (chief :> "commander" @@ crew :> "field_operator")
MCRegionOf == [x \in {chief, crew, i1} \cup MCUnits |-> IF x = chief THEN "" ELSE "north"]
MCSkillsOf == [u \in MCUnits |-> {rescue}]
MCOperatorOf == [u \in MCUnits |-> crew]

Symmetry ==
  Permutations(MCClients) \cup Permutations(MCUnits)
    \cup Permutations(MCRequests) \cup Permutations(MCDeployments)
================================================================================
