------------------------------ MODULE MCSessions ------------------------------
(***************************************************************************)
(* Two sessions used by two requests at a time, over a clock long enough   *)
(* for a session to be touched twice and to expire.                        *)
(***************************************************************************)
EXTENDS Sessions, TLC

CONSTANTS c1, c2, s1, s2

Symmetry == Permutations({c1, c2}) \cup Permutations({s1, s2})
================================================================================
