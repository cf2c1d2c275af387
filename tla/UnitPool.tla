-------------------------------- MODULE UnitPool --------------------------------
(***************************************************************************)
(* What the dispatch store promises about field units, with no deployment, *)
(* no version and no caller: a unit serves one request at a time, and only *)
(* a request that still takes units.  A request takes units until it has   *)
(* all it asked for, or until the last unit that serves it leaves; from    *)
(* then on it never takes another.                                         *)
(***************************************************************************)
EXTENDS Integers, FiniteSets

CONSTANTS Units, Requests, Quantities

VARIABLES
  quantity,   \* units a request asks for, 0 until it is approved
  taking,     \* requests that still take units
  serves      \* the request that each unit serves, or Nobody

pool == <<quantity, taking, serves>>

Nobody == "nobody"

Serving(r) == {u \in Units : serves[u] = r}

Init ==
  /\ quantity = [r \in Requests |-> 0]
  /\ taking = {}
  /\ serves = [u \in Units |-> Nobody]

Open(r) ==
  /\ quantity[r] = 0
  /\ \E n \in Quantities : quantity' = [quantity EXCEPT ![r] = n]
  /\ taking' = taking \cup {r}
  /\ UNCHANGED serves

Take(r, u) ==
  /\ r \in taking
  /\ serves[u] = Nobody
  /\ serves' = [serves EXCEPT ![u] = r]
  /\ taking' = IF Cardinality(Serving(r)) + 1 < quantity[r] THEN taking ELSE taking \ {r}
  /\ UNCHANGED quantity

Leave(r, u) ==
  /\ serves[u] = r
  /\ serves' = [serves EXCEPT ![u] = Nobody]
  /\ taking' = IF Serving(r) = {u} THEN taking \ {r} ELSE taking
  /\ UNCHANGED quantity

Next ==
  \/ \E r \in Requests : Open(r)
  \/ \E r \in Requests, u \in Units : Take(r, u) \/ Leave(r, u)

Spec == Init /\ [][Next]_pool
================================================================================
