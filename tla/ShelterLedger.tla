----------------------------- MODULE ShelterLedger -----------------------------
(***************************************************************************)
(* What the evacuation store promises about shelters, with no counter, no  *)
(* plan and no request: an owner takes a block of beds in one shelter, all *)
(* of them at once and only if that many are free, and later either gives  *)
(* the whole block back or uses it up for good.  An owner takes beds once. *)
(***************************************************************************)
EXTENDS Integers, FiniteSets

CONSTANTS Owners, Shelters, Capacities, Blocks

VARIABLES
  capacity,   \* beds of each shelter, 0 until it opens
  claim       \* what each owner took, NoClaim before that

ledger == <<capacity, claim>>

NoClaim == [status |-> "none"]

\* The beds taken in a shelter, one by one, by the owners that hold or used them.
Holders(s) ==
  {o \in Owners : /\ claim[o].status \in {"active", "consumed"}
                  /\ claim[o].shelter = s}
Beds(s) == UNION {{o} \X (1 .. claim[o].people) : o \in Holders(s)}

Init ==
  /\ capacity = [s \in Shelters |-> 0]
  /\ claim = [o \in Owners |-> NoClaim]

Open(s) ==
  /\ capacity[s] = 0
  /\ \E n \in Capacities : capacity' = [capacity EXCEPT ![s] = n]
  /\ UNCHANGED claim

Take(o, s, n) ==
  /\ claim[o] = NoClaim
  /\ Cardinality(Beds(s)) + n <= capacity[s]
  /\ claim' = [claim EXCEPT ![o] = [status |-> "active", shelter |-> s, people |-> n]]
  /\ UNCHANGED capacity

Resolve(o, outcome) ==
  /\ claim[o].status = "active"
  /\ claim' = [claim EXCEPT ![o].status = outcome]
  /\ UNCHANGED capacity

GiveBack(o) == Resolve(o, "released")
UseUp(o) == Resolve(o, "consumed")

Next ==
  \/ \E s \in Shelters : Open(s)
  \/ \E o \in Owners, s \in Shelters, n \in Blocks : Take(o, s, n)
  \/ \E o \in Owners : GiveBack(o) \/ UseUp(o)

Spec == Init /\ [][Next]_ledger
================================================================================
