------------------------------ MODULE MCObservations ---------------------------
(***************************************************************************)
(* Two gateways, a commander's and an operator's of the northern region,   *)
(* with batches that overlap: the same number with the same data, with     *)
(* another quality or with other data, twice in one batch, of a sensor of  *)
(* another region, and of a time that is still ahead.                      *)
(***************************************************************************)
EXTENDS Observations, TLC

CONSTANTS c1, o1, north, east, s1, s2, s3, rain, flood, verified, provisional

MCRoleOf == (c1 :> "commander" @@ o1 :> "field_operator")
MCRegionOf == (c1 :> "" @@ o1 :> north @@ s1 :> north @@ s2 :> north @@ s3 :> east)
MCCodes == (north :> "N" @@ east :> "N" @@ s1 :> "A" @@ s2 :> "B" @@ s3 :> "A")

Sends(s, b, q) == [sensor |-> s, number |-> 1, body |-> b, quality |-> q]
MCBatches ==
  {<<Sends(s1, rain, verified), Sends(s2, rain, verified)>>,
   <<Sends(s3, rain, verified), Sends(s1, rain, provisional)>>,
   <<Sends(s1, rain, verified), Sends(s1, flood, verified)>>}
================================================================================
