------------------------------- MODULE MCWorker -------------------------------
(***************************************************************************)
(* Two processes and three jobs, one of them of a kind without a handler;  *)
(* a batch takes two.                                                      *)
(***************************************************************************)
EXTENDS Worker, TLC

CONSTANTS w1, w2, cleanup1, cleanup2, unknown

MCMaxAttempts == (cleanup1 :> 2) @@ (cleanup2 :> 1) @@ (unknown :> 1)
================================================================================
