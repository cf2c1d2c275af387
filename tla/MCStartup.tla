------------------------------- MODULE MCStartup -------------------------------
(***************************************************************************)
(* Two processes of the current release, one of the release before it and  *)
(* one of a branch with another second migration.  The old one is          *)
(* configured with a user name that may be registered meanwhile, and the   *)
(* branch with no password.                                                *)
(***************************************************************************)
EXTENDS Startup, TLC

CONSTANTS new1, new2, old, branch, admin, chief

MCRelease ==
  (new1 :> <<"core", "operations", "reliability">>)
    @@ (new2 :> <<"core", "operations", "reliability">>)
    @@ (old :> <<"core", "operations">>) @@ (branch :> <<"core", "changed">>)
MCBootstrapAdmin == (new1 :> admin @@ new2 :> admin @@ old :> chief @@ branch :> None)
================================================================================
