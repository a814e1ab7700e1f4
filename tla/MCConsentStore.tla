---------------------------- MODULE MCConsentStore ----------------------------
(* Two grants of the same subject: the older covers two actions, the newer   *)
(* one of them, so that a request can fall back from the newer to the older. *)
EXTENDS ConsentStore, TLC

MCCovers == (1 :> {"login", "mfa"}) @@ (2 :> {"login"})

Symmetric == Permutations(Procs)
=============================================================================
