---------------------------- MODULE MCPageSession ----------------------------
(* Two remote pages and a local one. *)
EXTENDS PageSession, TLC

Symmetric == Permutations(Urls \ Local)
=============================================================================
