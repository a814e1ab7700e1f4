---------------------------- MODULE MCLoginSurface ----------------------------
(* Two windows after each other or, when their begins race, at once. *)
EXTENDS LoginSurface, TLC

Symmetric == Permutations(Logins) \cup Permutations(Contexts) \cup Permutations(Calls)
=============================================================================
