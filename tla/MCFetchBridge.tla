----------------------------- MODULE MCFetchBridge -----------------------------
(* Two connections with a session each. *)
EXTENDS FetchBridge, TLC

CONSTANTS s1, s2, c1, c2

MCOwner == (s1 :> c1) @@ (s2 :> c2)

Symmetric == Permutations(Requests) \cup Permutations(Frames)
=============================================================================
