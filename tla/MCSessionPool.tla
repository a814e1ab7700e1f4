----------------------------- MODULE MCSessionPool ----------------------------
(* The pool of a browser with four sessions to give and two concurrent callers. *)
EXTENDS SessionPool, TLC

Symmetric == Permutations(Sessions) \cup Permutations(Openers)
=============================================================================
