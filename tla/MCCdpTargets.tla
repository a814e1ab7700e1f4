----------------------------- MODULE MCCdpTargets -----------------------------
(* A CDP server with a few connections and commands at a time. *)
EXTENDS CdpTargets, TLC

Callers == Conns \cup Tasks

Symmetric == Permutations(Sessions) \cup Permutations(Conns) \cup Permutations(Tasks)
=============================================================================
