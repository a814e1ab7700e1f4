---------------------------- MODULE MCGhostSession ----------------------------
(* One handoff and its resume, with an operation of the agent before or      *)
(* during them and room for duplicates after them.                           *)
EXTENDS GhostSession
=============================================================================
