----------------------------- MODULE MCAgentWorld -----------------------------
(* A task of two model replies: two commands, two dialogs. *)
EXTENDS AgentWorld, TLC
=============================================================================
