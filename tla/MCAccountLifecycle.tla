-------------------------- MODULE MCAccountLifecycle --------------------------
(* A serve process with two or more calls in flight and a CLI command beside *)
(* it; or everything in one process.                                         *)
EXTENDS AccountLifecycle, TLC

TwoProcesses == [c \in Calls |-> IF c = 1 THEN "cli" ELSE "serve"]
OneProcess == [c \in Calls |-> "serve"]
=============================================================================
