------------------------------ MODULE Ownership ------------------------------
(***************************************************************************)
(* What the Ghost supervisor promises, free of how the child process does  *)
(* it: one browser, two parties.  Only the owner starts work, ownership    *)
(* changes hands only between pieces of work, every change of hands opens  *)
(* a new control epoch, and the browser may be withdrawn for good at any   *)
(* moment.                                                                 *)
(***************************************************************************)
EXTENDS Naturals

VARIABLES owner,    \* "agent", "human" or "nobody" once the browser is gone
          epoch,    \* the number of times the browser has changed hands
          working   \* whether the owner has an operation in progress

vars == <<owner, epoch, working>>

Init == owner = "agent" /\ epoch = 0 /\ working = FALSE

Begin == owner # "nobody" /\ ~working /\ working' = TRUE /\ UNCHANGED <<owner, epoch>>

End == working /\ working' = FALSE /\ UNCHANGED <<owner, epoch>>

\* The last piece of work may end in the very step that hands the browser
\* over, but no work is in progress afterwards.
HandOver ==
    /\ \/ owner = "agent" /\ owner' = "human"
       \/ owner = "human" /\ ~working /\ owner' = "agent"
    /\ epoch' = epoch + 1
    /\ working' = FALSE

Withdraw ==
    /\ owner # "nobody"
    /\ owner' = "nobody"
    /\ working' = FALSE
    /\ UNCHANGED epoch

Next == Begin \/ End \/ HandOver \/ Withdraw

Spec == Init /\ [][Next]_vars
=============================================================================
