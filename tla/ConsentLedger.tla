----------------------------- MODULE ConsentLedger -----------------------------
(***************************************************************************)
(* What a store of use grants promises: a grant authorizes at most its     *)
(* budget of uses, and none after it has been revoked.  The promise holds  *)
(* while the store is trusted, that is, as long as its callers have come   *)
(* one at a time and none of them has failed; afterwards it promises       *)
(* nothing.                                                                *)
(***************************************************************************)
EXTENDS Naturals

CONSTANTS Grants, MaxUses

VARIABLES allowed,   \* how often each grant has authorized a use
          revoked,   \* the grants whose revocation has been acknowledged
          trusted    \* whether the promise still holds

vars == <<allowed, revoked, trusted>>

Init == allowed = [g \in Grants |-> 0] /\ revoked = {} /\ trusted = TRUE

Use(g) ==
    /\ g \notin revoked
    /\ allowed[g] < MaxUses
    /\ allowed' = [allowed EXCEPT ![g] = @ + 1]
    /\ UNCHANGED revoked

Revoke(gs) == revoked' = revoked \cup gs /\ UNCHANGED allowed

\* From here on allowed and revoked may be anything.
Disturb == trusted' = FALSE

Next ==
    \/ /\ (\E g \in Grants : Use(g)) \/ (\E gs \in SUBSET Grants : Revoke(gs))
       /\ UNCHANGED trusted
    \/ Disturb

Spec == Init /\ [][Next]_vars
=============================================================================
