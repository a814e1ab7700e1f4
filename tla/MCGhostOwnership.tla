--------------------------- MODULE MCGhostOwnership ---------------------------
(* Two handoffs, two tabs: the second handoff can interrupt the refresh that *)
(* follows the first, with one tab observed and the other not.               *)
EXTENDS GhostOwnership
=============================================================================
