-------------------------- MODULE MCCredentialBroker --------------------------
(* The credential is good for two origins, one of which a deny rule names. *)
EXTENDS CredentialBroker, TLC

Symmetric == Permutations(Cards) \cup Permutations(Calls)
=============================================================================
