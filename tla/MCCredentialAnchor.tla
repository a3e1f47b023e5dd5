-------------------------- MODULE MCCredentialAnchor --------------------------
(* Finite instances of CredentialAnchor for TLC. *)
EXTENDS CredentialAnchor, TLC

Symmetric == Permutations(Requests) \cup Permutations(Workers) \cup Permutations(Calls)
=============================================================================
