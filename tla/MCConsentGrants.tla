-------------------------- MODULE MCConsentGrants --------------------------
(* Keys, ids and handlers are interchangeable.                             *)
EXTENDS ConsentGrants, TLC

Symmetry == Permutations(Keys) \cup Permutations(Grants) \cup Permutations(Callers)
=============================================================================
