----------------------------- MODULE MCEvidence -----------------------------
(* Identifiers that no operator orders are interchangeable.                *)
EXTENDS Evidence, TLC

Symmetry == Permutations(Accounts) \cup Permutations(Licences) \cup Permutations(Bikes) \cup Permutations(Pins)
            \cup Permutations(Ids) \cup Permutations(Requests)
=============================================================================
