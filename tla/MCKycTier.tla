------------------------------ MODULE MCKycTier ------------------------------
(* KycTier on small sets of accounts, national IDs, artefacts and requests. *)
EXTENDS KycTier, TLC

\* Ids and request slots are interchangeable.
Symmetry == Permutations(Accounts) \cup Permutations(NationalIds)
                \cup Permutations(Artefacts) \cup Permutations(Requests)
=============================================================================
