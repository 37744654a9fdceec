------------------------- MODULE MCOperatorSession -------------------------
(* Ids and request slots are interchangeable.                              *)
EXTENDS OperatorSession, TLC

Symmetry == Permutations(Users) \cup Permutations(Emails) \cup Permutations(Keys)
                \cup Permutations(Challenges) \cup Permutations(Requests)
=============================================================================
