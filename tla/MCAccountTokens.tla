-------------------------- MODULE MCAccountTokens --------------------------
(* Accounts, numbers, jtis and request slots are interchangeable; reasons  *)
(* and handlers are too, but are too few to gain by it.                    *)
EXTENDS AccountTokens, TLC

Symmetry == Permutations(Accounts) \cup Permutations(Phones)
                \cup Permutations(Jtis) \cup Permutations(Requests)
=============================================================================
