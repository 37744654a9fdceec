------------------------- MODULE MCAccountLifecycle -------------------------
EXTENDS AccountLifecycle, TLC

\* One account changes its status again and again; any other is only registered.
Changing == CHOOSE a \in Accounts : TRUE

UnevenMoves == [a \in Accounts |-> IF a = Changing THEN 5 ELSE 1]

Symmetry == Permutations(Apps) \cup Permutations(Phones) \cup Permutations(Requests)
=============================================================================
