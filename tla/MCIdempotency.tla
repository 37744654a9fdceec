---------------------------- MODULE MCIdempotency ----------------------------
(* Idempotency with interchangeable keys, bodies and requests.              *)
EXTENDS Idempotency, TLC

Symmetry == Permutations(Keys) \cup Permutations(Bodies) \cup Permutations(Requests)
==============================================================================
