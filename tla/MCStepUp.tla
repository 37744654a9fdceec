------------------------------ MODULE MCStepUp ------------------------------
(* StepUp on small sets of challenges and requests.                        *)
EXTENDS StepUp, TLC

\* Neither ids nor request slots are told apart by any action or property.
Symmetry == Permutations(Challenges) \cup Permutations(Requests)
=============================================================================
