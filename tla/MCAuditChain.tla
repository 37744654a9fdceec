----------------------------- MODULE MCAuditChain -----------------------------
(* AuditChain with interchangeable writers.                                  *)
EXTENDS AuditChain, TLC

Symmetry == Permutations(Writers)
===============================================================================
