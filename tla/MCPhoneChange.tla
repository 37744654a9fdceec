---------------------------- MODULE MCPhoneChange ----------------------------
(* PhoneChange on small sets of accounts, numbers, changes and requests.   *)
EXTENDS PhoneChange, TLC

\* Accounts, numbers, changes and slots are interchangeable.
Symmetry == Permutations(Accounts) \cup Permutations(Phones)
                \cup Permutations(Changes) \cup Permutations(Requests)
=============================================================================
