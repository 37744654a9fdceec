-------------------------- MODULE AccountStanding --------------------------
(***************************************************************************)
(* What the parts of the rail that only look at an account rely on: it is  *)
(* not active before it is activated, and from then on it is active or     *)
(* frozen.  Operators freeze only what is active, and thaw at will.        *)
(***************************************************************************)
CONSTANT Accounts

VARIABLE standing     \* of each account

Init == standing = [a \in Accounts |-> "pending"]

Activate(a) == /\ standing[a] # "active"
               /\ standing' = [standing EXCEPT ![a] = "active"]

Freeze(a) == /\ standing[a] = "active"
             /\ standing' = [standing EXCEPT ![a] = "frozen"]

Next == \E a \in Accounts : Activate(a) \/ Freeze(a)

Spec == Init /\ [][Next]_standing
=============================================================================
