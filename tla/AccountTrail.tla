---------------------------- MODULE AccountTrail ----------------------------
(***************************************************************************)
(* What the rail promises about the life of an account: it is registered   *)
(* once, moves only along the legal edges, one at a time, a freeze is      *)
(* lifted by an operator, and no move is announced twice.                  *)
(***************************************************************************)
EXTENDS Naturals, Sequences

CONSTANT Accounts

VARIABLES trail,      \* per account: who made each move, and to which status
          told        \* per account: the moves announced so far

trailVars == <<trail, told>>

Legal == {<<"pending_onboarding", "activate", "active">>,
          <<"pending_onboarding", "reactivate", "active">>,
          <<"active", "suspend", "frozen_aml">>,
          <<"frozen_aml", "reactivate", "active">>}

Init == /\ trail = [a \in Accounts |-> <<>>]
        /\ told = [a \in Accounts |-> {}]

Register(a) == /\ trail[a] = <<>>
               /\ trail' = [trail EXCEPT ![a] = <<[by |-> "create", to |-> "pending_onboarding"]>>]
               /\ UNCHANGED told

Move(a) == \E edge \in Legal :
              /\ trail[a] # <<>>
              /\ trail[a][Len(trail[a])].to = edge[1]
              /\ trail' = [trail EXCEPT ![a] = Append(@, [by |-> edge[2], to |-> edge[3]])]
              /\ UNCHANGED told

Announce(a) == \E i \in DOMAIN trail[a] \ told[a] :
                  /\ told' = [told EXCEPT ![a] = @ \cup {i}]
                  /\ UNCHANGED trail

Next == \E a \in Accounts : Register(a) \/ Move(a) \/ Announce(a)

Spec == Init /\ [][Next]_trailVars
=============================================================================
