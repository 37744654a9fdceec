------------------------- MODULE AssuranceRegister -------------------------
(***************************************************************************)
(* What the rail promises about how sure it is of a customer: a national   *)
(* ID vouches for one account and stays with it; a tier is raised without  *)
(* an operator's decision only for an account that has tier-1 evidence;    *)
(* and the past of an account's tier is never rewritten.                   *)
(***************************************************************************)
EXTENDS Sequences

CONSTANTS Accounts, NationalIds, Tiers

VARIABLES claims,       \* <<account, national ID>> vouched for
          backed,       \* accounts with verified tier-1 evidence
          assignments   \* per account, the [tier, why] it has been given

registerVars == <<claims, backed, assignments>>

Unclaimed(n) == \A a \in Accounts : <<a, n>> \notin claims

Assign(a, tier, why) ==
    assignments' = [assignments EXCEPT ![a] = Append(@, [tier |-> tier, why |-> why])]

Init == /\ claims = {}
        /\ backed = {}
        /\ assignments = [a \in Accounts |-> <<[tier |-> "tier_0", why |-> "default"]>>]

Identify(a, n) == /\ Unclaimed(n)
                  /\ claims' = claims \cup {<<a, n>>}
                  /\ backed' = backed \cup {a}
                  /\ UNCHANGED assignments

Accept(a) == /\ backed' = backed \cup {a}
             /\ UNCHANGED <<claims, assignments>>

Promote(a) == /\ a \in backed
              /\ Assign(a, "tier_1", "promotion")
              /\ UNCHANGED <<claims, backed>>

Override(a) == /\ \E t \in Tiers : Assign(a, t, "override")
               /\ UNCHANGED <<claims, backed>>

Next == \E a \in Accounts :
            \/ \E n \in NationalIds : Identify(a, n)
            \/ Accept(a) \/ Promote(a) \/ Override(a)

Spec == Init /\ [][Next]_registerVars
=============================================================================
