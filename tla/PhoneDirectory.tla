--------------------------- MODULE PhoneDirectory ---------------------------
(***************************************************************************)
(* What the rail promises about who owns which number: a number belongs to *)
(* at most one account, and a registered account moves to a number only if *)
(* that very move was authorised.                                          *)
(***************************************************************************)
CONSTANTS Accounts, Phones, NoPhone

VARIABLES phone,        \* the number each account is bound to
          authorised    \* the moves <<account, number>> that were authorised

directoryVars == <<phone, authorised>>

Free(p) == \A a \in Accounts : phone[a] # p

Init == /\ phone = [a \in Accounts |-> NoPhone]
        /\ authorised = {}

Register(a, p) == /\ phone[a] = NoPhone
                  /\ Free(p)
                  /\ phone' = [phone EXCEPT ![a] = p]
                  /\ UNCHANGED authorised

Authorise(a, p) == /\ authorised' = authorised \cup {<<a, p>>}
                   /\ UNCHANGED phone

Move(a, p) == /\ phone[a] # NoPhone
              /\ <<a, p>> \in authorised
              /\ Free(p)
              /\ phone' = [phone EXCEPT ![a] = p]
              /\ UNCHANGED authorised

Next == \E a \in Accounts, p \in Phones :
            Register(a, p) \/ Authorise(a, p) \/ Move(a, p)

Spec == Init /\ [][Next]_directoryVars
=============================================================================
