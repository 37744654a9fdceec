---------------------------- MODULE StepUpLedger ----------------------------
(***************************************************************************)
(* What step-up authentication promises to the operations it protects:     *)
(* each challenge goes through its stages once and in order, and an        *)
(* operation runs at most once per challenge and only after its token was  *)
(* spent.  Nothing here mentions requests, rows or races.                  *)
(***************************************************************************)
EXTENDS Naturals

CONSTANT Challenges

VARIABLES stage,        \* how far each challenge has come
          operations    \* operations performed under it

ledgerVars == <<stage, operations>>

Init == /\ stage = [c \in Challenges |-> "open"]
        /\ operations = [c \in Challenges |-> 0]

Advance(c, from, to) == /\ stage[c] = from
                        /\ stage' = [stage EXCEPT ![c] = to]
                        /\ UNCHANGED operations

ProveFactor(c) == Advance(c, "open", "proved")
IssueToken(c)  == Advance(c, "proved", "issued")
SpendToken(c)  == Advance(c, "issued", "spent")

Operate(c) == /\ stage[c] = "spent"
              /\ operations[c] = 0
              /\ operations' = [operations EXCEPT ![c] = 1]
              /\ UNCHANGED stage

Next == \E c \in Challenges :
            ProveFactor(c) \/ IssueToken(c) \/ SpendToken(c) \/ Operate(c)

Spec == Init /\ [][Next]_ledgerVars
=============================================================================
