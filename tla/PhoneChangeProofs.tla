-------------------------- MODULE PhoneChangeProofs --------------------------
(***************************************************************************)
(* For any number of accounts, numbers, changes and concurrent requests:   *)
(* the safety invariants of PhoneChange, and that it implements            *)
(* PhoneDirectory.                                                         *)
(***************************************************************************)
EXTENDS PhoneChange, FiniteSetTheorems, TLAPS

\* recordAttempt keeps the row a row, never changes what it is for, and writes
\* nothing but to a pending row.
LEMMA RecordAttemptFacts ==
    ASSUME NEW row \in Row, NEW status \in Statuses, NEW increment \in BOOLEAN
    PROVE  /\ RecordAttempt(row, status, increment) \in Row
           /\ RecordAttempt(row, status, increment).kind = row.kind
           /\ row.status # "pending" => RecordAttempt(row, status, increment) = row
           /\ row.status = "pending" => RecordAttempt(row, status, increment).status = status
           /\ RecordAttempt(row, status, increment).attempts \in {row.attempts, row.attempts + 1}
<1>. DEFINE n == IF increment THEN row.attempts + 1 ELSE row.attempts
            new == [row EXCEPT !.status = status, !.attempts = n]
<1>1. row.attempts \in Nat /\ n \in Nat /\ n \in {row.attempts, row.attempts + 1}
  BY DEF Row
<1>2. row.status # "pending" => RecordAttempt(row, status, increment) = row
  BY DEF RecordAttempt
<1>3. row.status = "pending" => RecordAttempt(row, status, increment) = new
  BY DEF RecordAttempt
<1>. HIDE DEF n
<1>4. /\ new \in Row /\ new.kind = row.kind
      /\ new.status = status /\ new.attempts = n
  BY <1>1 DEF Row
<1>. QED
  BY <1>1, <1>2, <1>3, <1>4

\* The same for the write that follows a wrong response.
LEMMA AfterWrongFacts ==
    ASSUME NEW row \in Row, NEW seen \in Nat
    PROVE  /\ AfterWrong(row, seen) \in Row
           /\ AfterWrong(row, seen).kind = row.kind
           /\ row.status # "pending" => AfterWrong(row, seen) = row
           /\ row.status = "pending" => AfterWrong(row, seen).status \in {"pending", "failed"}
           /\ AfterWrong(row, seen).attempts \in {row.attempts, row.attempts + 1}
<1>. DEFINE status == IF seen + 1 >= MaxOtpAttempts THEN "failed" ELSE "pending"
<1>1. AfterWrong(row, seen) = RecordAttempt(row, status, TRUE)
  BY DEF AfterWrong
<1>2. status \in Statuses /\ status \in {"pending", "failed"}
  BY DEF Statuses
<1>. HIDE DEF status
<1>3. /\ RecordAttempt(row, status, TRUE) \in Row
      /\ RecordAttempt(row, status, TRUE).kind = row.kind
      /\ row.status # "pending" => RecordAttempt(row, status, TRUE) = row
      /\ row.status = "pending" => RecordAttempt(row, status, TRUE).status = status
      /\ RecordAttempt(row, status, TRUE).attempts \in {row.attempts, row.attempts + 1}
  <2>1. status \in Statuses /\ TRUE \in BOOLEAN
    BY <1>2
  <2>. QED
    BY <2>1, RecordAttemptFacts, Zenon
<1>. QED
  BY <1>1, <1>2, <1>3, Zenon

USE DEF At, Active, Terminal, Methods

\* Every variable keeps its type.
LEMMA TypeInit == Init => TypeOK
BY PhoneChangeAssumption DEF Init, TypeOK, Row, NoRow, NoAsk, NoRecord, RequestOK, Statuses, Idle, Busy, Stages

\* The rewritten rows are rows.
LEMMA RowFacts ==
    ASSUME TypeOK, NEW c \in Changes, NEW seen \in Nat
    PROVE  /\ NewRow("phone_change") \in Row
           /\ RecordAttempt(challenge[c], "consumed", TRUE) \in Row
           /\ AfterWrong(challenge[c], seen) \in Row
<1>1. NewRow("phone_change") \in Row
  BY DEF NewRow, Row, Statuses, Kinds, AuthKinds
<1>2. challenge[c] \in Row
  BY DEF TypeOK
<1>3. "consumed" \in Statuses /\ TRUE \in BOOLEAN
  BY DEF Statuses
<1>4. RecordAttempt(challenge[c], "consumed", TRUE) \in Row
  BY <1>2, <1>3, RecordAttemptFacts, Zenon
<1>5. AfterWrong(challenge[c], seen) \in Row
  BY <1>2, AfterWrongFacts, Zenon
<1>. QED
  BY <1>1, <1>4, <1>5

\* A step that moves one handler to a well-formed record.
LEMMA BusyStep ==
    ASSUME RequestOK, NEW r \in Requests, NEW s \in Stages, NEW c \in Changes,
           NEW a \in Accounts, NEW t \in Changes \cup {NoChange}, NEW n \in Nat,
           s = "cancel" => t \in Changes,
           request' = [request EXCEPT ![r] = Busy(s, c, a, t, n)]
    PROVE  RequestOK'
BY DEF RequestOK, Busy

LEMMA GoStep ==
    ASSUME RequestOK, NEW r \in Requests, request[r].stage # "idle",
           NEW s \in Stages \ {"cancel"}, Go(r, s)
    PROVE  RequestOK'
BY DEF RequestOK, Go

LEMMA FinishStep == ASSUME RequestOK, NEW r \in Requests, Finish(r) PROVE RequestOK'
BY DEF RequestOK, Finish, Idle, Busy, Stages

\* Rows of phone_changes stay rows.
LEMMA InsertStep ==
    ASSUME TypeOK, NEW c \in Changes, NEW state \in Active \cup Terminal, Insert(c, state)
    PROVE  change' \in [Changes -> [acct : Accounts \cup {NoAccount}, new : Phones \cup {NoPhone},
                                    state : {"absent"} \cup Active \cup Terminal]]
BY DEF TypeOK, Insert

LEMMA SettleStep ==
    ASSUME TypeOK, NEW c \in Changes,
           \/ change' = [change EXCEPT ![c] = Cancelled(change[c])]
           \/ change' = [change EXCEPT ![c] = Completed(change[c])]
    PROVE  change' \in [Changes -> [acct : Accounts \cup {NoAccount}, new : Phones \cup {NoPhone},
                                    state : {"absent"} \cup Active \cup Terminal]]
<1>. DEFINE R == [acct : Accounts \cup {NoAccount}, new : Phones \cup {NoPhone},
                  state : {"absent"} \cup Active \cup Terminal]
<1>1. change \in [Changes -> R]
  BY DEF TypeOK
<1>2. ASSUME NEW row \in R PROVE Cancelled(row) \in R /\ Completed(row) \in R
  <2>. DEFINE no == [row EXCEPT !.state = "cancelled"]
              yes == [row EXCEPT !.state = "completed"]
  <2>1. no \in R /\ yes \in R
    OBVIOUS
  <2>. HIDE DEF R
  <2>. QED
    BY <2>1 DEF Cancelled, Completed
<1>. HIDE DEF R
<1>3. change' \in [Changes -> R]
  BY <1>1, <1>2
<1>. QED
  BY <1>3 DEF R

LEMMA TypeStep == TypeOK /\ [Next]_vars => TypeOK'
<1>. SUFFICES ASSUME TypeOK, [Next]_vars PROVE TypeOK'
  OBVIOUS
<1>. USE DEF TypeOK
<1>1. ASSUME Surroundings PROVE TypeOK'
  BY <1>1 DEF Surroundings, CreateCustomer, CooldownEnds, Elapse, RequestOK
<1>2. ASSUME NEW r \in Requests, Arrive(r) PROVE TypeOK'
  <2>1. ASSUME NEW c \in Changes, NEW a \in Accounts, NEW p \in Phones, NEW m \in Methods,
               VerifyStepUp(r, c, a, p, m)
        PROVE  TypeOK'
    <3>1. request' = [request EXCEPT ![r] = Busy("lookup", c, a, NoChange, 0)]
      BY <2>1 DEF VerifyStepUp
    <3>2. RequestOK'
      BY <3>1, BusyStep DEF Stages
    <3>. QED
      BY <2>1, <3>2 DEF VerifyStepUp
  <2>2. ASSUME NEW c \in Changes, NEW a \in Accounts, ReadChange(r, c, a) PROVE TypeOK'
    BY <2>2, BusyStep, ZenonT(60) DEF ReadChange, Confirming, Stages
  <2>. QED
    BY <1>2, <2>1, <2>2 DEF Arrive
<1>3. ASSUME NEW r \in Requests, Continue(r) PROVE TypeOK'
  <2>. DEFINE c == request[r].ch
  <2>0. /\ request[r].stage # "idle" /\ c \in Changes /\ request[r].acct \in Accounts
        /\ request[r].seen \in Nat
    <3>1. request[r].stage # "idle"
      BY <1>3 DEF Continue, LookUpPhone, CheckCollision, FindActive, CancelPrior, Create,
                  InsertChange, CheckOtp, RecordWrong, Drop, Consume, SwapPhone, Complete, Publish
    <3>. QED
      BY <3>1 DEF RequestOK
  <2>1. CASE LookUpPhone(r) \/ CheckCollision(r)
    BY <2>0, <2>1, GoStep, FinishStep DEF LookUpPhone, CheckCollision, Stages
  <2>2. CASE FindActive(r)
    <3>1. RequestOK'
      BY <2>0, <2>2, GoStep, BusyStep DEF FindActive, ActiveFor, Stages
    <3>. QED
      BY <2>2, <3>1 DEF FindActive
  <2>3. CASE CancelPrior(r)
    <3>2. RequestOK'
      BY <2>0, <2>3, BusyStep DEF CancelPrior, Stages
    <3>3. request[r].target \in Changes
      BY <2>3 DEF CancelPrior, RequestOK
    <3>. QED
      BY <2>3, <3>2, <3>3, SettleStep DEF CancelPrior
  <2>4. CASE Create(r)
    <3>1. RequestOK'
      BY <2>0, <2>4, GoStep DEF Create, Stages
    <3>2. change' \in [Changes -> [acct : Accounts \cup {NoAccount}, new : Phones \cup {NoPhone},
                                  state : {"absent"} \cup Active \cup Terminal]]
      BY <2>0, <2>4, InsertStep DEF Create
    <3>3. challenge' \in [Changes -> Row]
      BY <2>0, <2>4, RowFacts DEF Create
    <3>. QED
      BY <2>4, <3>1, <3>2, <3>3 DEF Create
  <2>5. CASE InsertChange(r)
    BY <2>0, <2>5, FinishStep, InsertStep DEF InsertChange
  <2>6. CASE CheckOtp(r)
    <3>1. challenge[c].attempts \in Nat
      BY <2>0 DEF Row
    <3>2. RequestOK'
      <4>1. ASSUME Confirming(r, c, request[r].acct, "drop") PROVE RequestOK'
        BY <2>0, <4>1, BusyStep DEF Confirming, Stages
      <4>2. ASSUME request' = [request EXCEPT ![r] = Busy("wrong", c, request[r].acct, NoChange,
                                                          challenge[c].attempts)]
            PROVE  RequestOK'
        BY <2>0, <3>1, <4>2, BusyStep DEF Stages
      <4>3. ASSUME Go(r, "consume") PROVE RequestOK'
        BY <2>0, <4>3, GoStep DEF Stages
      <4>. QED
        BY <2>6, <4>1, <4>2, <4>3 DEF CheckOtp
    <3>. QED
      BY <2>6, <3>2 DEF CheckOtp
  <2>7. CASE RecordWrong(r)
    <3>. DEFINE after == AfterWrong(challenge[c], request[r].seen)
    <3>1. ASSUME Confirming(r, c, request[r].acct, "drop") PROVE RequestOK'
      BY <2>0, <3>1, BusyStep DEF Confirming, Stages
    <3>2. /\ Confirming(r, c, request[r].acct, "drop") \/ Finish(r)
          /\ challenge' = [challenge EXCEPT ![c] = after]
          /\ UNCHANGED <<phone, cooling, asked, change, lapsed, swaps, events, grace, cut>>
      BY <2>7 DEF RecordWrong
    <3>3. RequestOK'
      BY <3>1, <3>2, FinishStep
    <3>4. after \in Row
      BY <2>0, RowFacts
    <3>. HIDE DEF after
    <3>. QED
      BY <2>0, <3>2, <3>3, <3>4
  <2>8. CASE Drop(r)
    BY <2>0, <2>8, FinishStep, SettleStep DEF Drop
  <2>9. CASE Consume(r)
    <3>1. RequestOK'
      BY <2>0, <2>9, GoStep DEF Consume, Stages
    <3>. DEFINE after == RecordAttempt(challenge[c], "consumed", TRUE)
    <3>2. after \in Row
      BY <2>0, RowFacts, Zenon
    <3>3. /\ challenge' = [challenge EXCEPT ![c] = after]
          /\ UNCHANGED <<phone, cooling, asked, change, lapsed, swaps, events, grace, cut>>
      BY <2>9 DEF Consume
    <3>. HIDE DEF after
    <3>. QED
      BY <2>0, <3>1, <3>2, <3>3
  <2>10. CASE SwapPhone(r)
    <3>1. RequestOK'
      BY <2>0, <2>10, GoStep, FinishStep DEF SwapPhone, CutShort, Stages
    <3>2. asked[c].new \in Phones \cup {NoPhone}
      BY <2>0
    <3>3. CASE Taken(asked[c].new, request[r].acct)
      BY <2>10, <3>1, <3>3 DEF SwapPhone, CutShort
    <3>4. CASE ~Taken(asked[c].new, request[r].acct)
      <4>1. /\ phone' = [phone EXCEPT ![request[r].acct] = asked[c].new]
            /\ CoolDown(request[r].acct)
            /\ swaps' = [swaps EXCEPT ![c] = swaps[c] + 1]
            /\ UNCHANGED <<asked, change, challenge, lapsed, events, cut>>
        BY <2>10, <3>4 DEF SwapPhone
      <4>. QED
        BY <2>0, <3>1, <3>2, <4>1 DEF CoolDown
    <3>. QED
      BY <3>3, <3>4
  <2>11. CASE Complete(r)
    <3>1. RequestOK'
      BY <2>0, <2>11, GoStep DEF Complete, Stages
    <3>. QED
      BY <2>0, <2>11, <3>1, SettleStep DEF Complete
  <2>12. CASE Publish(r)
    BY <2>0, <2>12, FinishStep DEF Publish
  <2>. QED
    BY <1>3, <2>1, <2>2, <2>3, <2>4, <2>5, <2>6, <2>7, <2>8, <2>9, <2>10, <2>11, <2>12
       DEF Continue
<1>4. ASSUME NEW r \in Requests, Abort(r) PROVE TypeOK'
  BY <1>4, FinishStep DEF Abort, CutShort
<1>5. CASE UNCHANGED vars
  BY <1>5 DEF vars, RequestOK
<1>. QED
  BY <1>1, <1>2, <1>3, <1>4, <1>5 DEF Next

THEOREM TypeCorrect == Spec => []TypeOK
BY TypeInit, TypeStep, PTL DEF Spec

-----------------------------------------------------------------------------
(* The inductive invariant.  Its heart is Alone: between spending the      *)
(* token and the row becoming visible nobody else works on a change, which *)
(* is what makes method 1 write a number at most once and keeps Create     *)
(* from reopening a challenge that has been answered.                      *)

LEMMA InvInit == Init => IInv
BY TypeInit DEF Init, IInv, PhonesUnique, HandlerInv, HistoryInv, Idle, Busy, NoAsk, NoRecord,
                Asked, OldMethod, NewMethod, InitiateStages, ConfirmStages

\* A handler that stops, or moves on without new obligations, disturbs nobody.
LEMMA FinishInv ==
    ASSUME IInv, NEW r \in Requests, Finish(r),
           UNCHANGED <<asked, change, challenge, swaps>>
    PROVE  HandlerInv'
BY PhoneChangeAssumption DEF IInv, TypeOK, RequestOK, HandlerInv, Finish, Idle, Busy, Alone, Asked,
       OldMethod, NewMethod, InitiateStages, ConfirmStages

LEMMA SurroundingsInv ==
    ASSUME IInv, Surroundings
    PROVE  PhonesUnique' /\ HandlerInv' /\ HistoryInv'
<1>. USE DEF IInv
<1>1. ASSUME NEW a \in Accounts, NEW p \in Phones, CreateCustomer(a, p)
      PROVE  PhonesUnique' /\ HandlerInv' /\ HistoryInv'
  <2>1. PhonesUnique'
    BY <1>1 DEF CreateCustomer, Taken, PhonesUnique, TypeOK
  <2>2. HandlerInv'
    BY <1>1 DEF CreateCustomer, HandlerInv, Alone, Asked, OldMethod, NewMethod
  <2>3. HistoryInv'
    BY <1>1, PhoneChangeAssumption
       DEF CreateCustomer, HistoryInv, TypeOK, Asked, OldMethod, NewMethod
  <2>. QED
    BY <2>1, <2>2, <2>3
<1>2. ASSUME UNCHANGED <<phone, asked, change, challenge, request, swaps, events>>
      PROVE  PhonesUnique' /\ HandlerInv' /\ HistoryInv'
  BY <1>2 DEF PhonesUnique, HandlerInv, HistoryInv, Alone, Asked, OldMethod, NewMethod
<1>. QED
  BY <1>1, <1>2 DEF Surroundings, CooldownEnds, Elapse

LEMMA VerifyInv ==
    ASSUME IInv, NEW r \in Requests, NEW c \in Changes, NEW a \in Accounts, NEW p \in Phones,
           NEW m \in Methods, VerifyStepUp(r, c, a, p, m)
    PROVE  HandlerInv' /\ HistoryInv'
<1>. USE DEF IInv
<1>1. /\ ~Asked(c) /\ phone[a] # NoPhone
      /\ asked' = [asked EXCEPT ![c] = [acct |-> a, new |-> p, method |-> m]]
      /\ request' = [request EXCEPT ![r] = Busy("lookup", c, a, NoChange, 0)]
      /\ UNCHANGED <<phone, change, challenge, swaps, events>>
  BY DEF VerifyStepUp
<1>2. change[c].state = "absent" /\ swaps[c] = 0 /\ events[c] = 0
  BY <1>1 DEF HistoryInv, TypeOK
<1>3. \A q \in Requests : request[q].ch # c
  BY <1>1, PhoneChangeAssumption DEF HandlerInv
<1>4. HandlerInv'
  BY <1>1, <1>2, <1>3 DEF HandlerInv, TypeOK, RequestOK, Busy, Alone, Asked, OldMethod, NewMethod,
                          InitiateStages, ConfirmStages
<1>5. HistoryInv'
  BY <1>1, <1>2 DEF HistoryInv, TypeOK, Asked, OldMethod, NewMethod
<1>. QED
  BY <1>4, <1>5

LEMMA ReadChangeInv ==
    ASSUME IInv, NEW r \in Requests, NEW c \in Changes, NEW a \in Accounts, ReadChange(r, c, a)
    PROVE  HandlerInv'
<1>. USE DEF IInv
<1>1. PICK s \in {"drop", "check"} : request' = [request EXCEPT ![r] = Busy(s, c, a, NoChange, 0)]
  BY DEF ReadChange, Confirming
<1>2. /\ change[c].acct = a /\ change[c].state \in Active
      /\ UNCHANGED <<phone, asked, change, challenge, swaps, events>>
  BY DEF ReadChange
<1>3. Asked(c) /\ asked[c].acct = a /\ NewMethod(c)
  BY <1>2 DEF HistoryInv, TypeOK, Asked, OldMethod, NewMethod
\* A handler that is alone on its change does not work on this one.
<1>4. \A q \in Requests : request[q].ch = c =>
          request[q].stage \notin InitiateStages /\ ~(At(q, "swap") /\ OldMethod(c))
  BY <1>2, <1>3 DEF HandlerInv, OldMethod, NewMethod
<1>. QED
  BY <1>1, <1>2, <1>3, <1>4 DEF HandlerInv, TypeOK, RequestOK, Busy, Alone, Asked, OldMethod,
                                NewMethod, InitiateStages, ConfirmStages

\* Where a handler stands while it is in flight.
LEMMA InFlight ==
    ASSUME IInv, NEW r \in Requests, request[r].stage # "idle"
    PROVE  /\ request[r].ch \in Changes /\ request[r].acct \in Accounts
           /\ Asked(request[r].ch) /\ asked[request[r].ch].acct = request[r].acct
           /\ asked[request[r].ch].new \in Phones
           /\ phone[request[r].acct] # NoPhone
           /\ OldMethod(request[r].ch) \/ NewMethod(request[r].ch)
<1>1. request[r].ch \in Changes /\ request[r].acct \in Accounts
  BY DEF IInv, TypeOK, RequestOK
<1>. QED
  BY <1>1 DEF IInv, TypeOK, HandlerInv, HistoryInv, Asked, OldMethod, NewMethod

\* The lookups of the initiate handler.
LEMMA LookupsInv ==
    ASSUME IInv, NEW r \in Requests, LookUpPhone(r) \/ CheckCollision(r) \/ FindActive(r)
    PROVE  HandlerInv'
<1>. DEFINE c == request[r].ch
<1>. USE DEF IInv
<1>1. /\ request[r].stage \in InitiateStages /\ request[r].stage # "idle"
      /\ UNCHANGED <<asked, change, challenge, swaps>>
  BY DEF LookUpPhone, CheckCollision, FindActive, InitiateStages
<1>2. CASE Finish(r)
  BY <1>1, <1>2, FinishInv
<1>3. ASSUME NEW s \in {"collide", "supersede", "cancel", "create"}, NEW q,
             request' = [request EXCEPT ![r] = q],
             q.stage = s, q.ch = c, q.acct = request[r].acct
      PROVE  HandlerInv'
  BY <1>1, <1>3, InFlight DEF HandlerInv, TypeOK, RequestOK, Alone, Asked, OldMethod,
                              NewMethod, InitiateStages, ConfirmStages
<1>4. ASSUME NEW s \in {"collide", "supersede", "create"}, Go(r, s) PROVE HandlerInv'
  BY <1>3, <1>4, ZenonT(60) DEF Go, TypeOK, RequestOK
<1>5. ASSUME NEW t, request' = [request EXCEPT ![r] = Busy("cancel", c, request[r].acct, t, 0)]
      PROVE  HandlerInv'
  BY <1>3, <1>5 DEF Busy
<1>. QED
  BY <1>2, <1>4, <1>5 DEF LookUpPhone, CheckCollision, FindActive

\* cancel() closes an active row; nobody relies on a row being active.
LEMMA CancelInv ==
    ASSUME IInv, NEW t \in Changes,
           change' = [change EXCEPT ![t] = Cancelled(change[t])],
           UNCHANGED <<phone, asked, challenge, swaps, events>>
    PROVE  /\ HistoryInv'
           /\ \A c \in Changes : change'[c].state = "absent" <=> change[c].state = "absent"
<1>1. \A c \in Changes : /\ change'[c].acct = change[c].acct /\ change'[c].new = change[c].new
                         /\ \/ change'[c].state = change[c].state
                            \/ change[c].state \in Active /\ change'[c].state = "cancelled"
  <2>1. CASE change[t].state \in Active
    <3>1. change' = [change EXCEPT ![t] = [change[t] EXCEPT !.state = "cancelled"]]
      BY <2>1 DEF Cancelled
    <3>. QED
      BY <2>1, <3>1 DEF IInv, TypeOK
  <2>2. CASE change[t].state \notin Active
    BY <2>2 DEF IInv, TypeOK, Cancelled
  <2>. QED
    BY <2>1, <2>2
<1>. QED
  BY <1>1 DEF IInv, HistoryInv, Asked, OldMethod, NewMethod

LEMMA CancelPriorInv ==
    ASSUME IInv, NEW r \in Requests, CancelPrior(r)
    PROVE  HandlerInv' /\ HistoryInv'
<1>. USE DEF IInv
<1>1. /\ At(r, "cancel")
      /\ change' = [change EXCEPT ![request[r].target] = Cancelled(change[request[r].target])]
      /\ request' = [request EXCEPT ![r] = Busy("create", request[r].ch, request[r].acct, NoChange, 0)]
      /\ UNCHANGED <<phone, asked, challenge, swaps, events>>
  BY DEF CancelPrior
<1>2. request[r].target \in Changes
  BY <1>1 DEF TypeOK, RequestOK
<1>3. HistoryInv' /\ \A c \in Changes : change'[c].state = "absent" <=> change[c].state = "absent"
  BY <1>1, <1>2, CancelInv
<1>4. HandlerInv'
  BY <1>1, <1>3, InFlight DEF HandlerInv, TypeOK, RequestOK, Busy, Alone, Asked, OldMethod,
                              NewMethod, InitiateStages, ConfirmStages
<1>. QED
  BY <1>3, <1>4

LEMMA DropInv ==
    ASSUME IInv, NEW r \in Requests, Drop(r)
    PROVE  HandlerInv' /\ HistoryInv'
<1>. USE DEF IInv
<1>1. /\ At(r, "drop") /\ Finish(r)
      /\ change' = [change EXCEPT ![request[r].ch] = Cancelled(change[request[r].ch])]
      /\ UNCHANGED <<phone, asked, challenge, swaps, events>>
  BY DEF Drop
<1>2. request[r].ch \in Changes
  BY <1>1, InFlight
<1>3. HistoryInv' /\ \A c \in Changes : change'[c].state = "absent" <=> change[c].state = "absent"
  BY <1>1, <1>2, CancelInv
<1>4. HandlerInv'
  BY <1>1, <1>3, PhoneChangeAssumption
     DEF HandlerInv, TypeOK, RequestOK, Finish, Idle, Busy, Alone, Asked, OldMethod, NewMethod,
         InitiateStages, ConfirmStages
<1>. QED
  BY <1>3, <1>4

LEMMA CreateInv ==
    ASSUME IInv, NEW r \in Requests, Create(r)
    PROVE  HandlerInv' /\ HistoryInv'
<1>. DEFINE c == request[r].ch
<1>. USE DEF IInv
<1>1. /\ At(r, "create") /\ UNCHANGED <<phone, asked, swaps, events>>
      /\ c \in Changes /\ Asked(c) /\ asked[c].acct = request[r].acct
      /\ change[c].state = "absent" /\ swaps[c] = 0 /\ Alone(r)
  BY InFlight DEF Create, HandlerInv, InitiateStages
<1>2. CASE OldMethod(c)
  <2>1. /\ change' = [change EXCEPT ![c] = [acct |-> asked[c].acct, new |-> asked[c].new,
                                            state |-> "completed"]]
        /\ Go(r, "swap") /\ UNCHANGED challenge
    BY <1>2 DEF Create, Insert, OldMethod
  <2>2. HandlerInv'
    BY <1>1, <1>2, <2>1 DEF HandlerInv, TypeOK, RequestOK, Go, Alone, Asked, OldMethod,
                            NewMethod, InitiateStages, ConfirmStages
  <2>3. HistoryInv'
    BY <1>1, <1>2, <2>1 DEF HistoryInv, TypeOK, Asked, OldMethod, NewMethod
  <2>. QED
    BY <2>2, <2>3
<1>3. CASE NewMethod(c)
  <2>1. /\ challenge' = [challenge EXCEPT ![c] = NewRow("phone_change")]
        /\ Go(r, "insert") /\ UNCHANGED change
    BY <1>3 DEF Create, NewMethod
  <2>2. \A q \in Requests : q # r => request[q].ch # c
    BY <1>1 DEF Alone
  <2>3. HandlerInv'
    BY <1>1, <1>3, <2>1, <2>2 DEF HandlerInv, TypeOK, RequestOK, Go, Alone, Asked, OldMethod,
                                  NewMethod, InitiateStages, ConfirmStages
  <2>4. HistoryInv'
    BY <1>1, <1>3, <2>1 DEF HistoryInv, TypeOK, Asked, OldMethod, NewMethod
  <2>. QED
    BY <2>3, <2>4
<1>. QED
  BY <1>1, <1>2, <1>3, InFlight

LEMMA InsertChangeInv ==
    ASSUME IInv, NEW r \in Requests, InsertChange(r)
    PROVE  HandlerInv' /\ HistoryInv'
<1>. DEFINE c == request[r].ch
<1>. USE DEF IInv
<1>1. /\ At(r, "insert") /\ UNCHANGED <<phone, asked, challenge, swaps, events>>
      /\ c \in Changes /\ Asked(c) /\ NewMethod(c)
      /\ change[c].state = "absent" /\ swaps[c] = 0 /\ Alone(r)
  BY InFlight DEF InsertChange, HandlerInv, InitiateStages
<1>2. /\ change' = [change EXCEPT ![c] = [acct |-> asked[c].acct, new |-> asked[c].new,
                                          state |-> "cooldown_active"]]
      /\ request' = [request EXCEPT ![r] = Idle]
  BY DEF InsertChange, Insert, Finish
<1>3. \A q \in Requests : q # r => request[q].ch # c
  BY <1>1 DEF Alone
<1>4. HandlerInv'
  BY <1>1, <1>2, <1>3, PhoneChangeAssumption
     DEF HandlerInv, TypeOK, RequestOK, Idle, Busy, Alone, Asked, OldMethod, NewMethod,
         InitiateStages, ConfirmStages
<1>5. HistoryInv'
  BY <1>1, <1>2 DEF HistoryInv, TypeOK, Asked, OldMethod, NewMethod
<1>. QED
  BY <1>4, <1>5

LEMMA CheckOtpInv ==
    ASSUME IInv, NEW r \in Requests, CheckOtp(r)
    PROVE  HandlerInv'
<1>. DEFINE c == request[r].ch
<1>. USE DEF IInv
<1>1. /\ At(r, "check") /\ UNCHANGED <<asked, change, challenge, swaps>>
      /\ c \in Changes /\ Asked(c) /\ asked[c].acct = request[r].acct
      /\ NewMethod(c) /\ change[c].state # "absent"
  BY InFlight DEF CheckOtp, HandlerInv, ConfirmStages
<1>2. ASSUME NEW s \in {"drop", "wrong", "consume"}, NEW q,
             request' = [request EXCEPT ![r] = q],
             q.stage = s, q.ch = c, q.acct = request[r].acct,
             s # "drop" => challenge[c].status # "absent"
      PROVE  HandlerInv'
  BY <1>1, <1>2 DEF HandlerInv, TypeOK, RequestOK, Alone, Asked, OldMethod, NewMethod,
                    InitiateStages, ConfirmStages
<1>3. ASSUME Confirming(r, c, request[r].acct, "drop") PROVE HandlerInv'
  BY <1>2, <1>3 DEF Confirming, Busy
<1>4. ASSUME challenge[c].status = "pending",
             request' = [request EXCEPT ![r] = Busy("wrong", c, request[r].acct, NoChange,
                                                    challenge[c].attempts)]
      PROVE  HandlerInv'
  BY <1>2, <1>4 DEF Busy
<1>5. ASSUME challenge[c].status = "pending", Go(r, "consume") PROVE HandlerInv'
  BY <1>2, <1>5, ZenonT(60) DEF Go, TypeOK, RequestOK
<1>. QED
  BY <1>3, <1>4, <1>5 DEF CheckOtp

\* A challenge rewritten by recordAttempt stays present, and closed if it was.
LEMMA RewriteInv ==
    ASSUME IInv, NEW c \in Changes, NEW new \in Row, challenge[c].status # "absent",
           challenge[c].status # "pending" => new = challenge[c],
           challenge' = [challenge EXCEPT ![c] = new],
           UNCHANGED <<phone, asked, change, swaps, events>>
    PROVE  HistoryInv'
BY DEF IInv, HistoryInv, TypeOK, Closed, Asked, OldMethod, NewMethod

LEMMA RecordWrongInv ==
    ASSUME IInv, NEW r \in Requests, RecordWrong(r)
    PROVE  HandlerInv' /\ HistoryInv'
<1>. DEFINE c == request[r].ch
            after == AfterWrong(challenge[c], request[r].seen)
<1>. USE DEF IInv
<1>1. /\ At(r, "wrong") /\ UNCHANGED <<phone, asked, change, swaps, events>>
      /\ c \in Changes /\ Asked(c) /\ asked[c].acct = request[r].acct
      /\ NewMethod(c) /\ change[c].state # "absent" /\ challenge[c].status # "absent"
      /\ challenge' = [challenge EXCEPT ![c] = after]
      /\ Confirming(r, c, request[r].acct, "drop") \/ Finish(r)
  BY InFlight DEF RecordWrong, HandlerInv, ConfirmStages
<1>2. challenge[c] \in Row /\ request[r].seen \in Nat
  BY <1>1 DEF TypeOK, RequestOK
<1>3. /\ after \in Row
      /\ challenge[c].status # "pending" => after = challenge[c]
      /\ challenge[c].status = "pending" => after.status \in {"pending", "failed"}
  BY <1>2, AfterWrongFacts, Zenon
<1>. HIDE DEF after
<1>4. HistoryInv'
  BY <1>1, <1>3, RewriteInv
<1>5. after.status # "absent" /\ (challenge[c].status \in Closed => after.status \in Closed)
  BY <1>1, <1>3 DEF Closed
<1>6. ASSUME NEW q, request' = [request EXCEPT ![r] = q],
             \/ q.stage = "idle" /\ q.ch = NoChange
             \/ q.stage = "drop" /\ q.ch = c /\ q.acct = request[r].acct
      PROVE  HandlerInv'
  BY <1>1, <1>5, <1>6, PhoneChangeAssumption
     DEF HandlerInv, TypeOK, RequestOK, Alone, Asked, OldMethod, NewMethod,
         InitiateStages, ConfirmStages
<1>7. HandlerInv'
  BY <1>1, <1>6 DEF Confirming, Finish, Idle, Busy
<1>. QED
  BY <1>4, <1>7

LEMMA ConsumeInv ==
    ASSUME IInv, NEW r \in Requests, Consume(r)
    PROVE  HandlerInv' /\ HistoryInv'
<1>. DEFINE c == request[r].ch
            after == RecordAttempt(challenge[c], "consumed", TRUE)
<1>. USE DEF IInv
<1>1. /\ At(r, "consume") /\ UNCHANGED <<phone, asked, change, swaps, events>>
      /\ c \in Changes /\ Asked(c) /\ asked[c].acct = request[r].acct
      /\ NewMethod(c) /\ change[c].state # "absent" /\ challenge[c].status # "absent"
      /\ challenge' = [challenge EXCEPT ![c] = after]
      /\ Go(r, "swap")
  BY InFlight DEF Consume, HandlerInv, ConfirmStages
<1>2. challenge[c] \in Row /\ "consumed" \in Statuses /\ TRUE \in BOOLEAN
  BY <1>1 DEF TypeOK, Statuses
<1>3. /\ after \in Row
      /\ challenge[c].status # "pending" => after = challenge[c]
      /\ challenge[c].status = "pending" => after.status = "consumed"
  BY <1>2, RecordAttemptFacts, Zenon
<1>. HIDE DEF after
<1>4. HistoryInv'
  BY <1>1, <1>3, RewriteInv
<1>5. after.status \in Closed
  BY <1>1, <1>2, <1>3 DEF Closed, Row, Statuses
<1>6. HandlerInv'
  BY <1>1, <1>5 DEF HandlerInv, TypeOK, RequestOK, Go, Alone, Asked, OldMethod, NewMethod,
                    Closed, InitiateStages, ConfirmStages
<1>. QED
  BY <1>4, <1>6

LEMMA SwapPhoneInv ==
    ASSUME IInv, NEW r \in Requests, SwapPhone(r)
    PROVE  PhonesUnique' /\ HandlerInv' /\ HistoryInv'
<1>. DEFINE c == request[r].ch
            a == request[r].acct
<1>. USE DEF IInv
<1>1. /\ At(r, "swap") /\ UNCHANGED <<asked, change, challenge, events>>
      /\ c \in Changes /\ a \in Accounts /\ Asked(c) /\ asked[c].acct = a
      /\ asked[c].new \in Phones /\ phone[a] # NoPhone
  BY InFlight DEF SwapPhone
<1>2. CASE Taken(asked[c].new, a)
  <2>1. Finish(r) /\ UNCHANGED <<phone, swaps>>
    BY <1>2 DEF SwapPhone, CutShort
  <2>2. HandlerInv'
    BY <1>1, <2>1, FinishInv
  <2>. QED
    BY <1>1, <2>1, <2>2 DEF PhonesUnique, HistoryInv, Asked, OldMethod, NewMethod
<1>3. CASE ~Taken(asked[c].new, a)
  <2>1. /\ phone' = [phone EXCEPT ![a] = asked[c].new]
        /\ swaps' = [swaps EXCEPT ![c] = swaps[c] + 1]
        /\ Go(r, IF asked[c].method = "otp_to_new_phone" THEN "complete" ELSE "publish")
    BY <1>3 DEF SwapPhone
  <2>2. PhonesUnique'
    BY <1>1, <1>3, <2>1 DEF Taken, PhonesUnique, TypeOK
  <2>3. swaps[c] \in Nat /\ swaps'[c] = swaps[c] + 1 /\ swaps'[c] > 0
    BY <1>1, <2>1 DEF TypeOK
  <2>4. /\ OldMethod(c) => swaps'[c] = 1
        /\ NewMethod(c) => challenge[c].status \in Closed /\ change[c].state # "absent"
    BY <1>1, <2>3 DEF HandlerInv
  <2>5. HandlerInv'
    <3>1. \A q \in Requests : q # r /\ request[q].ch = c =>
              request[q].stage \notin InitiateStages /\ ~(At(q, "swap") /\ OldMethod(c))
      BY <1>1 DEF HandlerInv, Alone
    <3>2. \A q \in Requests : q # r => request'[q] = request[q]
      BY <2>1 DEF Go, TypeOK, RequestOK
    <3>3. /\ request'[r].ch = c /\ request'[r].acct = a
          /\ \/ NewMethod(c) /\ request'[r].stage = "complete"
             \/ ~NewMethod(c) /\ request'[r].stage = "publish"
      BY <2>1 DEF Go, TypeOK, RequestOK, NewMethod
    <3>4. \A d \in Changes : d # c => swaps'[d] = swaps[d]
      BY <2>1 DEF TypeOK
    <3>5. \A q \in Requests : Alone(q) => Alone(q)'
      BY <3>2, <3>3 DEF Alone
    <3>6. \A q \in Requests : request[q].ch \in Changes \cup {NoChange}
      BY DEF TypeOK, RequestOK
    <3>7. \A d : Asked(d)' = Asked(d) /\ OldMethod(d)' = OldMethod(d) /\ NewMethod(d)' = NewMethod(d)
      BY <1>1 DEF Asked, OldMethod, NewMethod
    <3>8. \A q \in Requests : q # r /\ request[q].stage # "idle" /\ request[q].ch # c =>
              swaps'[request[q].ch] = swaps[request[q].ch]
      BY <3>4, InFlight
    <3>. QED
      BY <1>1, <2>3, <2>4, <3>1, <3>2, <3>3, <3>5, <3>7, <3>8
         DEF HandlerInv, InitiateStages, ConfirmStages
  <2>6. HistoryInv'
    BY <1>1, <2>1, <2>3, <2>4, PhoneChangeAssumption
       DEF HistoryInv, TypeOK, Asked, OldMethod, NewMethod
  <2>. QED
    BY <2>2, <2>5, <2>6
<1>. QED
  BY <1>2, <1>3

LEMMA CompleteInv ==
    ASSUME IInv, NEW r \in Requests, Complete(r)
    PROVE  HandlerInv' /\ HistoryInv'
<1>. DEFINE c == request[r].ch
<1>. USE DEF IInv
<1>1. /\ At(r, "complete") /\ UNCHANGED <<phone, asked, challenge, swaps, events>>
      /\ c \in Changes /\ Asked(c) /\ asked[c].acct = request[r].acct
      /\ NewMethod(c) /\ change[c].state # "absent" /\ swaps[c] > 0
      /\ Go(r, "publish") /\ change' = [change EXCEPT ![c] = Completed(change[c])]
  BY InFlight DEF Complete, HandlerInv, ConfirmStages
<1>2. \A d \in Changes : /\ change'[d].acct = change[d].acct /\ change'[d].new = change[d].new
                         /\ \/ change'[d].state = change[d].state
                            \/ /\ d = c /\ change[d].state \in Active
                               /\ change'[d].state = "completed"
  <2>1. CASE change[c].state \in Active
    <3>1. change' = [change EXCEPT ![c] = [change[c] EXCEPT !.state = "completed"]]
      BY <1>1, <2>1 DEF Completed
    <3>. QED
      BY <1>1, <2>1, <3>1 DEF TypeOK
  <2>2. CASE change[c].state \notin Active
    BY <1>1, <2>2 DEF TypeOK, Completed
  <2>. QED
    BY <2>1, <2>2
<1>3. HandlerInv'
  BY <1>1, <1>2 DEF HandlerInv, TypeOK, RequestOK, Go, Alone, Asked, OldMethod, NewMethod,
                    InitiateStages, ConfirmStages
<1>4. HistoryInv'
  BY <1>1, <1>2 DEF HistoryInv, Asked, OldMethod, NewMethod
<1>. QED
  BY <1>3, <1>4

LEMMA PublishInv ==
    ASSUME IInv, NEW r \in Requests, Publish(r)
    PROVE  HandlerInv' /\ HistoryInv'
<1>1. /\ request[r].ch \in Changes /\ swaps[request[r].ch] > 0 /\ Finish(r)
      /\ UNCHANGED <<phone, asked, change, challenge, swaps>>
      /\ events' = [events EXCEPT ![request[r].ch] = events[request[r].ch] + 1]
  BY InFlight DEF Publish, IInv, HandlerInv
<1>2. HandlerInv'
  BY <1>1, FinishInv
<1>3. HistoryInv'
  BY <1>1 DEF IInv, HistoryInv, TypeOK, Asked, OldMethod, NewMethod
<1>. QED
  BY <1>2, <1>3

LEMMA InvStep == IInv /\ [Next]_vars => IInv'
<1>. SUFFICES ASSUME IInv, [Next]_vars PROVE IInv'
  OBVIOUS
<1>. DEFINE Rest == PhonesUnique /\ HandlerInv /\ HistoryInv
<1>0. TypeOK'
  BY TypeStep DEF IInv
\* The actions that leave the tables alone, and phone or the rows alone.
<1>1. ASSUME UNCHANGED phone PROVE PhonesUnique'
  BY <1>1 DEF IInv, PhonesUnique
<1>2. ASSUME UNCHANGED <<phone, asked, change, challenge, swaps, events>> PROVE HistoryInv'
  BY <1>2 DEF IInv, HistoryInv, Asked, OldMethod, NewMethod
<1>3. ASSUME Surroundings PROVE Rest'
  BY <1>3, SurroundingsInv
<1>4. ASSUME NEW r \in Requests, Arrive(r) PROVE Rest'
  BY <1>1, <1>2, <1>4, VerifyInv, ReadChangeInv DEF Arrive, VerifyStepUp, ReadChange
<1>5. ASSUME NEW r \in Requests, Continue(r) PROVE Rest'
  <2>1. CASE LookUpPhone(r) \/ CheckCollision(r) \/ FindActive(r)
    BY <1>1, <1>2, <2>1, LookupsInv DEF LookUpPhone, CheckCollision, FindActive
  <2>2. CASE CancelPrior(r) \/ Create(r) \/ InsertChange(r) \/ RecordWrong(r) \/ Drop(r)
    <3>1. UNCHANGED phone
      BY <2>2 DEF CancelPrior, Create, InsertChange, RecordWrong, Drop
    <3>2. HandlerInv' /\ HistoryInv'
      BY <2>2, CancelPriorInv, CreateInv, InsertChangeInv, RecordWrongInv, DropInv
    <3>. QED
      BY <1>1, <3>1, <3>2
  <2>3. CASE CheckOtp(r)
    BY <1>1, <1>2, <2>3, CheckOtpInv DEF CheckOtp
  <2>4. CASE Consume(r) \/ Complete(r) \/ Publish(r)
    <3>1. UNCHANGED phone
      BY <2>4 DEF Consume, Complete, Publish
    <3>2. HandlerInv' /\ HistoryInv'
      BY <2>4, ConsumeInv, CompleteInv, PublishInv
    <3>. QED
      BY <1>1, <3>1, <3>2
  <2>5. CASE SwapPhone(r)
    BY <2>5, SwapPhoneInv
  <2>. HIDE DEF Rest
  <2>. QED
    BY <1>5, <2>1, <2>2, <2>3, <2>4, <2>5 DEF Continue
<1>6. ASSUME NEW r \in Requests, Abort(r) PROVE Rest'
  BY <1>1, <1>2, <1>6, FinishInv DEF Abort, CutShort
<1>7. ASSUME UNCHANGED vars PROVE Rest'
  BY <1>7 DEF vars, IInv, PhonesUnique, HandlerInv, HistoryInv, Alone, Asked, OldMethod, NewMethod
<1>. HIDE DEF Rest
<1>8. Rest'
  BY <1>3, <1>4, <1>5, <1>6, <1>7 DEF Next
<1>. QED
  BY <1>0, <1>8 DEF Rest, IInv

LEMMA Inductive == Spec => []IInv
BY InvInit, InvStep, PTL DEF Spec

\* No number is bound to two accounts (customersRepo.create and swapPhone
\* against the unique index), however many handlers race.
THEOREM PhonesAreUnique == Spec => []PhonesUnique
<1>1. IInv => PhonesUnique
  BY DEF IInv
<1>. QED
  BY <1>1, Inductive, PTL

\* Those whose code was right and who have not written the number.
Armed(c) == {r \in Requests : request[r].ch = c /\ request[r].stage \in {"consume", "swap"}}

\* A swap spends a right answer, and a closed challenge gives no new ones.
ArmedInv == \A c \in Changes : NewMethod(c) => swaps[c] + Cardinality(Armed(c)) <= Cardinality(Requests)

LEMMA ArmedFinite ==
    ASSUME NEW c
    PROVE  /\ IsFiniteSet(Armed(c)) /\ Cardinality(Armed(c)) \in Nat /\ Cardinality(Requests) \in Nat
           /\ Cardinality(Armed(c)) <= Cardinality(Requests)
BY PhoneChangeAssumption, FS_Subset, FS_CardinalityType DEF Armed

\* Only CheckOtp lets a handler in, and only while the challenge is pending.
LEMMA ArmedShrinks ==
    ASSUME IInv, [Next]_vars, NEW c \in Changes, NewMethod(c), challenge[c].status # "pending"
    PROVE  Armed(c)' \subseteq Armed(c)
<1>. SUFFICES ASSUME NEW r \in Requests, request'[r].ch = c, request'[r].stage \in {"consume", "swap"}
              PROVE  request[r].ch = c /\ request[r].stage \in {"consume", "swap"}
  BY DEF Armed
<1>. USE DEF IInv
<1>0. request \in [Requests -> [stage : Stages, ch : Changes \cup {NoChange}, acct : Accounts \cup {NoAccount},
                               target : Changes \cup {NoChange}, seen : Nat]]
  BY DEF TypeOK, RequestOK
<1>1. CASE request'[r] = request[r]
  BY <1>1
<1>2. CASE Arrive(r)
  BY <1>0, <1>2 DEF Arrive, VerifyStepUp, ReadChange, Confirming, Busy
<1>3. CASE Abort(r)
  BY <1>0, <1>3 DEF Abort, CutShort, Finish, Idle, Busy
<1>4. CASE Create(r)
  <2>1. At(r, "create") /\ request'[r].ch = request[r].ch
    BY <1>0, <1>4 DEF Create, Go
  <2>2. asked[c].method = "otp_to_new_phone" /\ Go(r, "insert")
    BY <1>4, <2>1 DEF Create, NewMethod
  <2>. QED
    BY <1>0, <2>2 DEF Go
<1>5. CASE CheckOtp(r)
  BY <1>0, <1>5 DEF CheckOtp, Confirming, Go, Busy
<1>6. CASE Consume(r)
  BY <1>0, <1>6 DEF Consume, Go
<1>7. CASE RecordWrong(r)
  BY <1>0, <1>7 DEF RecordWrong, Confirming, Finish, Idle, Busy
<1>8. CASE LookUpPhone(r) \/ CheckCollision(r) \/ FindActive(r) \/ CancelPrior(r) \/ InsertChange(r)
           \/ Drop(r) \/ Complete(r) \/ Publish(r)
  BY <1>0, <1>8 DEF LookUpPhone, CheckCollision, FindActive, CancelPrior, InsertChange, Drop, Complete, Publish,
                    Go, Finish, Idle, Busy
<1>9. CASE SwapPhone(r)
  BY <1>0, <1>9 DEF SwapPhone, CutShort, Go, Finish, Idle, Busy
<1>10. \/ request'[r] = request[r] \/ Arrive(r) \/ Abort(r) \/ Continue(r)
  <2>1. ASSUME NEW q \in Requests, Arrive(q) \/ Continue(q) \/ Abort(q), q # r PROVE request'[r] = request[r]
    <3>1. CASE Arrive(q)
      BY <1>0, <2>1, <3>1 DEF Arrive, VerifyStepUp, ReadChange, Confirming
    <3>2. CASE RecordWrong(q)
      BY <1>0, <2>1, <3>2 DEF RecordWrong, Confirming, Finish
    <3>3. CASE Abort(q)
      BY <1>0, <2>1, <3>3 DEF Abort, CutShort, Finish
    <3>4. CASE Continue(q) /\ ~RecordWrong(q)
      BY <1>0, <2>1, <3>4 DEF Continue, LookUpPhone, CheckCollision, FindActive, CancelPrior, Create, InsertChange,
         CheckOtp, Drop, Consume, SwapPhone, Complete, Publish, CutShort, Go, Finish, Confirming
    <3>. QED
      BY <2>1, <3>1, <3>2, <3>3, <3>4
  <2>2. Surroundings \/ UNCHANGED vars => request' = request
    BY DEF Surroundings, CreateCustomer, CooldownEnds, Elapse, vars
  <2>. QED
    BY <2>1, <2>2 DEF Next
<1>. QED
  BY <1>1, <1>2, <1>3, <1>4, <1>5, <1>6, <1>7, <1>8, <1>9, <1>10 DEF Continue

\* What a number was written for has been asked, and asking is done once.
LEMMA SwappedIsAsked ==
    ASSUME IInv, [Next]_vars, NEW c \in Changes, swaps[c] # 0
    PROVE  asked'[c] = asked[c]
<1>1. Asked(c)
  BY DEF IInv, HistoryInv, TypeOK
<1>2. ASSUME NEW r \in Requests, NEW d \in Changes, NEW a \in Accounts, NEW p \in Phones, NEW m \in Methods,
             VerifyStepUp(r, d, a, p, m)
      PROVE  asked'[c] = asked[c]
  BY <1>1, <1>2 DEF VerifyStepUp, IInv, TypeOK
<1>3. ASSUME NEW r \in Requests, RecordWrong(r) PROVE asked' = asked
  BY <1>3 DEF RecordWrong
<1>. QED
  BY <1>2, <1>3 DEF Next, Surroundings, CreateCustomer, CooldownEnds, Elapse, Arrive, ReadChange,
     Continue, LookUpPhone, CheckCollision, FindActive, CancelPrior, Create, InsertChange, CheckOtp, Drop,
     Consume, SwapPhone, Complete, Publish, Abort, vars

LEMMA ArmedStep == IInv /\ IInv' /\ ArmedInv /\ [Next]_vars => ArmedInv'
<1>. SUFFICES ASSUME IInv, IInv', ArmedInv, [Next]_vars, NEW c \in Changes, NewMethod(c)'
              PROVE  swaps'[c] + Cardinality(Armed(c)') <= Cardinality(Requests)
  BY DEF ArmedInv
<1>0. /\ swaps[c] \in Nat /\ swaps'[c] \in Nat
      /\ IsFiniteSet(Armed(c)) /\ Cardinality(Armed(c)) \in Nat /\ Cardinality(Requests) \in Nat
      /\ IsFiniteSet(Armed(c)') /\ Cardinality(Armed(c)') \in Nat
      /\ Cardinality(Armed(c)') <= Cardinality(Requests)
  <2>1. Armed(c)' \in SUBSET Requests
    BY DEF Armed
  <2>2. swaps[c] \in Nat /\ swaps'[c] \in Nat
    BY DEF IInv, TypeOK
  <2>. QED
    BY <2>1, <2>2, ArmedFinite, PhoneChangeAssumption, FS_Subset, FS_CardinalityType
<1>1. CASE swaps'[c] = 0
  BY <1>0, <1>1
<1>2. CASE swaps'[c] # 0 /\ swaps'[c] = swaps[c]
  <2>1. asked[c] = asked'[c]
    BY <1>2, SwappedIsAsked
  <2>2. NewMethod(c) /\ challenge[c].status \in Closed
    BY <1>0, <1>2, <2>1 DEF NewMethod, IInv, HistoryInv
  <2>3. Cardinality(Armed(c)') <= Cardinality(Armed(c))
    BY <1>0, <2>2, ArmedShrinks, FS_Subset DEF Closed
  <2>. QED
    BY <1>0, <1>2, <2>2, <2>3 DEF ArmedInv
<1>3. ASSUME NEW r \in Requests, SwapPhone(r), swaps'[c] # swaps[c]
      PROVE  swaps'[c] + Cardinality(Armed(c)') <= Cardinality(Requests)
  <2>1. At(r, "swap") /\ request[r].ch \in Changes
    BY <1>3, InFlight DEF SwapPhone
  <2>2. /\ request[r].ch = c /\ asked' = asked /\ swaps'[c] = swaps[c] + 1
        /\ ~Taken(asked[c].new, request[r].acct)
    BY <1>3, <2>1 DEF SwapPhone, IInv, TypeOK
  <2>3. NewMethod(c) /\ challenge[c].status \in Closed
    BY <2>1, <2>2 DEF NewMethod, IInv, HandlerInv
  <2>4. r \in Armed(c) /\ r \notin Armed(c)'
    BY <1>3, <2>1, <2>2, <2>3 DEF Armed, SwapPhone, Go, IInv, TypeOK, RequestOK, NewMethod
  <2>5. Armed(c)' \subseteq Armed(c) \ {r}
    BY <2>3, <2>4, ArmedShrinks DEF Closed
  <2>6. /\ IsFiniteSet(Armed(c) \ {r}) /\ Cardinality(Armed(c) \ {r}) = Cardinality(Armed(c)) - 1
    BY <1>0, <2>4, FS_RemoveElement
  <2>7. Cardinality(Armed(c)') <= Cardinality(Armed(c)) - 1
    BY <2>5, <2>6, FS_Subset
  <2>. QED
    BY <1>0, <2>2, <2>3, <2>7 DEF ArmedInv
<1>4. swaps'[c] = swaps[c] \/ \E r \in Requests : SwapPhone(r)
  <2>1. ASSUME NEW r \in Requests, RecordWrong(r) PROVE UNCHANGED swaps
    BY <2>1 DEF RecordWrong
  <2>. QED
    BY <2>1 DEF Next, Surroundings, CreateCustomer, CooldownEnds, Elapse, Arrive, VerifyStepUp, ReadChange,
       Continue, LookUpPhone, CheckCollision, FindActive, CancelPrior, Create, InsertChange, CheckOtp, Drop,
       Consume, Complete, Publish, Abort, vars
<1>. QED
  BY <1>1, <1>2, <1>3, <1>4

\* Method 1 writes a number once per token, method 2 only behind a challenge
\* that is closed for good, and once for each confirm that was past it.
THEOREM SwapsAreProved == Spec => []SwapNeedsProof
<1>1. IInv /\ ArmedInv => SwapNeedsProof
  <2>. SUFFICES ASSUME IInv, ArmedInv, NEW c \in Changes, swaps[c] > 0
                PROVE  \/ asked[c].method = "otp_to_old_phone" /\ swaps[c] = 1
                       \/ /\ asked[c].method = "otp_to_new_phone" /\ challenge[c].status \in Closed
                          /\ swaps[c] <= Cardinality(Requests)
    BY DEF SwapNeedsProof
  <2>1. asked[c].method \in Methods
    BY DEF IInv, TypeOK, HistoryInv, Asked
  <2>2. swaps[c] \in Nat
    BY DEF IInv, TypeOK
  <2>3. NewMethod(c) => swaps[c] <= Cardinality(Requests)
    BY <2>2, ArmedFinite DEF ArmedInv
  <2>. QED
    BY <2>1, <2>2, <2>3 DEF IInv, HistoryInv, OldMethod, NewMethod
<1>2. Init => ArmedInv
  BY DEF Init, ArmedInv, NewMethod, NoAsk
<1>. QED
  BY <1>1, <1>2, ArmedStep, Inductive, InvStep, PTL DEF Spec

\* cancel() and complete() never touch a row that is completed or cancelled,
\* and no insert hits an existing row.
LEMMA FrozenStep ==
    IInv /\ [Next]_vars => \A c \in Changes : change[c].state \in Terminal => change'[c] = change[c]
<1>. DEFINE Frozen == \A c \in Changes : change[c].state \in Terminal => change'[c] = change[c]
<1>. SUFFICES ASSUME IInv, [Next]_vars PROVE Frozen
  OBVIOUS
<1>. USE DEF IInv, TypeOK
<1>1. ASSUME UNCHANGED change PROVE Frozen
  BY <1>1
<1>2. ASSUME NEW t \in Changes, NEW row, change[t].state \notin Terminal,
             change' = [change EXCEPT ![t] = row]
      PROVE  Frozen
  BY <1>2
<1>3. ASSUME NEW t \in Changes,
             \/ change' = [change EXCEPT ![t] = Cancelled(change[t])]
             \/ change' = [change EXCEPT ![t] = Completed(change[t])]
      PROVE  Frozen
  <2>1. CASE change[t].state \in Active
    BY <1>2, <1>3, <2>1
  <2>2. CASE change[t].state \notin Active
    BY <1>3, <2>2 DEF Cancelled, Completed
  <2>. QED
    BY <2>1, <2>2
<1>4. ASSUME NEW r \in Requests, Continue(r) PROVE Frozen
  <2>1. CASE CancelPrior(r)
    BY <1>3, <2>1 DEF CancelPrior, RequestOK
  <2>2. CASE Drop(r) \/ Complete(r)
    <3>1. request[r].ch \in Changes
      BY <2>2, InFlight DEF Drop, Complete
    <3>. QED
      BY <1>3, <2>2, <3>1 DEF Drop, Complete
  <2>3. CASE Create(r) \/ InsertChange(r)
    <3>1. request[r].ch \in Changes /\ change[request[r].ch].state = "absent"
      BY <2>3, InFlight DEF Create, InsertChange, HandlerInv, InitiateStages
    <3>. QED
      BY <1>1, <1>2, <2>3, <3>1 DEF Create, InsertChange, Insert
  <2>4. CASE RecordWrong(r)
    BY <1>1, <2>4 DEF RecordWrong
  <2>. HIDE DEF Frozen
  <2>. QED
    BY <1>1, <1>4, <2>1, <2>2, <2>3, <2>4
       DEF Continue, LookUpPhone, CheckCollision, FindActive, CheckOtp, Consume, SwapPhone, Publish
<1>5. ASSUME NEW r \in Requests, Arrive(r) PROVE Frozen
  BY <1>1, <1>5 DEF Arrive, VerifyStepUp, ReadChange
<1>. HIDE DEF Frozen
<1>. QED
  BY <1>1, <1>4, <1>5 DEF Next, Surroundings, CreateCustomer, CooldownEnds, Elapse, Abort, vars

\* A phone change that has ended stays as it ended.
THEOREM TerminalFrozen == Spec => TerminalRowsFrozen
<1>1. IInv /\ [Next]_vars =>
        [\A c \in Changes : change[c].state \in Terminal => change'[c] = change[c]]_vars
  BY FrozenStep
<1>. QED
  BY <1>1, Inductive, PTL DEF Spec, TerminalRowsFrozen

-----------------------------------------------------------------------------
(* Nothing is left undone.  A handler that has written some of what a      *)
(* change comes to finds the row as it left it, since the row has ended.   *)

SettledInv ==
    \A r \in Requests : At(r, "publish") \/ (At(r, "swap") /\ OldMethod(request[r].ch)) =>
        change[request[r].ch].state \in Terminal

KeptInv == SettledInv /\ NothingLeftUndone

\* Which step a handler has made, that was or is now between swap and publish.
LEMMA OwnStep ==
    ASSUME TypeOK, [Next]_vars, NEW r \in Requests, request'[r] # request[r]
    PROVE  /\ At(r, "swap")' \/ At(r, "complete")' \/ At(r, "publish")' =>
                Create(r) \/ Consume(r) \/ SwapPhone(r) \/ Complete(r)
           /\ At(r, "swap") \/ At(r, "complete") \/ At(r, "publish") =>
                SwapPhone(r) \/ Complete(r) \/ Publish(r) \/ Abort(r)
<1>. USE DEF TypeOK, RequestOK, Go, Finish, Idle, Busy
<1>1. PICK q \in Requests : Arrive(q) \/ Continue(q) \/ Abort(q)
  BY DEF Next, Surroundings, CreateCustomer, CooldownEnds, Elapse, vars
<1>2. q = r
  <2>1. CASE RecordWrong(q) \/ CheckOtp(q)
    BY <2>1 DEF RecordWrong, CheckOtp, Confirming
  <2>2. CASE SwapPhone(q) \/ Abort(q)
    BY <2>2 DEF SwapPhone, Abort, CutShort
  <2>. QED
    BY <1>1, <2>1, <2>2 DEF Arrive, VerifyStepUp, ReadChange, Confirming, Continue, LookUpPhone, CheckCollision,
       FindActive, CancelPrior, Create, InsertChange, Drop, Consume, Complete, Publish
<1>3. CASE Arrive(r)
  BY <1>3 DEF Arrive, VerifyStepUp, ReadChange, Confirming
<1>4. CASE LookUpPhone(r) \/ CheckCollision(r) \/ FindActive(r) \/ CancelPrior(r) \/ InsertChange(r) \/ Drop(r)
  BY <1>4 DEF LookUpPhone, CheckCollision, FindActive, CancelPrior, InsertChange, Drop
<1>5. CASE CheckOtp(r) \/ RecordWrong(r)
  BY <1>5 DEF CheckOtp, RecordWrong, Confirming
<1>6. CASE Create(r) \/ Consume(r)
  BY <1>6 DEF Create, Consume
<1>7. CASE SwapPhone(r) \/ Complete(r) \/ Publish(r)
  BY <1>7 DEF SwapPhone, Complete, Publish
<1>8. CASE Abort(r)
  BY <1>8 DEF Abort, CutShort
<1>. QED
  BY <1>1, <1>2, <1>3, <1>4, <1>5, <1>6, <1>7, <1>8 DEF Continue

\* What was asked under a token stays so.
LEMMA AskedStays ==
    ASSUME IInv, [Next]_vars, NEW c \in Changes, Asked(c)
    PROVE  asked'[c] = asked[c]
<1>1. ASSUME NEW r \in Requests, NEW d \in Changes, NEW a \in Accounts, NEW p \in Phones, NEW m \in Methods,
             VerifyStepUp(r, d, a, p, m)
      PROVE  asked'[c] = asked[c]
  BY <1>1 DEF VerifyStepUp, IInv, TypeOK
<1>2. ASSUME NEW r \in Requests, RecordWrong(r) \/ SwapPhone(r) \/ Abort(r) PROVE UNCHANGED asked
  BY <1>2 DEF RecordWrong, SwapPhone, Abort
<1>. QED
  BY <1>1, <1>2 DEF Next, Surroundings, CreateCustomer, CooldownEnds, Elapse, Arrive, ReadChange,
     Continue, LookUpPhone, CheckCollision, FindActive, CancelPrior, Create, InsertChange, CheckOtp, Drop,
     Consume, Complete, Publish, vars

LEMMA SettledStep == IInv /\ SettledInv /\ [Next]_vars => SettledInv'
<1>. SUFFICES ASSUME IInv, SettledInv, [Next]_vars, NEW r \in Requests,
                     At(r, "publish")' \/ (At(r, "swap")' /\ OldMethod(request[r].ch)')
              PROVE  change'[request'[r].ch].state \in Terminal
  BY DEF SettledInv
<1>. USE DEF IInv
<1>1. CASE request'[r] = request[r]
  <2>1. request[r].ch \in Changes /\ Asked(request[r].ch)
    BY <1>1, InFlight
  <2>2. OldMethod(request[r].ch)' => OldMethod(request[r].ch)
    BY <1>1, <2>1, AskedStays DEF OldMethod
  <2>. QED
    BY <1>1, <2>1, <2>2, FrozenStep DEF SettledInv
<1>2. CASE Create(r)
  <2>1. request[r].ch \in Changes
    BY <1>2, InFlight DEF Create
  <2>2. ~Go(r, "insert")
    BY DEF Go, TypeOK, RequestOK
  <2>3. Insert(request[r].ch, "completed") /\ Go(r, "swap")
    BY <1>2, <2>2 DEF Create
  <2>4. change'[request[r].ch].state = "completed"
    BY <2>1, <2>3 DEF Insert, TypeOK
  <2>. QED
    BY <2>3, <2>4 DEF Go, TypeOK, RequestOK
<1>3. CASE Consume(r)
  <2>1. request[r].ch \in Changes /\ NewMethod(request[r].ch)
    BY <1>3, InFlight DEF Consume, HandlerInv, ConfirmStages
  <2>. QED
    BY <1>3, <2>1 DEF Consume, Go, TypeOK, RequestOK, OldMethod, NewMethod
<1>4. CASE SwapPhone(r)
  <2>1. request[r].ch \in Changes /\ (OldMethod(request[r].ch) \/ NewMethod(request[r].ch))
    BY <1>4, InFlight DEF SwapPhone
  <2>2. UNCHANGED change /\ request'[r].ch = request[r].ch /\ ~NewMethod(request[r].ch)
    BY <1>4, <2>1 DEF SwapPhone, CutShort, Go, Finish, Idle, Busy, TypeOK, RequestOK, NewMethod
  <2>. QED
    BY <1>4, <2>1, <2>2 DEF SwapPhone, SettledInv
<1>5. CASE Complete(r)
  <2>1. request[r].ch \in Changes /\ change[request[r].ch].state # "absent"
    BY <1>5, InFlight DEF Complete, HandlerInv, ConfirmStages
  <2>2. change'[request[r].ch].state \in Terminal
    BY <1>5, <2>1 DEF Complete, Completed, TypeOK
  <2>. QED
    BY <1>5, <2>1, <2>2 DEF Complete, Go, TypeOK, RequestOK
<1>. QED
  BY <1>1, <1>2, <1>3, <1>4, <1>5, OwnStep

\* A swap is of a handler that has the rest to do after it.
LEMMA SwapGoesOn ==
    ASSUME IInv, [Next]_vars, NEW c \in Changes, swaps'[c] # swaps[c]
    PROVE  Finishing(c)'
<1>. USE DEF IInv
<1>1. PICK r \in Requests : SwapPhone(r)
  <2>1. ASSUME NEW r \in Requests, RecordWrong(r) PROVE UNCHANGED swaps
    BY <2>1 DEF RecordWrong
  <2>. QED
    BY <2>1 DEF Next, Surroundings, CreateCustomer, CooldownEnds, Elapse, Arrive, VerifyStepUp, ReadChange,
       Continue, LookUpPhone, CheckCollision, FindActive, CancelPrior, Create, InsertChange, CheckOtp, Drop,
       Consume, Complete, Publish, Abort, vars
<1>2. At(r, "swap") /\ request[r].ch \in Changes
  BY <1>1, InFlight DEF SwapPhone
<1>3. request[r].ch = c /\ ~Taken(asked[c].new, request[r].acct)
  BY <1>1, <1>2 DEF SwapPhone, TypeOK
<1>4. request'[r].ch = c /\ request'[r].stage \in {"complete", "publish"}
  BY <1>1, <1>3 DEF SwapPhone, Go, TypeOK, RequestOK
<1>. QED
  BY <1>4 DEF Finishing, Midway

\* So is the insertion of a completed row; and complete() is such a rest.
LEMMA CompletionGoesOn ==
    ASSUME IInv, [Next]_vars, NEW c \in Changes,
           change'[c].state = "completed", change[c].state # "completed"
    PROVE  Finishing(c) \/ Finishing(c)'
<1>. USE DEF IInv
<1>1. ASSUME NEW t \in Changes, change' = [change EXCEPT ![t] = Cancelled(change[t])] PROVE FALSE
  BY <1>1 DEF Cancelled, TypeOK
<1>2. ASSUME NEW r \in Requests, CancelPrior(r) \/ Drop(r) PROVE FALSE
  <2>1. request[r].ch \in Changes /\ (At(r, "cancel") => request[r].target \in Changes)
    BY <1>2, InFlight DEF CancelPrior, Drop, TypeOK, RequestOK
  <2>. QED
    BY <1>1, <1>2, <2>1 DEF CancelPrior, Drop
<1>3. ASSUME NEW r \in Requests, InsertChange(r) PROVE FALSE
  BY <1>3, InFlight DEF InsertChange, Insert, TypeOK
<1>4. ASSUME NEW r \in Requests, Create(r) PROVE Finishing(c)'
  <2>1. request[r].ch \in Changes
    BY <1>4, InFlight DEF Create
  <2>2. request[r].ch = c /\ asked[c].method = "otp_to_old_phone" /\ Go(r, "swap") /\ UNCHANGED asked
    BY <1>4, <2>1 DEF Create, Insert, TypeOK
  <2>3. request'[r].ch = c /\ request'[r].stage = "swap" /\ asked'[c].method = "otp_to_old_phone"
    BY <2>2 DEF Go, TypeOK, RequestOK
  <2>. QED
    BY <2>3 DEF Finishing, Midway
<1>5. ASSUME NEW r \in Requests, Complete(r) PROVE Finishing(c)
  <2>1. request[r].ch \in Changes /\ At(r, "complete")
    BY <1>5, InFlight DEF Complete
  <2>2. request[r].ch = c
    BY <1>5, <2>1 DEF Complete, TypeOK
  <2>. QED
    BY <2>1, <2>2 DEF Finishing, Midway
<1>6. ASSUME NEW r \in Requests, RecordWrong(r) PROVE UNCHANGED change
  BY <1>6 DEF RecordWrong
<1>. QED
  BY <1>2, <1>3, <1>4, <1>5, <1>6 DEF Next, Surroundings, CreateCustomer, CooldownEnds, Elapse, Arrive,
     VerifyStepUp, ReadChange, Continue, LookUpPhone, CheckCollision, FindActive, CheckOtp, Consume, SwapPhone,
     Publish, Abort, vars

\* What is told stays told, and what is cut short so.
LEMMA HistoryGrows ==
    ASSUME IInv, [Next]_vars
    PROVE  cut \subseteq cut' /\ \A c \in Changes : events[c] > 0 => events'[c] > 0
<1>1. ASSUME NEW r \in Requests, Publish(r)
      PROVE  UNCHANGED cut /\ \A c \in Changes : events[c] > 0 => events'[c] > 0
  BY <1>1, InFlight DEF Publish, IInv, TypeOK
<1>2. ASSUME NEW r \in Requests, SwapPhone(r) \/ Abort(r) \/ RecordWrong(r)
      PROVE  cut \subseteq cut' /\ UNCHANGED events
  BY <1>2 DEF SwapPhone, Abort, CutShort, RecordWrong
<1>. QED
  BY <1>1, <1>2 DEF Next, Surroundings, CreateCustomer, CooldownEnds, Elapse, Arrive, VerifyStepUp, ReadChange,
     Continue, LookUpPhone, CheckCollision, FindActive, CancelPrior, Create, InsertChange, CheckOtp, Drop,
     Consume, Complete, vars

\* A handler that was to finish c does so, or is cut short.
LEMMA LastStep ==
    ASSUME IInv, [Next]_vars, NEW c \in Changes, c \notin cut', Finishing(c), ~Finishing(c)'
    PROVE  \E r \in Requests : Publish(r) /\ request[r].ch = c
<1>. USE DEF IInv
<1>1. PICK r \in Requests : request[r].ch = c /\ Midway(r)
  BY DEF Finishing
<1>2. Asked(c) /\ asked'[c] = asked[c] /\ (OldMethod(c) \/ NewMethod(c))
  <2>1. request[r].stage # "idle"
    BY <1>1 DEF Midway
  <2>. QED
    BY <1>1, <2>1, InFlight, AskedStays
<1>3. request'[r] # request[r]
  BY <1>1, <1>2 DEF Finishing, Midway
<1>4. SwapPhone(r) \/ Complete(r) \/ Publish(r) \/ Abort(r)
  BY <1>1, <1>3, OwnStep DEF Midway
<1>5. ~CutShort(r)
  BY <1>1 DEF CutShort
<1>6. ASSUME NEW s \in {"complete", "publish"}, Go(r, s) PROVE FALSE
  <2>1. request'[r].ch = c /\ request'[r].stage = s
    BY <1>1, <1>6 DEF Go, TypeOK, RequestOK
  <2>. QED
    BY <2>1 DEF Finishing, Midway
<1>. QED
  BY <1>1, <1>4, <1>5, <1>6 DEF SwapPhone, Complete, Abort

LEMMA UndoneStep == IInv /\ KeptInv /\ [Next]_vars => NothingLeftUndone'
<1>. SUFFICES ASSUME IInv, KeptInv, [Next]_vars, NEW c \in Changes, c \notin cut', ~Finishing(c)'
              PROVE  /\ change'[c].state = "completed" => swaps'[c] > 0
                     /\ swaps'[c] > 0 => change'[c].state \in Terminal /\ events'[c] > 0
  BY DEF NothingLeftUndone
<1>. USE DEF IInv, KeptInv
<1>1. swaps'[c] = swaps[c]
  BY SwapGoesOn
<1>2. CASE Finishing(c)
  <2>1. PICK r \in Requests : Publish(r) /\ request[r].ch = c
    BY <1>2, LastStep
  <2>2. swaps[c] > 0 /\ change[c].state \in Terminal
    BY <2>1 DEF Publish, HandlerInv, SettledInv
  <2>3. events'[c] > 0
    BY <2>1 DEF Publish, TypeOK
  <2>. QED
    BY <1>1, <2>1, <2>2, <2>3 DEF Publish
<1>3. CASE ~Finishing(c)
  <2>1. c \notin cut /\ (events[c] > 0 => events'[c] > 0)
    BY HistoryGrows
  <2>2. /\ change[c].state = "completed" => swaps[c] > 0
        /\ swaps[c] > 0 => change[c].state \in Terminal /\ events[c] > 0
    BY <1>3, <2>1 DEF NothingLeftUndone
  <2>3. change'[c].state = "completed" => change[c].state = "completed"
    BY <1>3, CompletionGoesOn
  <2>. QED
    BY <1>1, <2>1, <2>2, <2>3, FrozenStep
<1>. QED
  BY <1>2, <1>3

\* A completed method-2 row and a PHONE_CHANGED event both mean a real move; and
\* the row, the move and the event of a change (initiate, swapPhone, complete,
\* publish) are not without each other, but where a handler was cut short.
THEOREM CompletedMoved == Spec => []ChangesAreWhole
<1>1. Init => KeptInv
  BY DEF Init, KeptInv, SettledInv, NothingLeftUndone, Idle, Busy, NoRecord
<1>2. Spec => []KeptInv
  BY <1>1, SettledStep, UndoneStep, Inductive, PTL DEF Spec, KeptInv
<1>3. IInv /\ KeptInv => ChangesAreWhole
  BY DEF IInv, KeptInv, HistoryInv, CompletedAndAnnouncedMoved, NewMethod, ChangesAreWhole
<1>. QED
  BY <1>2, <1>3, Inductive, PTL

-----------------------------------------------------------------------------
(* The cooldown.  What is under way in a cooldown was so when it began: a  *)
(* change comes under way by LookUpPhone alone, which looks at cooling.    *)

GraceInv == \A c \in Changes : asked[c].acct \in cooling /\ UnderWay(c) => c \in grace

LEMMA ComesUnderWay ==
    ASSUME IInv, [Next]_vars, NEW c \in Changes, UnderWay(c)'
    PROVE  /\ asked'[c] = asked[c]
           /\ UnderWay(c) \/ (asked[c].acct \notin cooling /\ UNCHANGED <<cooling, grace>>)
<1>. USE DEF IInv
\* A handler on c that is past the lookup before the step too.
<1>1. ASSUME NEW r \in Requests, request'[r].ch = c, ~At(r, "lookup")',
             request[r].ch = c, ~At(r, "lookup")
      PROVE  UnderWay(c)
  BY <1>1 DEF UnderWay
<1>2. ASSUME UNCHANGED <<asked, change>>, NEW r \in Requests,
             \A q \in Requests \ {r} : request'[q] = request[q],
             request'[r].ch = c => request[r].ch = c /\ ~At(r, "lookup")
      PROVE  asked'[c] = asked[c] /\ UnderWay(c)
  BY <1>2 DEF UnderWay
<1>3. ASSUME UNCHANGED <<asked, change, request>> PROVE asked'[c] = asked[c] /\ UnderWay(c)
  BY <1>3 DEF UnderWay
<1>4. CASE Surroundings \/ UNCHANGED vars
  BY <1>3, <1>4 DEF Surroundings, CreateCustomer, CooldownEnds, Elapse, vars
<1>5. ASSUME NEW r \in Requests, NEW d \in Changes, NEW a \in Accounts, NEW p \in Phones,
             NEW m \in Methods, VerifyStepUp(r, d, a, p, m)
      PROVE  asked'[c] = asked[c] /\ UnderWay(c)
  <2>1. /\ ~Asked(d) /\ UNCHANGED change /\ asked' = [asked EXCEPT ![d] = [acct |-> a, new |-> p, method |-> m]]
        /\ request' = [request EXCEPT ![r] = Busy("lookup", d, a, NoChange, 0)]
    BY <1>5 DEF VerifyStepUp
  <2>2. /\ change[d].state = "absent"
        /\ \A q \in Requests : request[q].ch # d
    BY <2>1, PhoneChangeAssumption DEF HistoryInv, HandlerInv, TypeOK
  <2>3. request'[r].stage = "lookup" /\ request'[r].ch = d /\ \A q \in Requests \ {r} : request'[q] = request[q]
    BY <2>1 DEF TypeOK, RequestOK, Busy
  <2>4. c # d
    BY <2>1, <2>2, <2>3 DEF UnderWay
  <2>. QED
    BY <2>1, <2>3, <2>4 DEF UnderWay, TypeOK
<1>6. ASSUME NEW r \in Requests, NEW d \in Changes, NEW a \in Accounts, ReadChange(r, d, a)
      PROVE  asked'[c] = asked[c] /\ UnderWay(c)
  <2>1. /\ change[d].state \in Active /\ UNCHANGED <<asked, change>>
        /\ request'[r].ch = d /\ \A q \in Requests \ {r} : request'[q] = request[q]
    BY <1>6 DEF ReadChange, Confirming, TypeOK, RequestOK, Busy
  <2>. QED
    BY <2>1 DEF UnderWay
<1>7. ASSUME NEW r \in Requests, LookUpPhone(r)
      PROVE  /\ asked'[c] = asked[c]
             /\ UnderWay(c) \/ (asked[c].acct \notin cooling /\ UNCHANGED <<cooling, grace>>)
  <2>1. At(r, "lookup") /\ UNCHANGED <<cooling, grace, asked, change>>
    BY <1>7 DEF LookUpPhone
  <2>2. asked[request[r].ch].acct = request[r].acct
    BY <2>1, InFlight
  <2>3. \A q \in Requests \ {r} : request'[q] = request[q]
    BY <1>7 DEF LookUpPhone, Finish, Go, TypeOK, RequestOK
  <2>4. CASE Finish(r)
    BY <2>1, <2>3, <2>4, PhoneChangeAssumption DEF Finish, Idle, Busy, UnderWay, TypeOK, RequestOK
  <2>5. CASE request[r].acct \notin cooling /\ Go(r, "collide")
    <3>1. request'[r].ch = request[r].ch
      BY <2>5 DEF Go, TypeOK, RequestOK
    <3>. QED
      BY <2>1, <2>2, <2>3, <2>5, <3>1 DEF UnderWay
  <2>. QED
    BY <1>7, <2>4, <2>5 DEF LookUpPhone
<1>8. ASSUME NEW r \in Requests, Continue(r) \/ Abort(r), ~LookUpPhone(r)
      PROVE  asked'[c] = asked[c] /\ UnderWay(c)
  <2>1. ~At(r, "lookup") \/ Abort(r)
    BY <1>8 DEF Continue, CheckCollision, FindActive, CancelPrior, Create, InsertChange, CheckOtp,
                RecordWrong, Drop, Consume, SwapPhone, Complete, Publish
  <2>2. UNCHANGED asked
    <3>1. CASE RecordWrong(r)
      BY <3>1 DEF RecordWrong
    <3>. QED
      BY <1>8, <3>1 DEF Continue, CheckCollision, FindActive, CancelPrior, Create, InsertChange, CheckOtp,
                  Drop, Consume, SwapPhone, Complete, Publish, Abort
  <2>3. \A q \in Requests \ {r} : request'[q] = request[q]
    BY <1>8 DEF TypeOK, RequestOK, Continue, CheckCollision, FindActive, CancelPrior, Create, InsertChange,
                CheckOtp, RecordWrong, Drop, Consume, SwapPhone, Complete, Publish, Abort, CutShort, Go, Finish, Confirming
  <2>4. request'[r].ch \in {request[r].ch, NoChange}
    <3>1. ASSUME Finish(r) PROVE request'[r].ch = NoChange
      BY <3>1 DEF Finish, Idle, Busy, TypeOK, RequestOK
    <3>2. ASSUME NEW s, Go(r, s) PROVE request'[r].ch = request[r].ch
      BY <3>2 DEF Go, TypeOK, RequestOK
    <3>4. CASE RecordWrong(r) \/ CheckOtp(r) \/ FindActive(r) \/ CancelPrior(r)
      <4>1. CASE RecordWrong(r)
        BY <4>1 DEF RecordWrong, Confirming, Finish, Idle, Busy, TypeOK, RequestOK
      <4>2. CASE CheckOtp(r)
        BY <4>2 DEF CheckOtp, Confirming, Go, Busy, TypeOK, RequestOK
      <4>3. CASE FindActive(r)
        BY <4>3 DEF FindActive, Go, Busy, TypeOK, RequestOK
      <4>4. CASE CancelPrior(r)
        BY <4>4 DEF CancelPrior, Busy, TypeOK, RequestOK
      <4>. QED
        BY <3>4, <4>1, <4>2, <4>3, <4>4
    <3>5. CASE Abort(r)
      BY <3>1, <3>5 DEF Abort, CutShort
    <3>. QED
      BY <1>8, <3>1, <3>2, <3>4, <3>5 DEF Continue, CheckCollision, Create, InsertChange, Drop, Consume,
                                          SwapPhone, Complete, Publish, Abort, CutShort
  <2>5. ASSUME change'[c].state \in Active, change[c].state \notin Active PROVE UnderWay(c)
    <3>1. CASE InsertChange(r)
      <4>1. At(r, "insert") /\ request[r].ch \in Changes
        BY <3>1, InFlight DEF InsertChange
      <4>2. request[r].ch = c
        BY <2>5, <3>1, <4>1 DEF InsertChange, Insert, TypeOK
      <4>. QED
        BY <4>1, <4>2 DEF UnderWay
    <3>2. CASE Create(r)
      <4>1. At(r, "create") /\ request[r].ch \in Changes
        BY <3>2, InFlight DEF Create
      <4>2. request[r].ch = c
        BY <2>5, <3>2, <4>1 DEF Create, Insert, TypeOK
      <4>. QED
        BY <4>1, <4>2 DEF UnderWay
    <3>3. ASSUME NEW t \in Changes,
                 \/ change' = [change EXCEPT ![t] = Cancelled(change[t])]
                 \/ change' = [change EXCEPT ![t] = Completed(change[t])]
          PROVE  FALSE
      <4>1. CASE t = c
        BY <2>5, <3>3, <4>1 DEF TypeOK, Cancelled, Completed
      <4>. QED
        BY <2>5, <3>3, <4>1 DEF TypeOK
    <3>4. CASE CancelPrior(r) \/ Drop(r) \/ Complete(r)
      <4>1. request[r].ch \in Changes /\ (At(r, "cancel") => request[r].target \in Changes)
        BY <3>4, InFlight DEF CancelPrior, Drop, Complete, TypeOK, RequestOK
      <4>. QED
        BY <3>3, <3>4, <4>1 DEF CancelPrior, Drop, Complete
    <3>5. CASE RecordWrong(r)
      BY <2>5, <3>5 DEF RecordWrong
    <3>. QED
      BY <1>8, <2>5, <3>1, <3>2, <3>4, <3>5
         DEF Continue, CheckCollision, FindActive, CheckOtp, Consume, SwapPhone, Publish, Abort
  <2>6. Abort(r) => request'[r].ch = NoChange
    BY DEF Abort, CutShort, Finish, Idle, Busy, TypeOK, RequestOK
  <2>. QED
    BY <2>1, <2>2, <2>3, <2>4, <2>5, <2>6, PhoneChangeAssumption DEF UnderWay
<1>. QED
  BY <1>4, <1>5, <1>6, <1>7, <1>8 DEF Next, Arrive

\* A step begins no cooldown, or it is a swap.
LEMMA CoolingSteps ==
    ASSUME [Next]_vars
    PROVE  \/ cooling' \subseteq cooling /\ UNCHANGED grace
           \/ \E a : CoolDown(a) /\ UNCHANGED asked
<1>1. ASSUME NEW r \in Requests, SwapPhone(r)
      PROVE  UNCHANGED <<cooling, grace>> \/ (CoolDown(request[r].acct) /\ UNCHANGED asked)
  BY <1>1 DEF SwapPhone
<1>2. ASSUME NEW r \in Requests, RecordWrong(r) PROVE UNCHANGED <<cooling, grace>>
  BY <1>2 DEF RecordWrong
<1>. QED
  BY <1>1, <1>2 DEF Next, Surroundings, CreateCustomer, CooldownEnds, Elapse, Arrive, VerifyStepUp, ReadChange,
       Continue, LookUpPhone, CheckCollision, FindActive, CancelPrior, Create, InsertChange, CheckOtp, Drop,
       Consume, Complete, Publish, Abort, vars

LEMMA GraceStep == IInv /\ GraceInv /\ [Next]_vars => GraceInv'
<1>. SUFFICES ASSUME IInv, GraceInv, [Next]_vars, NEW c \in Changes,
                     asked'[c].acct \in cooling', UnderWay(c)'
              PROVE  c \in grace'
  BY DEF GraceInv
<1>1. /\ asked'[c] = asked[c]
      /\ UnderWay(c) \/ (asked[c].acct \notin cooling /\ UNCHANGED <<cooling, grace>>)
  BY ComesUnderWay
<1>2. UnderWay(c)
  BY <1>1
<1>3. CASE cooling' \subseteq cooling /\ UNCHANGED grace
  BY <1>1, <1>2, <1>3 DEF GraceInv
<1>4. ASSUME NEW a, CoolDown(a) PROVE c \in grace'
  <2>1. CASE asked[c].acct \in cooling
    BY <1>2, <1>4, <2>1 DEF GraceInv, CoolDown
  <2>2. CASE asked[c].acct = a /\ a \notin cooling
    BY <1>2, <1>4, <2>2 DEF CoolDown
  <2>. QED
    BY <1>1, <1>4, <2>1, <2>2 DEF CoolDown
<1>. QED
  BY <1>3, <1>4, CoolingSteps

\* While an account cools, only changes are applied that had passed the check
\* of the cooldown (initiate, getPhoneRecord) before the cooldown began.
THEOREM CooldownLetsPassOnlyEarlier == Spec => CooldownHolds
<1>1. Init => GraceInv
  BY DEF Init, GraceInv
<1>2. IInv /\ GraceInv /\ [Next]_vars =>
        [\A c \in Changes : swaps'[c] # swaps[c] /\ asked[c].acct \in cooling => c \in grace]_vars
  <2>. SUFFICES ASSUME IInv, GraceInv, Next, NEW c \in Changes, swaps'[c] # swaps[c],
                       asked[c].acct \in cooling
                PROVE  c \in grace
    OBVIOUS
  <2>1. PICK r \in Requests : SwapPhone(r)
    <3>1. ASSUME NEW r \in Requests, RecordWrong(r) PROVE UNCHANGED swaps
      BY <3>1 DEF RecordWrong
    <3>. QED
      BY <3>1 DEF Next, Surroundings, CreateCustomer, CooldownEnds, Elapse, Arrive, VerifyStepUp, ReadChange,
         Continue, LookUpPhone, CheckCollision, FindActive, CancelPrior, Create, InsertChange, CheckOtp, Drop,
         Consume, Complete, Publish, Abort
  <2>2. At(r, "swap") /\ request[r].ch \in Changes
    BY <2>1, InFlight DEF SwapPhone
  <2>3. request[r].ch = c
    BY <2>1, <2>2 DEF SwapPhone, IInv, TypeOK
  <2>. QED
    BY <2>2, <2>3 DEF UnderWay, GraceInv
<1>. QED
  BY <1>1, <1>2, GraceStep, Inductive, PTL DEF Spec, CooldownHolds

-----------------------------------------------------------------------------
(* PhoneChange implements PhoneDirectory: spending a token authorises, a   *)
(* swap moves, and nothing else touches the bindings.                      *)

LEMMA DirectoryInit == Init => Directory!Init
BY DEF Init, Directory!Init, Asked, NoAsk

LEMMA DirectoryStep == IInv /\ [Next]_vars => [Directory!Next]_Directory!directoryVars
<1>. SUFFICES ASSUME IInv, [Next]_vars
              PROVE  Directory!Next \/ UNCHANGED Directory!directoryVars
  OBVIOUS
<1>. USE DEF IInv
<1>1. ASSUME UNCHANGED <<phone, asked>> PROVE UNCHANGED Directory!directoryVars
  BY <1>1 DEF Directory!directoryVars, Asked
<1>2. ASSUME NEW a \in Accounts, NEW p \in Phones, CreateCustomer(a, p) PROVE Directory!Next
  <2>1. Directory!Register(a, p)
    BY <1>2, PhoneChangeAssumption
       DEF CreateCustomer, Taken, Directory!Register, Directory!Free, Asked
  <2>. QED
    BY <2>1 DEF Directory!Next
<1>3. ASSUME NEW r \in Requests, NEW c \in Changes, NEW a \in Accounts, NEW p \in Phones,
             NEW m \in Methods, VerifyStepUp(r, c, a, p, m)
      PROVE  Directory!Next
  <2>. DEFINE Auth == {<<asked[d].acct, asked[d].new>> : d \in {e \in Changes : Asked(e)}}
  <2>1. /\ ~Asked(c) /\ UNCHANGED phone
        /\ asked' = [asked EXCEPT ![c] = [acct |-> a, new |-> p, method |-> m]]
    BY <1>3 DEF VerifyStepUp
  <2>2. Auth' = Auth \cup {<<a, p>>}
    BY <2>1 DEF TypeOK, Asked
  <2>3. Directory!Authorise(a, p)
    BY <2>1, <2>2 DEF Directory!Authorise
  <2>. QED
    BY <2>3 DEF Directory!Next
<1>4. ASSUME NEW r \in Requests, SwapPhone(r), UNCHANGED phone
      PROVE  UNCHANGED Directory!directoryVars
  BY <1>1, <1>4 DEF SwapPhone
<1>5. ASSUME NEW r \in Requests, SwapPhone(r), phone' # phone PROVE Directory!Next
  <2>. DEFINE c == request[r].ch
              a == request[r].acct
  <2>1. /\ c \in Changes /\ a \in Accounts /\ Asked(c) /\ asked[c].acct = a
        /\ asked[c].new \in Phones /\ phone[a] # NoPhone
    BY <1>5, InFlight DEF SwapPhone
  <2>2. /\ ~Taken(asked[c].new, a) /\ UNCHANGED asked
        /\ phone' = [phone EXCEPT ![a] = asked[c].new]
    BY <1>5 DEF SwapPhone
  <2>3. phone[a] # asked[c].new
    BY <1>5, <2>1, <2>2 DEF TypeOK
  <2>4. Directory!Move(a, asked[c].new)
    BY <2>1, <2>2, <2>3 DEF Directory!Move, Directory!Free, Taken, Asked
  <2>. QED
    BY <2>1, <2>4 DEF Directory!Next
<1>6. ASSUME NEW r \in Requests, Continue(r)
      PROVE  Directory!Next \/ UNCHANGED Directory!directoryVars
  <2>1. CASE SwapPhone(r)
    BY <1>4, <1>5, <2>1
  <2>2. CASE RecordWrong(r)
    BY <1>1, <2>2 DEF RecordWrong
  <2>. QED
    BY <1>1, <1>6, <2>1, <2>2
       DEF Continue, LookUpPhone, CheckCollision, FindActive, CancelPrior, Create, InsertChange,
           CheckOtp, Drop, Consume, Complete, Publish
<1>7. ASSUME NEW r \in Requests, Arrive(r)
      PROVE  Directory!Next \/ UNCHANGED Directory!directoryVars
  BY <1>1, <1>3, <1>7 DEF Arrive, ReadChange
<1>. QED
  BY <1>1, <1>2, <1>6, <1>7 DEF Next, Surroundings, CooldownEnds, Elapse, Abort, vars

\* Every behaviour of the handlers is a behaviour of the directory.
THEOREM DirectoryRefinement == Spec => ImplementsDirectory
BY DirectoryInit, DirectoryStep, Inductive, PTL DEF Spec, ImplementsDirectory, Directory!Spec
=============================================================================
