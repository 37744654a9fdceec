---------------------------- MODULE StepUpProofs ----------------------------
(***************************************************************************)
(* For any number of challenges, concurrent requests and allowed attempts: *)
(* the safety invariants of StepUp, and that StepUp implements             *)
(* StepUpLedger.                                                           *)
(***************************************************************************)
EXTENDS StepUp, FiniteSetTheorems, TLAPS

\* recordAttempt keeps the row a row, never changes what it is for, and writes
\* nothing but to a pending row.
LEMMA RecordAttemptFacts ==
    ASSUME NEW row \in Row, NEW status \in Statuses, NEW increment \in BOOLEAN
    PROVE  /\ RecordAttempt(row, status, increment) \in Row
           /\ RecordAttempt(row, status, increment).kind = row.kind
           /\ row.status # "pending" => RecordAttempt(row, status, increment) = row
           /\ row.status = "pending" => RecordAttempt(row, status, increment).status = status
           /\ RecordAttempt(row, status, increment).attempts \in {row.attempts, row.attempts + 1}
<1>. DEFINE n == IF increment THEN row.attempts + 1 ELSE row.attempts
            new == [row EXCEPT !.status = status, !.attempts = n]
<1>1. row.attempts \in Nat /\ n \in Nat /\ n \in {row.attempts, row.attempts + 1}
  BY DEF Row
<1>2. row.status # "pending" => RecordAttempt(row, status, increment) = row
  BY DEF RecordAttempt
<1>3. row.status = "pending" => RecordAttempt(row, status, increment) = new
  BY DEF RecordAttempt
<1>. HIDE DEF n
<1>4. /\ new \in Row /\ new.kind = row.kind
      /\ new.status = status /\ new.attempts = n
  BY <1>1 DEF Row
<1>. QED
  BY <1>1, <1>2, <1>3, <1>4

\* The same for the write that follows a wrong response.
LEMMA AfterWrongFacts ==
    ASSUME NEW row \in Row, NEW seen \in Nat
    PROVE  /\ AfterWrong(row, seen) \in Row
           /\ AfterWrong(row, seen).kind = row.kind
           /\ row.status # "pending" => AfterWrong(row, seen) = row
           /\ row.status = "pending" => AfterWrong(row, seen).status \in {"pending", "failed"}
           /\ AfterWrong(row, seen).attempts \in {row.attempts, row.attempts + 1}
<1>. DEFINE status == IF seen + 1 >= MaxOtpAttempts THEN "failed" ELSE "pending"
<1>1. AfterWrong(row, seen) = RecordAttempt(row, status, TRUE)
  BY DEF AfterWrong
<1>2. status \in Statuses /\ status \in {"pending", "failed"}
  BY DEF Statuses
<1>. HIDE DEF status
<1>3. /\ RecordAttempt(row, status, TRUE) \in Row
      /\ RecordAttempt(row, status, TRUE).kind = row.kind
      /\ row.status # "pending" => RecordAttempt(row, status, TRUE) = row
      /\ row.status = "pending" => RecordAttempt(row, status, TRUE).status = status
      /\ RecordAttempt(row, status, TRUE).attempts \in {row.attempts, row.attempts + 1}
  <2>1. status \in Statuses /\ TRUE \in BOOLEAN
    BY <1>2
  <2>. QED
    BY <2>1, RecordAttemptFacts, Zenon
<1>. QED
  BY <1>1, <1>2, <1>3, Zenon

USE DEF At, Go, Finish, Present, Record

\* Every variable keeps its type.
LEMMA TypeInit == Init => TypeOK
BY StepUpAssumption DEF Init, TypeOK, Row, NoRow, Statuses, Idle, Stages

LEMMA TypeStep == TypeOK /\ [Next]_vars => TypeOK'
<1>. SUFFICES ASSUME TypeOK, [Next]_vars PROVE TypeOK'
  OBVIOUS
<1>. USE DEF TypeOK
<1>1. ASSUME NEW c \in Challenges, NEW kind \in Kinds,
             CreateAuthChallenge(c, kind) \/ CreateStepUpChallenge(c, kind)
      PROVE  TypeOK'
  BY <1>1 DEF CreateAuthChallenge, CreateStepUpChallenge, NewRow, Row, Statuses
<1>2. ASSUME NEW c \in Challenges, Elapse(c) PROVE TypeOK'
  BY <1>2 DEF Elapse
<1>3. ASSUME NEW r \in Requests, NEW c \in Challenges, Arrive(r, c) PROVE TypeOK'
  <2>1. challenge[c].attempts \in Nat
    BY DEF Row
  <2>2. CASE PresentLogin(r, c)
    BY <2>1, <2>2 DEF PresentLogin, Busy, Stages
  <2>3. CASE PresentStepUp(r, c)
    BY <2>1, <2>3 DEF PresentStepUp, Busy, Stages
  <2>4. CASE PresentJwt(r, c) \/ PresentJti(r, c)
    BY <2>4, SMTT(60) DEF PresentJwt, PresentJti, Busy, Stages
  <2>. QED
    BY <1>3, <2>2, <2>3, <2>4 DEF Arrive
<1>4. ASSUME NEW r \in Requests, Continue(r) PROVE TypeOK'
  <2>1. request[r].stage # "idle" /\ request[r].ch \in Challenges
    BY <1>4 DEF Continue, RecordExpired, RecordWrong, RecordUse, RecordConsumed,
                CreateSession, CreateToken, Reply, MarkConsumed, Perform
  <2>2. challenge[request[r].ch] \in Row
    BY <2>1
  <2>3. CASE RecordExpired(r)
    <3>1. RecordAttempt(challenge[request[r].ch], "expired", FALSE) \in Row
      BY <2>2, RecordAttemptFacts DEF Statuses
    <3>. QED
      BY <2>1, <2>3, <3>1 DEF RecordExpired, Idle, Stages
  <2>4. CASE RecordWrong(r)
    <3>1. AfterWrong(challenge[request[r].ch], request[r].seen) \in Row
      BY <2>2, AfterWrongFacts
    <3>. QED
      BY <2>1, <2>4, <3>1 DEF RecordWrong, Idle, Stages
  <2>5. CASE RecordUse(r)
    BY <2>1, <2>5 DEF RecordUse, Stages
  <2>6. CASE RecordConsumed(r)
    <3>1. RecordAttempt(challenge[request[r].ch], "consumed", TRUE) \in Row
      BY <2>2, RecordAttemptFacts DEF Statuses
    <3>. QED
      BY <2>1, <2>6, <3>1, ZenonT(60) DEF RecordConsumed, Stages
  <2>7. CASE CreateSession(r)
    BY <2>1, <2>7 DEF CreateSession, Idle, Stages
  <2>8. CASE CreateToken(r)
    BY <2>1, <2>8 DEF CreateToken, Idle, Stages
  <2>9. CASE Reply(r)
    BY <2>1, <2>9 DEF Reply, Idle, Stages
  <2>10. CASE MarkConsumed(r)
    BY <2>1, <2>10 DEF MarkConsumed, Idle, Stages
  <2>11. CASE Perform(r)
    BY <2>1, <2>11 DEF Perform, Idle, Stages
  <2>. QED
    BY <1>4, <2>3, <2>4, <2>5, <2>6, <2>7, <2>8, <2>9, <2>10, <2>11 DEF Continue
<1>5. ASSUME NEW r \in Requests, Abort(r) PROVE TypeOK'
  BY <1>5 DEF Abort, Idle, Stages
<1>6. CASE UNCHANGED vars
  BY <1>6 DEF vars
<1>. QED
  BY <1>1, <1>2, <1>3, <1>4, <1>5, <1>6 DEF Next, Create, Kinds

THEOREM TypeCorrect == Spec => []TypeOK
BY TypeInit, TypeStep, PTL DEF Spec

-----------------------------------------------------------------------------
(* The inductive invariant.  The handlers' part says what each handler may *)
(* rely on at the statement it is about to run; the history part is what   *)
(* the properties ask for; OneWinner is needed because two handlers at     *)
(* "reply" for one challenge would both put its JWT into a 200.            *)

LEMMA InvInit == Init => IInv
BY TypeInit DEF Init, IInv, HandlerInv, OneWinner, HistoryInv, Idle, NoRow

LEMMA CreateInv ==
    ASSUME IInv, NEW c \in Challenges, NEW kind \in Kinds,
           CreateAuthChallenge(c, kind) \/ CreateStepUpChallenge(c, kind)
    PROVE  HandlerInv' /\ OneWinner' /\ HistoryInv'
<1>1. /\ challenge[c].status = "absent"
      /\ challenge' = [challenge EXCEPT ![c] = NewRow(kind)]
      /\ UNCHANGED <<elapsed, request, token, sessions, counter, proved, issued, performed>>
  BY DEF CreateAuthChallenge, CreateStepUpChallenge, NoRow
<1>2. c \notin proved /\ token[c] = "none" /\ sessions[c] = 0
  BY <1>1 DEF IInv, HistoryInv, TypeOK, Closed
<1>3. HandlerInv'
  BY <1>1, <1>2 DEF IInv, HandlerInv, TypeOK
<1>4. OneWinner'
  BY <1>1 DEF IInv, OneWinner
<1>5. HistoryInv'
  BY <1>1, <1>2 DEF IInv, HistoryInv, TypeOK
<1>. QED
  BY <1>3, <1>4, <1>5

LEMMA ArriveInv ==
    ASSUME IInv, NEW r \in Requests, NEW c \in Challenges, Arrive(r, c)
    PROVE  HandlerInv' /\ OneWinner' /\ HistoryInv'
<1>. USE DEF IInv
<1>1. CASE PresentLogin(r, c)
  BY <1>1, SMTT(60) DEF PresentLogin, HandlerInv, OneWinner, HistoryInv, TypeOK, Busy
<1>2. CASE PresentStepUp(r, c)
  <2>1. /\ proved \subseteq proved'
        /\ proved' \subseteq proved \cup {c}
        /\ proved' # proved => challenge[c].kind \in StepUpKinds
    BY <1>2 DEF PresentStepUp, StepUpKinds
  <2>2. \E s \in {"expire", "fail", "use", "consume"} : \E n :
            /\ request' = [request EXCEPT ![r] = Busy(s, c, n)]
            /\ s \in {"use", "consume"} => c \in proved'
    BY <1>2 DEF PresentStepUp
  <2>3. /\ challenge[c].status = "pending"
        /\ UNCHANGED <<challenge, token, sessions, issued, performed>>
    BY <1>2 DEF PresentStepUp
  <2>4. HandlerInv'
    BY <2>1, <2>2, <2>3 DEF HandlerInv, TypeOK, Busy
  <2>5. OneWinner'
    BY <2>2 DEF OneWinner, TypeOK, Busy
  <2>6. HistoryInv'
    BY <2>1, <2>3 DEF HistoryInv, TypeOK
  <2>. QED
    BY <2>4, <2>5, <2>6
<1>3. CASE PresentJwt(r, c) \/ PresentJti(r, c)
  BY <1>3 DEF PresentJwt, PresentJti, HandlerInv, OneWinner, HistoryInv, TypeOK, Busy, Closed, StepUpKinds
<1>. QED
  BY <1>1, <1>2, <1>3 DEF Arrive

\* A row rewritten by recordAttempt keeps its kind, stays present, and stays
\* closed if it was.
LEMMA RewriteInv ==
    ASSUME IInv, NEW c \in Challenges, NEW new \in Row,
           new.kind = challenge[c].kind,
           challenge[c].status # "absent" => new.status # "absent",
           challenge[c].status \in Closed => new.status \in Closed,
           challenge' = [challenge EXCEPT ![c] = new],
           UNCHANGED <<token, sessions, proved, issued, performed>>
    PROVE  HistoryInv'
BY DEF IInv, HistoryInv, TypeOK

LEMMA ContinueInv ==
    ASSUME IInv, NEW r \in Requests, Continue(r)
    PROVE  HandlerInv' /\ OneWinner' /\ HistoryInv'
<1>. DEFINE c == request[r].ch
            row == challenge[c]
<1>. USE DEF IInv
<1>0. /\ request[r].stage # "idle" /\ c \in Challenges
      /\ row \in Row /\ row.status # "absent"
  <2>1. request[r].stage # "idle"
    BY DEF Continue, RecordExpired, RecordWrong, RecordUse, RecordConsumed,
           CreateSession, CreateToken, Reply, MarkConsumed, Perform
  <2>. QED
    BY <2>1 DEF TypeOK, HandlerInv
<1>1. CASE RecordExpired(r) \/ RecordWrong(r)
  <2>1. PICK new \in Row :
           /\ new.kind = row.kind
           /\ row.status # "pending" => new = row
           /\ row.status = "pending" => new.status \in {"pending", "failed", "expired"}
           /\ challenge' = [challenge EXCEPT ![c] = new]
    <3>1. CASE RecordExpired(r)
      <4>. DEFINE after == RecordAttempt(row, "expired", FALSE)
      <4>1. "expired" \in Statuses /\ FALSE \in BOOLEAN
        BY DEF Statuses
      <4>2. /\ after \in Row /\ after.kind = row.kind
            /\ row.status # "pending" => after = row
            /\ row.status = "pending" => after.status = "expired"
        BY <1>0, <4>1, RecordAttemptFacts, Zenon
      <4>3. challenge' = [challenge EXCEPT ![c] = after]
        BY <3>1 DEF RecordExpired
      <4>. QED
        BY <4>2, <4>3, Zenon
    <3>2. CASE RecordWrong(r)
      <4>. DEFINE after == AfterWrong(row, request[r].seen)
      <4>1. request[r].seen \in Nat
        BY DEF TypeOK
      <4>2. /\ after \in Row /\ after.kind = row.kind
            /\ row.status # "pending" => after = row
            /\ row.status = "pending" => after.status \in {"pending", "failed"}
        BY <1>0, <4>1, AfterWrongFacts, Zenon
      <4>3. challenge' = [challenge EXCEPT ![c] = after]
        BY <3>2 DEF RecordWrong
      <4>. QED
        BY <4>2, <4>3, Zenon
    <3>. QED
      BY <1>1, <3>1, <3>2, Zenon
  <2>2. /\ request' = [request EXCEPT ![r] = Idle]
        /\ UNCHANGED <<token, sessions, proved, issued, performed>>
    BY <1>1 DEF RecordExpired, RecordWrong
  <2>3. /\ new.status # "absent"
        /\ row.status \in Closed => new.status \in Closed
    BY <1>0, <2>1 DEF Closed
  <2>4. HistoryInv'
    BY <1>0, <2>1, <2>2, <2>3, RewriteInv
  <2>5. HandlerInv'
    BY <1>0, <2>1, <2>2, <2>3 DEF HandlerInv, TypeOK, Idle
  <2>6. OneWinner'
    BY <2>2 DEF OneWinner, TypeOK, Idle
  <2>. QED
    BY <2>4, <2>5, <2>6
<1>2. CASE RecordUse(r)
  BY <1>0, <1>2 DEF RecordUse, HandlerInv, OneWinner, HistoryInv, TypeOK
<1>3. CASE RecordConsumed(r)
  <2>1. PICK new \in Row :
           /\ new.kind = row.kind
           /\ row.status # "pending" => new = row
           /\ row.status = "pending" => new.status = "consumed"
           /\ challenge' = [challenge EXCEPT ![c] = new]
    <3>. DEFINE after == RecordAttempt(row, "consumed", TRUE)
    <3>1. "consumed" \in Statuses /\ TRUE \in BOOLEAN
      BY DEF Statuses
    <3>2. /\ after \in Row /\ after.kind = row.kind
          /\ row.status # "pending" => after = row
          /\ row.status = "pending" => after.status = "consumed"
      BY <1>0, <3>1, RecordAttemptFacts, Zenon
    <3>3. challenge' = [challenge EXCEPT ![c] = after]
      BY <1>3 DEF RecordConsumed
    <3>. QED
      BY <3>2, <3>3, Zenon
  <2>2. new.status \in Closed
    BY <1>0, <2>1 DEF Closed, Row, Statuses
  <2>3. /\ request' = [request EXCEPT ![r] = [@ EXCEPT !.stage =
                           IF row.kind = "login" THEN "session" ELSE "mint"]]
        /\ request[r].stage = "consume"
        /\ UNCHANGED <<token, sessions, proved, issued, performed>>
    BY <1>3 DEF RecordConsumed
  <2>4. HistoryInv'
    BY <1>0, <2>1, <2>2, <2>3, RewriteInv DEF Closed
  <2>5. HandlerInv'
    BY <1>0, <2>1, <2>2, <2>3 DEF HandlerInv, TypeOK, Closed
  <2>6. OneWinner'
    BY <1>0, <2>3 DEF OneWinner, TypeOK
  <2>. QED
    BY <2>4, <2>5, <2>6
<1>4. CASE CreateSession(r)
  BY <1>0, <1>4 DEF CreateSession, HandlerInv, OneWinner, HistoryInv, TypeOK, Idle
<1>5. CASE CreateToken(r)
  <2>1. CASE token[c] = "none"
    <3>1. \A q \in Requests : request[q].ch = c => request[q].stage \notin {"reply", "authorised"}
      BY <2>1 DEF HandlerInv
    <3>2. issued[c] = 0
      <4>1. issued[c] <= 1 /\ issued[c] # 1
        BY <1>0, <2>1 DEF HistoryInv
      <4>2. issued[c] \in Nat
        BY <1>0 DEF TypeOK
      <4>. QED
        BY <4>1, <4>2
    <3>. QED
      BY <1>0, <1>5, <2>1, <3>1, <3>2 DEF CreateToken, HandlerInv, OneWinner, HistoryInv, TypeOK
  <2>2. CASE token[c] # "none"
    <3>1. /\ request' = [request EXCEPT ![r] = Idle]
          /\ UNCHANGED <<challenge, token, sessions, proved, issued, performed>>
      BY <1>5, <2>2 DEF CreateToken
    <3>. QED
      BY <3>1 DEF HandlerInv, OneWinner, HistoryInv, TypeOK, Idle
  <2>. QED
    BY <2>1, <2>2
<1>6. CASE Reply(r)
  BY <1>0, <1>6 DEF Reply, HandlerInv, OneWinner, HistoryInv, TypeOK, Idle
<1>7. CASE MarkConsumed(r)
  <2>1. CASE token[c] = "live"
    <3>1. \A q \in Requests : request[q].ch = c => request[q].stage # "authorised"
      BY <2>1 DEF HandlerInv
    <3>2. performed[c] = 0
      BY <1>0, <2>1 DEF HistoryInv, TypeOK
    <3>. QED
      BY <1>0, <1>7, <2>1, <3>1, <3>2, SMTT(60) DEF MarkConsumed, HandlerInv, OneWinner, HistoryInv, TypeOK
  <2>2. CASE token[c] # "live"
    BY <1>0, <1>7, <2>2 DEF MarkConsumed, HandlerInv, OneWinner, HistoryInv, TypeOK, Idle
  <2>. QED
    BY <2>1, <2>2
<1>8. CASE Perform(r)
  BY <1>0, <1>8 DEF Perform, HandlerInv, OneWinner, HistoryInv, TypeOK, Idle
<1>. QED
  BY <1>1, <1>2, <1>3, <1>4, <1>5, <1>6, <1>7, <1>8 DEF Continue

LEMMA InvStep == IInv /\ [Next]_vars => IInv'
<1>. SUFFICES ASSUME IInv, [Next]_vars PROVE IInv'
  OBVIOUS
<1>. DEFINE Rest == HandlerInv /\ OneWinner /\ HistoryInv
<1>0. TypeOK'
  BY TypeStep DEF IInv
<1>1. ASSUME NEW c \in Challenges, Create(c) PROVE Rest'
  BY <1>1, CreateInv DEF Create, Kinds
<1>2. ASSUME NEW c \in Challenges, Elapse(c) PROVE Rest'
  BY <1>2 DEF Elapse, IInv, HandlerInv, OneWinner, HistoryInv
<1>3. ASSUME NEW r \in Requests, NEW c \in Challenges, Arrive(r, c) PROVE Rest'
  BY <1>3, ArriveInv
<1>4. ASSUME NEW r \in Requests, Continue(r) PROVE Rest'
  BY <1>4, ContinueInv
<1>5. ASSUME NEW r \in Requests, Abort(r) PROVE Rest'
  BY <1>5 DEF Abort, IInv, HandlerInv, OneWinner, HistoryInv, TypeOK, Idle
<1>6. ASSUME UNCHANGED vars PROVE Rest'
  BY <1>6 DEF vars, IInv, HandlerInv, OneWinner, HistoryInv
<1>. HIDE DEF Rest
<1>7. Rest'
  BY <1>1, <1>2, <1>3, <1>4, <1>5, <1>6 DEF Next
<1>. QED
  BY <1>0, <1>7 DEF Rest, IInv

LEMMA Inductive == Spec => []IInv
BY InvInit, InvStep, PTL DEF Spec

\* The JWT of a challenge leaves in at most one response, for any number of
\* requests verifying it at once (routes/stepup.ts, stepUpTokensRepo.create).
THEOREM OneJwt == Spec => []OneJwtPerChallenge
<1>1. IInv => OneJwtPerChallenge
  BY DEF IInv, HistoryInv, OneJwtPerChallenge
<1>. QED
  BY <1>1, Inductive, PTL

\* No token row without a verified factor on a step-up challenge.
THEOREM TokenProved == Spec => []TokenBackedByProof
<1>1. IInv => TokenBackedByProof
  BY DEF IInv, HistoryInv, TokenBackedByProof
<1>. QED
  BY <1>1, Inductive, PTL

\* A step-up authorises at most one operation, on either route that spends it.
THEOREM OneOperation == Spec => []OneOperationPerStepUp
<1>1. IInv => OneOperationPerStepUp
  BY DEF IInv, HistoryInv, OneOperationPerStepUp
<1>. QED
  BY <1>1, Inductive, PTL

\* A challenge that produced a session or a token row is closed.
THEOREM UsedIsClosed == Spec => []UsedChallengeIsClosed
<1>1. IInv => UsedChallengeIsClosed
  BY DEF IInv, HistoryInv, UsedChallengeIsClosed
<1>. QED
  BY <1>1, Inductive, PTL

\* recordAttempt is the only writer of a row that exists, and leaves a closed
\* one alone.
THEOREM ClosedFrozen == Spec => ClosedRowsFrozen
<1>. DEFINE Frozen == \A c \in Challenges :
                /\ challenge[c].status \in Closed => challenge'[c] = challenge[c]
                /\ challenge'[c].attempts \in {challenge[c].attempts, challenge[c].attempts + 1}
<1>1. IInv /\ [Next]_vars => [Frozen]_vars
  <2>. SUFFICES ASSUME IInv, Next PROVE Frozen
    BY DEF IInv
  <2>. USE DEF IInv, TypeOK
  <2>1. ASSUME UNCHANGED challenge PROVE Frozen
    BY <2>1
  <2>2. ASSUME NEW k \in Challenges, Create(k) PROVE Frozen
    BY <2>2 DEF Create, CreateAuthChallenge, CreateStepUpChallenge, NoRow, NewRow, Closed
  <2>3. ASSUME NEW k \in Challenges, NEW new \in Row,
               challenge' = [challenge EXCEPT ![k] = new],
               challenge[k].status # "pending" => new = challenge[k],
               new.attempts \in {challenge[k].attempts, challenge[k].attempts + 1}
        PROVE  Frozen
    BY <2>3 DEF Closed
  <2>4. ASSUME NEW r \in Requests, RecordExpired(r) PROVE Frozen
    <3>. DEFINE row == challenge[request[r].ch]
                after == RecordAttempt(row, "expired", FALSE)
    <3>1. request[r].ch \in Challenges /\ row \in Row
      BY <2>4 DEF RecordExpired
    <3>2. "expired" \in Statuses /\ FALSE \in BOOLEAN
      BY DEF Statuses
    <3>3. /\ after \in Row
          /\ row.status # "pending" => after = row
          /\ after.attempts \in {row.attempts, row.attempts + 1}
      BY <3>1, <3>2, RecordAttemptFacts, Zenon
    <3>4. challenge' = [challenge EXCEPT ![request[r].ch] = after]
      BY <2>4 DEF RecordExpired
    <3>. QED
      BY <3>1, <3>3, <3>4, <2>3, Zenon
  <2>5. ASSUME NEW r \in Requests, RecordConsumed(r) PROVE Frozen
    <3>. DEFINE row == challenge[request[r].ch]
                after == RecordAttempt(row, "consumed", TRUE)
    <3>1. request[r].ch \in Challenges /\ row \in Row
      BY <2>5 DEF RecordConsumed
    <3>2. "consumed" \in Statuses /\ TRUE \in BOOLEAN
      BY DEF Statuses
    <3>3. /\ after \in Row
          /\ row.status # "pending" => after = row
          /\ after.attempts \in {row.attempts, row.attempts + 1}
      BY <3>1, <3>2, RecordAttemptFacts, Zenon
    <3>4. challenge' = [challenge EXCEPT ![request[r].ch] = after]
      BY <2>5 DEF RecordConsumed
    <3>. QED
      BY <3>1, <3>3, <3>4, <2>3, Zenon
  <2>6. ASSUME NEW r \in Requests, RecordWrong(r) PROVE Frozen
    <3>. DEFINE row == challenge[request[r].ch]
                after == AfterWrong(row, request[r].seen)
    <3>1. request[r].ch \in Challenges /\ row \in Row /\ request[r].seen \in Nat
      BY <2>6 DEF RecordWrong
    <3>2. /\ after \in Row
          /\ row.status # "pending" => after = row
          /\ after.attempts \in {row.attempts, row.attempts + 1}
      BY <3>1, AfterWrongFacts, Zenon
    <3>3. challenge' = [challenge EXCEPT ![request[r].ch] = after]
      BY <2>6 DEF RecordWrong
    <3>. QED
      BY <3>1, <3>2, <3>3, <2>3, Zenon
  <2>7. ASSUME NEW r \in Requests, Continue(r) PROVE Frozen
    BY <2>7, <2>1, <2>4, <2>5, <2>6
       DEF Continue, RecordUse, CreateSession, CreateToken, Reply, MarkConsumed, Perform
  <2>8. ASSUME NEW r \in Requests, NEW c \in Challenges, Arrive(r, c) PROVE Frozen
    BY <2>8, <2>1 DEF Arrive, PresentLogin, PresentStepUp, PresentJwt, PresentJti
  <2>. HIDE DEF Frozen
  <2>. QED
    BY <2>1, <2>2, <2>7, <2>8 DEF Next, Elapse, Abort
<1>. QED
  BY <1>1, Inductive, PTL DEF Spec, ClosedRowsFrozen

-----------------------------------------------------------------------------
(* Wrong answers.  Those who read a small number of attempts leave the row *)
(* pending, however many there are by now.  None joins them once the row   *)
(* has had MaxOtpAttempts - 1, and each of them writes once.               *)

\* Wrong answers to c that will be recorded without closing it.
Lenient(c) == {r \in Requests : At(r, "fail") /\ request[r].ch = c /\ request[r].seen + 1 < MaxOtpAttempts}

GuessBound(c) ==
    LET n == challenge[c].attempts IN
        /\ n <= MaxOtpAttempts - 1 + Cardinality(Requests)
        /\ challenge[c].status = "pending" /\ n > 0 /\ n + 1 >= MaxOtpAttempts =>
              n + Cardinality(Lenient(c)) <= MaxOtpAttempts - 2 + Cardinality(Requests)

GuessInv == \A c \in Challenges : GuessBound(c)

LEMMA LenientFinite ==
    ASSUME NEW c \in Challenges
    PROVE  /\ IsFiniteSet(Lenient(c)) /\ Cardinality(Lenient(c)) \in Nat /\ Cardinality(Requests) \in Nat
           /\ Cardinality(Lenient(c)) <= Cardinality(Requests)
<1>1. Lenient(c) \in SUBSET Requests
  BY DEF Lenient
<1>. QED
  BY <1>1, StepUpAssumption, FS_Subset, FS_CardinalityType

LEMMA SomeRequest == ASSUME NEW r \in Requests PROVE Cardinality(Requests) \in Nat \ {0}
BY StepUpAssumption, FS_EmptySet, FS_CardinalityType

\* The row stays, and nobody becomes lenient after MaxOtpAttempts - 1 attempts.
LEMMA KeptRow ==
    ASSUME TypeOK, NEW c \in Challenges, GuessBound(c), challenge'[c] = challenge[c],
           challenge[c].attempts + 1 >= MaxOtpAttempts => Lenient(c)' \subseteq Lenient(c)
    PROVE  GuessBound(c)'
<1>1. challenge[c].attempts \in Nat
  BY DEF TypeOK, Row
<1>2. challenge[c].attempts + 1 >= MaxOtpAttempts =>
         Cardinality(Lenient(c)') \in Nat /\ Cardinality(Lenient(c)') <= Cardinality(Lenient(c))
  BY LenientFinite, FS_Subset, FS_CardinalityType
<1>. QED
  BY <1>1, <1>2, LenientFinite, MaxOtpAttemptsAssumption DEF GuessBound

\* One more attempt, which closes the row.
LEMMA ClosedRow ==
    ASSUME TypeOK, NEW c \in Challenges, NEW r \in Requests, GuessBound(c), challenge[c].status = "pending",
           challenge'[c].status # "pending",
           challenge'[c].attempts \in {challenge[c].attempts, challenge[c].attempts + 1}
    PROVE  GuessBound(c)'
<1>1. challenge[c].attempts \in Nat
  BY DEF TypeOK, Row
<1>. QED
  BY <1>1, LenientFinite, SomeRequest, MaxOtpAttemptsAssumption DEF GuessBound

LEMMA WrongRow ==
    ASSUME TypeOK, NEW r \in Requests, NEW c \in Challenges, c = request[r].ch, GuessBound(c), RecordWrong(r)
    PROVE  GuessBound(c)'
<1>. DEFINE row == challenge[c]
            after == AfterWrong(row, request[r].seen)
<1>1. /\ row \in Row /\ request[r].seen \in Nat /\ row.attempts \in Nat
      /\ At(r, "fail") /\ challenge'[c] = after
  BY DEF RecordWrong, TypeOK, Row
<1>2. request'[r] = Idle /\ \A s \in Requests : s # r => request'[s] = request[s]
  BY DEF RecordWrong, TypeOK
<1>3. Lenient(c)' = Lenient(c) \ {r}
  BY <1>2 DEF Lenient, Idle
<1>4. CASE row.status # "pending"
  <2>1. challenge'[c] = row
    BY <1>1, <1>4, AfterWrongFacts
  <2>. QED
    BY <1>1, <1>3, <2>1, KeptRow
<1>5. CASE row.status = "pending" /\ request[r].seen + 1 >= MaxOtpAttempts
  <2>1. after.status = "failed" /\ after.attempts = row.attempts + 1
    BY <1>1, <1>5 DEF AfterWrong, RecordAttempt, Row
  <2>. QED
    BY <1>1, <1>5, <2>1, ClosedRow
<1>6. CASE row.status = "pending" /\ request[r].seen + 1 < MaxOtpAttempts
  <2>1. after.status = "pending" /\ after.attempts = row.attempts + 1
    BY <1>1, <1>6, MaxOtpAttemptsAssumption DEF AfterWrong, RecordAttempt, Row
  <2>2. r \in Lenient(c)
    BY <1>1, <1>6 DEF Lenient
  <2>3. Cardinality(Lenient(c)') = Cardinality(Lenient(c)) - 1
    BY <1>1, <1>3, <2>2, LenientFinite, FS_RemoveElement
  <2>4. /\ row.attempts > 0 /\ row.attempts + 1 >= MaxOtpAttempts =>
              row.attempts + Cardinality(Lenient(c)) <= MaxOtpAttempts - 2 + Cardinality(Requests)
        /\ row.attempts <= MaxOtpAttempts - 1 + Cardinality(Requests)
    BY <1>6 DEF GuessBound
  <2>5. /\ Cardinality(Lenient(c)) \in Nat /\ Cardinality(Requests) \in Nat \ {0}
        /\ Cardinality(Lenient(c)) <= Cardinality(Requests) /\ MaxOtpAttempts >= 2
    BY <1>1, <1>6, LenientFinite, SomeRequest, MaxOtpAttemptsAssumption
  <2>6. row.attempts + Cardinality(Lenient(c)) <= MaxOtpAttempts - 2 + Cardinality(Requests)
    BY <1>1, <2>4, <2>5, MaxOtpAttemptsAssumption
  <2>7. Cardinality(Lenient(c)) >= 1
    BY <2>2, <1>1, LenientFinite, FS_EmptySet
  <2>8. /\ after.attempts <= MaxOtpAttempts - 1 + Cardinality(Requests)
        /\ after.attempts + Cardinality(Lenient(c)') <= MaxOtpAttempts - 2 + Cardinality(Requests)
    BY <1>1, <2>1, <2>3, <2>5, <2>6, <2>7, MaxOtpAttemptsAssumption
  <2>. QED
    BY <1>1, <2>8 DEF GuessBound
<1>. QED
  BY <1>1, <1>4, <1>5, <1>6, MaxOtpAttemptsAssumption

LEMMA GuessStep == TypeOK /\ GuessInv /\ [Next]_vars => GuessInv'
<1>. SUFFICES ASSUME TypeOK, GuessInv, [Next]_vars, NEW c \in Challenges PROVE GuessBound(c)'
  BY DEF GuessInv
<1>0. GuessBound(c) /\ challenge[c] \in Row
  BY DEF GuessInv, TypeOK
<1>1. ASSUME NEW k \in Challenges, Create(k) PROVE GuessBound(c)'
  <2>1. /\ challenge'[c] = challenge[c] \/ challenge'[c].attempts = 0
        /\ request' = request
    BY <1>1 DEF Create, CreateAuthChallenge, CreateStepUpChallenge, NewRow, TypeOK
  <2>2. CASE challenge'[c] = challenge[c]
    BY <1>0, <2>1, <2>2, KeptRow DEF Lenient
  <2>3. CASE challenge'[c].attempts = 0
    BY <2>3, LenientFinite, MaxOtpAttemptsAssumption DEF GuessBound
  <2>. QED
    BY <2>1, <2>2, <2>3
<1>2. ASSUME UNCHANGED <<challenge, request>> PROVE GuessBound(c)'
  BY <1>0, <1>2, KeptRow DEF Lenient
<1>3. ASSUME NEW r \in Requests, NEW k \in Challenges, Arrive(r, k) PROVE GuessBound(c)'
  <2>1. challenge' = challenge
    BY <1>3 DEF Arrive, PresentLogin, PresentStepUp, PresentJwt, PresentJti
  <2>2. /\ \A s \in Requests : s # r => request'[s] = request[s]
        /\ request'[r].stage = "fail" => request'[r].seen = challenge[k].attempts /\ request'[r].ch = k
    BY <1>3 DEF Arrive, PresentLogin, PresentStepUp, PresentJwt, PresentJti, Busy, TypeOK
  <2>3. challenge[c].attempts + 1 >= MaxOtpAttempts => Lenient(c)' \subseteq Lenient(c)
    BY <1>0, <2>2, MaxOtpAttemptsAssumption DEF Lenient, Row
  <2>. QED
    BY <1>0, <2>1, <2>3, KeptRow
<1>4. ASSUME NEW r \in Requests, Continue(r) \/ Abort(r) PROVE GuessBound(c)'
  <2>0. challenge' = challenge \/ RecordExpired(r) \/ RecordWrong(r) \/ RecordConsumed(r)
    BY <1>4 DEF Continue, RecordUse, CreateSession, CreateToken, Reply, MarkConsumed, Perform, Abort
  <2>1. /\ request'[r].stage # "fail"
        /\ \A s \in Requests : s # r => request'[s] = request[s]
    <3>1. CASE Finish(r)
      BY <3>1 DEF Idle, TypeOK
    <3>2. CASE \E s \in Stages \ {"fail"} : Go(r, s)
      BY <3>2 DEF TypeOK
    <3>. QED
      BY <1>4, <3>1, <3>2 DEF Continue, RecordExpired, RecordWrong, RecordUse, RecordConsumed, CreateSession,
                              CreateToken, Reply, MarkConsumed, Perform, Abort, Stages
  <2>2. Lenient(c)' \subseteq Lenient(c)
    BY <2>1 DEF Lenient
  <2>3. CASE challenge'[c] = challenge[c]
    BY <1>0, <2>2, <2>3, KeptRow
  <2>4. CASE challenge'[c] # challenge[c] /\ RecordWrong(r)
    <3>1. request[r].ch = c
      BY <2>4 DEF RecordWrong, TypeOK
    <3>. QED
      BY <1>0, <2>4, <3>1, WrongRow
  <2>5. CASE challenge'[c] # challenge[c] /\ (RecordExpired(r) \/ RecordConsumed(r))
    <3>1. request[r].ch = c
      BY <2>5 DEF RecordExpired, RecordConsumed, TypeOK
    <3>2. \/ challenge'[c] = RecordAttempt(challenge[c], "expired", FALSE)
          \/ challenge'[c] = RecordAttempt(challenge[c], "consumed", TRUE)
      BY <2>5, <3>1 DEF RecordExpired, RecordConsumed, TypeOK
    <3>3. challenge[c].status = "pending"
      BY <2>5, <3>2 DEF RecordAttempt
    <3>4. /\ challenge'[c].status # "pending"
          /\ challenge'[c].attempts \in {challenge[c].attempts, challenge[c].attempts + 1}
      BY <1>0, <3>2, <3>3 DEF RecordAttempt, Row
    <3>. QED
      BY <1>0, <3>3, <3>4, ClosedRow
  <2>. QED
    BY <2>0, <2>3, <2>4, <2>5
<1>. QED
  BY <1>1, <1>2, <1>3, <1>4 DEF Next, Elapse, vars

\* Wrong guesses beyond the limit are at most those of requests in flight
\* together, less one, for any limit and any number of requests.
THEOREM AttemptsBounded == Spec => []AttemptsBoundedByConcurrency
<1>1. Init => GuessInv
  BY LenientFinite, MaxOtpAttemptsAssumption DEF Init, GuessInv, GuessBound, NoRow
<1>2. TypeOK /\ GuessInv /\ [Next]_vars => GuessInv'
  BY GuessStep
<1>3. GuessInv => AttemptsBoundedByConcurrency
  BY DEF GuessInv, GuessBound, AttemptsBoundedByConcurrency
<1>. QED
  BY <1>1, <1>2, <1>3, TypeCorrect, PTL DEF Spec

-----------------------------------------------------------------------------
(* StepUp implements StepUpLedger under the mapping LedgerStage.           *)

LEMMA LedgerInit == Init => Ledger!Init
BY DEF Init, Ledger!Init, LedgerStage

\* A step that leaves token, proved and performed alone is a stuttering step
\* of the ledger; the others advance one challenge by one stage.
LEMMA LedgerStep == IInv /\ [Next]_vars => [Ledger!Next]_Ledger!ledgerVars
<1>. SUFFICES ASSUME IInv, [Next]_vars
              PROVE  Ledger!Next \/ UNCHANGED Ledger!ledgerVars
  OBVIOUS
<1>. USE DEF IInv
<1>1. ASSUME UNCHANGED <<token, proved, performed>> PROVE UNCHANGED Ledger!ledgerVars
  BY <1>1 DEF Ledger!ledgerVars, LedgerStage
<1>2. ASSUME NEW r \in Requests, NEW c \in Challenges, PresentStepUp(r, c), proved' # proved
      PROVE  Ledger!Next
  <2>1. proved' = proved \cup {c} /\ c \notin proved /\ UNCHANGED <<token, performed>>
    BY <1>2 DEF PresentStepUp
  <2>2. token[c] = "none"
    BY <2>1 DEF HistoryInv
  <2>3. Ledger!ProveFactor(c)
    BY <2>1, <2>2 DEF Ledger!ProveFactor, Ledger!Advance, LedgerStage
  <2>. QED
    BY <2>3 DEF Ledger!Next
<1>3. ASSUME NEW r \in Requests, CreateToken(r), token' # token PROVE Ledger!Next
  <2>. DEFINE c == request[r].ch
  <2>1. c \in Challenges /\ c \in proved
    BY <1>3 DEF CreateToken, HandlerInv, TypeOK
  <2>2. /\ token[c] = "none" /\ token' = [token EXCEPT ![c] = "live"]
        /\ UNCHANGED <<proved, performed>>
    BY <1>3 DEF CreateToken
  <2>3. Ledger!IssueToken(c)
    BY <2>1, <2>2 DEF Ledger!IssueToken, Ledger!Advance, LedgerStage, TypeOK
  <2>. QED
    BY <2>1, <2>3 DEF Ledger!Next
<1>4. ASSUME NEW r \in Requests, MarkConsumed(r), token' # token PROVE Ledger!Next
  <2>. DEFINE c == request[r].ch
  <2>1. c \in Challenges
    BY <1>4 DEF MarkConsumed, TypeOK
  <2>2. /\ token[c] = "live" /\ token' = [token EXCEPT ![c] = "consumed"]
        /\ UNCHANGED <<proved, performed>>
    BY <1>4 DEF MarkConsumed
  <2>3. Ledger!SpendToken(c)
    BY <2>1, <2>2 DEF Ledger!SpendToken, Ledger!Advance, LedgerStage, TypeOK
  <2>. QED
    BY <2>1, <2>3 DEF Ledger!Next
<1>5. ASSUME NEW r \in Requests, Perform(r) PROVE Ledger!Next
  <2>. DEFINE c == request[r].ch
  <2>1. c \in Challenges /\ token[c] = "consumed" /\ performed[c] = 0
    BY <1>5 DEF Perform, HandlerInv, TypeOK
  <2>2. performed' = [performed EXCEPT ![c] = 1] /\ UNCHANGED <<token, proved>>
    BY <1>5, <2>1 DEF Perform, TypeOK
  <2>3. Ledger!Operate(c)
    BY <2>1, <2>2 DEF Ledger!Operate, LedgerStage
  <2>. QED
    BY <2>1, <2>3 DEF Ledger!Next
<1>6. ASSUME NEW r \in Requests, Continue(r) PROVE Ledger!Next \/ UNCHANGED Ledger!ledgerVars
  <2>1. CASE CreateToken(r)
    BY <1>1, <1>3, <2>1 DEF CreateToken
  <2>2. CASE MarkConsumed(r)
    BY <1>1, <1>4, <2>2 DEF MarkConsumed
  <2>. QED
    BY <1>1, <1>5, <1>6, <2>1, <2>2 DEF Continue, RecordExpired, RecordWrong, RecordUse,
                                         RecordConsumed, CreateSession, Reply
<1>7. ASSUME NEW r \in Requests, NEW c \in Challenges, Arrive(r, c)
      PROVE  Ledger!Next \/ UNCHANGED Ledger!ledgerVars
  <2>1. CASE PresentStepUp(r, c)
    BY <1>1, <1>2, <2>1 DEF PresentStepUp
  <2>. QED
    BY <1>1, <1>7, <2>1 DEF Arrive, PresentLogin, PresentJwt, PresentJti
<1>. QED
  BY <1>1, <1>6, <1>7 DEF Next, Create, CreateAuthChallenge,
                          CreateStepUpChallenge, Elapse, Abort, vars

\* Every behaviour of the handlers is a behaviour of the ledger.
THEOREM LedgerRefinement == Spec => ImplementsLedger
BY LedgerInit, LedgerStep, Inductive, PTL DEF Spec, ImplementsLedger, Ledger!Spec
=============================================================================
