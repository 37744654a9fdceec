----------------------------- MODULE PhoneChange -----------------------------
(***************************************************************************)
(* Moving an account to another number: routes/phoneChange.ts over the     *)
(* phone_changes, phone_records and auth_challenges tables.                *)
(*                                                                         *)
(* A change is named by the step-up token that authorises it; StepUp shows *)
(* that a token is issued only for a proved factor.  As there, a handler   *)
(* is one action per statement and request[r] holds what it has read.      *)
(***************************************************************************)
EXTENDS AuthChallenges, FiniteSets

CONSTANTS Accounts,
          Phones,           \* phone hashes
          Changes,          \* phone_changes rows, with their step-up JTI and OTP row
          Requests,         \* handlers that can be in flight together
          NoPhone, NoAccount, NoChange

ASSUME PhoneChangeAssumption == /\ NoPhone \notin Phones
                                /\ NoAccount \notin Accounts
                                /\ NoChange \notin Changes
                                /\ IsFiniteSet(Requests)

VARIABLES phone,        \* phone_records.phone_hash of each account
          cooling,      \* accounts whose cooldown_until lies ahead
          asked,        \* what each spent step-up token was spent on
          change,       \* phone_changes rows
          challenge,    \* the auth_challenges row challenge_new_id points to
          lapsed,       \* changes whose expires_at has passed
          request,      \* handlers in flight
          swaps,        \* history: times a change was written to phone_records
          events,       \* history: PHONE_CHANGED events published for it
          grace,        \* history: changes that were under way when a cooldown began
          cut           \* history: changes whose handler ended between their row, move and event

vars == <<phone, cooling, asked, change, challenge, lapsed, request, swaps, events, grace, cut>>

Methods == {"otp_to_old_phone", "otp_to_new_phone"}

NoAsk   == [acct |-> NoAccount, new |-> NoPhone, method |-> "none"]
NoRecord == [acct |-> NoAccount, new |-> NoPhone, state |-> "absent"]

Asked(c) == asked[c].method # "none"

Active   == {"cooldown_active"}    \* 'initiated' is in the CHECK but never written
Terminal == {"completed", "cancelled"}

Stages == {"idle", "lookup", "collide", "supersede", "cancel", "create", "insert",
           "swap", "check", "wrong", "drop", "consume", "complete", "publish"}

\* acct is the :uuid of the path, target the row about to be cancelled, seen
\* the attempts_used read before the OTP was compared.
Busy(stage, c, a, target, seen) ==
    [stage |-> stage, ch |-> c, acct |-> a, target |-> target, seen |-> seen]

Idle == Busy("idle", NoChange, NoAccount, NoChange, 0)

\* A handler in flight has a change and an account, and a row if it cancels one.
RequestOK ==
    /\ request \in [Requests -> [stage : Stages, ch : Changes \cup {NoChange},
                                 acct : Accounts \cup {NoAccount},
                                 target : Changes \cup {NoChange}, seen : Nat]]
    /\ \A r \in Requests :
          /\ request[r].stage # "idle" => request[r].ch \in Changes /\ request[r].acct \in Accounts
          /\ request[r].stage = "cancel" => request[r].target \in Changes

TypeOK ==
    /\ phone \in [Accounts -> Phones \cup {NoPhone}]
    /\ cooling \subseteq Accounts
    /\ asked \in [Changes -> [acct : Accounts \cup {NoAccount}, new : Phones \cup {NoPhone},
                              method : Methods \cup {"none"}]]
    /\ change \in [Changes -> [acct : Accounts \cup {NoAccount}, new : Phones \cup {NoPhone},
                               state : {"absent"} \cup Active \cup Terminal]]
    /\ challenge \in [Changes -> Row]
    /\ lapsed \subseteq Changes
    /\ RequestOK
    /\ swaps \in [Changes -> Nat]
    /\ events \in [Changes -> Nat]
    /\ grace \subseteq Changes
    /\ cut \subseteq Changes

Init ==
    /\ phone = [a \in Accounts |-> NoPhone]
    /\ cooling = {}
    /\ asked = [c \in Changes |-> NoAsk]
    /\ change = [c \in Changes |-> NoRecord]
    /\ challenge = [c \in Changes |-> NoRow]
    /\ lapsed = {}
    /\ request = [r \in Requests |-> Idle]
    /\ swaps = [c \in Changes |-> 0]
    /\ events = [c \in Changes |-> 0]
    /\ grace = {}
    /\ cut = {}

At(r, s)  == request[r].stage = s
Go(r, s)  == request' = [request EXCEPT ![r] = [@ EXCEPT !.stage = s]]
Finish(r) == request' = [request EXCEPT ![r] = Idle]

Taken(p, a) == \E b \in Accounts \ {a} : phone[b] = p

-----------------------------------------------------------------------------
(* The world around the handlers.                                          *)

\* customersRepo.create: one transaction, and phone_hash is unique.
CreateCustomer(a, p) ==
    /\ phone[a] = NoPhone
    /\ ~Taken(p, a)
    /\ phone' = [phone EXCEPT ![a] = p]
    /\ UNCHANGED <<cooling, asked, change, challenge, lapsed, request, swaps, events, grace, cut>>

\* cooldown_until passes.
CooldownEnds(a) ==
    /\ a \in cooling
    /\ cooling' = cooling \ {a}
    /\ UNCHANGED <<phone, asked, change, challenge, lapsed, request, swaps, events, grace, cut>>

\* expires_at of an awaiting change passes.
Elapse(c) ==
    /\ change[c].state \in Active
    /\ c \notin lapsed
    /\ lapsed' = lapsed \cup {c}
    /\ UNCHANGED <<phone, cooling, asked, change, challenge, request, swaps, events, grace, cut>>

-----------------------------------------------------------------------------
(* POST .../phone-change.                                                  *)

\* stepupVerifier.verify spends the token (its subject is the path's account),
\* then findById finds the account.
VerifyStepUp(r, c, a, p, m) ==
    /\ At(r, "idle")
    /\ ~Asked(c)
    /\ phone[a] # NoPhone
    /\ asked' = [asked EXCEPT ![c] = [acct |-> a, new |-> p, method |-> m]]
    /\ request' = [request EXCEPT ![r] = Busy("lookup", c, a, NoChange, 0)]
    /\ UNCHANGED <<phone, cooling, change, challenge, lapsed, swaps, events, grace, cut>>

\* Mutant: cooldown_until is not looked at.
LookUpPhoneHot(r) ==
    /\ At(r, "lookup")
    /\ IF asked[request[r].ch].new = phone[request[r].acct] THEN Finish(r) ELSE Go(r, "collide")
    /\ UNCHANGED <<phone, cooling, asked, change, challenge, lapsed, swaps, events, grace, cut>>

\* getPhoneRecord: refuse during cooldown and when the number does not change.
LookUpPhone(r) ==
    /\ At(r, "lookup")
    /\ IF request[r].acct \in cooling \/ asked[request[r].ch].new = phone[request[r].acct]
       THEN Finish(r)
       ELSE Go(r, "collide")
    /\ UNCHANGED <<phone, cooling, asked, change, challenge, lapsed, swaps, events, grace, cut>>

\* findByPhoneHash: refuse a number another account holds.
CheckCollision(r) ==
    /\ At(r, "collide")
    /\ IF Taken(asked[request[r].ch].new, request[r].acct)
       THEN Finish(r)
       ELSE Go(r, "supersede")
    /\ UNCHANGED <<phone, cooling, asked, change, challenge, lapsed, swaps, events, grace, cut>>

ActiveFor(a) == {c \in Changes : change[c].acct = a /\ change[c].state \in Active}

\* findActiveForAccount: LIMIT 1 without ORDER BY, so any active row.
FindActive(r) ==
    /\ At(r, "supersede")
    /\ \/ \E t \in ActiveFor(request[r].acct) :
             request' = [request EXCEPT ![r] = Busy("cancel", @.ch, @.acct, t, 0)]
       \/ /\ ActiveFor(request[r].acct) = {}
          /\ Go(r, "create")
    /\ UNCHANGED <<phone, cooling, asked, change, challenge, lapsed, swaps, events, grace, cut>>

\* cancel(): UPDATE ... WHERE state IN ('initiated', 'cooldown_active').
Cancelled(row) == IF row.state \in Active THEN [row EXCEPT !.state = "cancelled"] ELSE row

\* cancel(existing.id, 'superseded_by_new_initiate').
CancelPrior(r) ==
    /\ At(r, "cancel")
    /\ change' = [change EXCEPT ![request[r].target] = Cancelled(@)]
    /\ request' = [request EXCEPT ![r] = Busy("create", @.ch, @.acct, NoChange, 0)]
    /\ UNCHANGED <<phone, cooling, asked, challenge, lapsed, swaps, events, grace, cut>>

Insert(c, state) ==
    change' = [change EXCEPT ![c] = [acct |-> asked[c].acct, new |-> asked[c].new, state |-> state]]

\* Method 1 inserts the row as 'completed' (the complete() after it matches no
\* row); method 2 first inserts the challenge for the new number.
Create(r) ==
    LET c == request[r].ch IN
    /\ At(r, "create")
    /\ \/ /\ asked[c].method = "otp_to_old_phone"
          /\ Insert(c, "completed")
          /\ Go(r, "swap")
          /\ UNCHANGED challenge
       \/ /\ asked[c].method = "otp_to_new_phone"
          /\ challenge' = [challenge EXCEPT ![c] = NewRow("phone_change")]
          /\ Go(r, "insert")
          /\ UNCHANGED change
    /\ UNCHANGED <<phone, cooling, asked, lapsed, swaps, events, grace, cut>>

\* Method 2 inserts the row, publishes STEP_UP_REQUIRED, audits and answers.
InsertChange(r) ==
    /\ At(r, "insert")
    /\ Insert(request[r].ch, "cooldown_active")
    /\ Finish(r)
    /\ UNCHANGED <<phone, cooling, asked, challenge, lapsed, swaps, events, grace, cut>>

-----------------------------------------------------------------------------
(* POST .../phone-change/confirm.                                          *)

Confirming(r, c, a, stage) ==
    request' = [request EXCEPT ![r] = Busy(stage, c, a, NoChange, 0)]

\* Mutant: change.accountId is not compared with the path's account.
ReadChangeAnyAccount(r, c, a) ==
    /\ At(r, "idle")
    /\ phone[a] # NoPhone
    /\ change[c].state \in Active
    /\ Confirming(r, c, a, IF c \in lapsed THEN "drop" ELSE "check")
    /\ UNCHANGED <<phone, cooling, asked, change, challenge, lapsed, swaps, events, grace, cut>>

\* findById and the guards on account, state and expiry.
ReadChange(r, c, a) ==
    /\ At(r, "idle")
    /\ change[c].acct = a
    /\ change[c].state \in Active
    /\ Confirming(r, c, a, IF c \in lapsed THEN "drop" ELSE "check")
    /\ UNCHANGED <<phone, cooling, asked, change, challenge, lapsed, swaps, events, grace, cut>>

\* Mutant: the code is compared whatever the status of the challenge.
CheckOtpClosed(r) ==
    LET c == request[r].ch IN
    /\ At(r, "check")
    /\ \/ request' = [request EXCEPT ![r] =
                            Busy("wrong", c, @.acct, NoChange, challenge[c].attempts)]
       \/ Go(r, "consume")
    /\ UNCHANGED <<phone, cooling, asked, change, challenge, lapsed, swaps, events, grace, cut>>

\* challengesRepo.findById and verifyOtp.
CheckOtp(r) ==
    LET c == request[r].ch IN
    /\ At(r, "check")
    /\ \/ /\ challenge[c].status # "pending"
          /\ Confirming(r, c, request[r].acct, "drop")
       \/ /\ challenge[c].status = "pending"
          /\ request' = [request EXCEPT ![r] =
                            Busy("wrong", c, @.acct, NoChange, challenge[c].attempts)]
       \/ /\ challenge[c].status = "pending"
          /\ Go(r, "consume")
    /\ UNCHANGED <<phone, cooling, asked, change, challenge, lapsed, swaps, events, grace, cut>>

\* recordAttempt after a wrong code; the last allowed one also cancels.
RecordWrong(r) ==
    LET c == request[r].ch IN
    /\ At(r, "wrong")
    /\ challenge' = [challenge EXCEPT ![c] = AfterWrong(@, request[r].seen)]
    /\ IF request[r].seen + 1 >= MaxOtpAttempts
       THEN Confirming(r, c, request[r].acct, "drop")
       ELSE Finish(r)
    /\ UNCHANGED <<phone, cooling, asked, change, lapsed, swaps, events, grace, cut>>

\* cancel() with reason awaiting_confirmation_expired, challenge_<status> or
\* max_otp_attempts, then the error response.
Drop(r) ==
    /\ At(r, "drop")
    /\ change' = [change EXCEPT ![request[r].ch] = Cancelled(@)]
    /\ Finish(r)
    /\ UNCHANGED <<phone, cooling, asked, challenge, lapsed, swaps, events, grace, cut>>

\* recordAttempt(status: 'consumed'), whose result is not looked at, and
\* getPhoneRecord, which is only read for the event.
Consume(r) ==
    /\ At(r, "consume")
    /\ challenge' = [challenge EXCEPT ![request[r].ch] = RecordAttempt(@, "consumed", TRUE)]
    /\ Go(r, "swap")
    /\ UNCHANGED <<phone, cooling, asked, change, lapsed, swaps, events, grace, cut>>

-----------------------------------------------------------------------------
(* The end both methods share.                                             *)

\* A change that has passed the check of the cooldown and may still be applied.
UnderWay(c) == \/ change[c].state \in Active
               \/ \E r \in Requests : request[r].ch = c /\ ~At(r, "lookup")

\* swapPhone sets cooldown_until anew; grace is fixed when a cooldown begins.
CoolDown(a) ==
    /\ cooling' = cooling \cup {a}
    /\ grace' = IF a \in cooling THEN grace
                ELSE {c \in Changes : IF asked[c].acct = a THEN UnderWay(c) ELSE c \in grace}

\* r has written some of what a change comes to, and has yet to write the rest.
Midway(r) == \/ request[r].stage \in {"complete", "publish"}
             \/ At(r, "swap") /\ asked[request[r].ch].method = "otp_to_old_phone"

\* r ends where it stands.
CutShort(r) == /\ cut' = cut \cup {c \in Changes : Midway(r) /\ c = request[r].ch}
               /\ Finish(r)

\* Mutant: a refused swap is taken for a done one.
SwapPhoneIgnoreConflict(r) ==
    LET c == request[r].ch  a == request[r].acct IN
    /\ At(r, "swap")
    /\ \/ Taken(asked[c].new, a) /\ UNCHANGED <<phone, cooling, swaps, grace, cut>>
       \/ /\ ~Taken(asked[c].new, a)
          /\ phone' = [phone EXCEPT ![a] = asked[c].new]
          /\ CoolDown(a)
          /\ swaps' = [swaps EXCEPT ![c] = @ + 1]
          /\ UNCHANGED cut
    /\ Go(r, IF asked[c].method = "otp_to_new_phone" THEN "complete" ELSE "publish")
    /\ UNCHANGED <<asked, change, challenge, lapsed, events>>

\* swapPhone: a number that has been taken meanwhile throws on the unique
\* index.  Nothing here looks at the cooldown or at the change's state again.
SwapPhone(r) ==
    LET c == request[r].ch  a == request[r].acct IN
    /\ At(r, "swap")
    /\ \/ /\ Taken(asked[c].new, a)
          /\ CutShort(r)
          /\ UNCHANGED <<phone, cooling, swaps, grace>>
       \/ /\ ~Taken(asked[c].new, a)
          /\ phone' = [phone EXCEPT ![a] = asked[c].new]
          /\ CoolDown(a)
          /\ swaps' = [swaps EXCEPT ![c] = @ + 1]
          /\ UNCHANGED cut
          /\ Go(r, IF asked[c].method = "otp_to_new_phone" THEN "complete" ELSE "publish")
    /\ UNCHANGED <<asked, change, challenge, lapsed, events>>

\* complete(): UPDATE ... WHERE state = 'cooldown_active'.
Completed(row) == IF row.state \in Active THEN [row EXCEPT !.state = "completed"] ELSE row

\* The handler goes on whether or not complete() updated a row.
Complete(r) ==
    /\ At(r, "complete")
    /\ change' = [change EXCEPT ![request[r].ch] = Completed(@)]
    /\ Go(r, "publish")
    /\ UNCHANGED <<phone, cooling, asked, challenge, lapsed, swaps, events, grace, cut>>

\* eventProducer.publish of PHONE_CHANGED, the audit entry and the answer.
Publish(r) ==
    /\ At(r, "publish")
    /\ events' = [events EXCEPT ![request[r].ch] = @ + 1]
    /\ Finish(r)
    /\ UNCHANGED <<phone, cooling, asked, change, challenge, lapsed, swaps, grace, cut>>

\* The process dies or a statement throws.
Abort(r) ==
    /\ ~At(r, "idle")
    /\ CutShort(r)
    /\ UNCHANGED <<phone, cooling, asked, change, challenge, lapsed, swaps, events, grace>>

-----------------------------------------------------------------------------
Surroundings == \/ \E a \in Accounts, p \in Phones : CreateCustomer(a, p)
                \/ \E a \in Accounts : CooldownEnds(a)
                \/ \E c \in Changes : Elapse(c)

Arrive(r) == \/ \E c \in Changes, a \in Accounts, p \in Phones, m \in Methods :
                   VerifyStepUp(r, c, a, p, m)
             \/ \E c \in Changes, a \in Accounts : ReadChange(r, c, a)

Continue(r) == \/ LookUpPhone(r) \/ CheckCollision(r) \/ FindActive(r) \/ CancelPrior(r)
               \/ Create(r) \/ InsertChange(r) \/ CheckOtp(r) \/ RecordWrong(r) \/ Drop(r)
               \/ Consume(r) \/ SwapPhone(r) \/ Complete(r) \/ Publish(r)

Next == Surroundings \/ \E r \in Requests : Arrive(r) \/ Continue(r) \/ Abort(r)

Spec == Init /\ [][Next]_vars

-----------------------------------------------------------------------------
(* Properties.                                                             *)

\* Whatever passes the collision check at the same time, a number is bound to
\* one account at most.
PhonesUnique == \A a, b \in Accounts : phone[a] = phone[b] /\ phone[a] # NoPhone => a = b

\* A number reaches phone_records only on proof: method 1 writes it once for
\* its token, method 2 only after the challenge was closed for good.  The write
\* itself is not conditional, and a confirm that dies before complete() leaves
\* the change active; yet the code cannot be used again and again: method 2
\* writes no more often than there were confirms that could compare it together.
SwapNeedsProof ==
    \A c \in Changes : swaps[c] > 0 =>
        \/ asked[c].method = "otp_to_old_phone" /\ swaps[c] = 1
        \/ /\ asked[c].method = "otp_to_new_phone" /\ challenge[c].status \in Closed
           /\ swaps[c] <= Cardinality(Requests)

CompletedAndAnnouncedMoved ==
    \A c \in Changes :
        /\ change[c].state = "completed" /\ asked[c].method = "otp_to_new_phone" => swaps[c] > 0
        /\ events[c] > 0 => swaps[c] > 0

\* A handler that is about to do more for c.
Finishing(c) == \E r \in Requests : request[r].ch = c /\ Midway(r)

NothingLeftUndone ==
    \A c \in Changes \ cut : ~Finishing(c) =>
        /\ change[c].state = "completed" => swaps[c] > 0
        /\ swaps[c] > 0 => change[c].state \in Terminal /\ events[c] > 0

\* A completed method-2 change really moved the account, even if the process
\* died right after, and no event announces a move that was not made.  A
\* completed row, a move and its event are not without each other but where a
\* handler is about to do the rest, or was cut short: it died, or had inserted
\* a completed row for a number that was taken meanwhile.
ChangesAreWhole == CompletedAndAnnouncedMoved /\ NothingLeftUndone

\* The cooldown is looked at where a change is initiated, and nowhere else.  So
\* it lets pass what was under way when it began, prolonged or not: no change
\* that is initiated while the account cools is ever applied in that time,
\* whatever confirms and initiates overlap.
CooldownHolds ==
    [][\A c \in Changes : swaps'[c] # swaps[c] /\ asked[c].acct \in cooling => c \in grace]_vars

\* completed and cancelled are final: a late cancel (expiry, last wrong code, a
\* newer initiate) never undoes a completed row, nor a late complete a
\* cancelled one.
TerminalRowsFrozen ==
    [][\A c \in Changes : change[c].state \in Terminal => change'[c] = change[c]]_vars

\* The handlers implement the directory: numbers move only as authorised.
Directory ==
    INSTANCE PhoneDirectory WITH
        authorised <- {<<asked[c].acct, asked[c].new>> : c \in {d \in Changes : Asked(d)}}

ImplementsDirectory == Directory!Spec

\* The inductive invariant: what each handler may rely on where it stands.  An
\* initiate handler is alone on its change because it alone spent the token.
InitiateStages == {"lookup", "collide", "supersede", "cancel", "create", "insert"}
ConfirmStages  == {"check", "wrong", "drop", "consume", "complete"}

Alone(r) == \A s \in Requests : request[s].ch = request[r].ch => s = r

OldMethod(c) == asked[c].method = "otp_to_old_phone"
NewMethod(c) == asked[c].method = "otp_to_new_phone"

HandlerInv ==
    \A r \in Requests : LET c == request[r].ch IN
        /\ At(r, "idle") => c = NoChange
        /\ ~At(r, "idle") => Asked(c) /\ asked[c].acct = request[r].acct
        /\ request[r].stage \in InitiateStages =>
              change[c].state = "absent" /\ swaps[c] = 0 /\ Alone(r)
        /\ At(r, "insert") => NewMethod(c)
        /\ request[r].stage \in ConfirmStages => NewMethod(c) /\ change[c].state # "absent"
        /\ request[r].stage \in {"wrong", "consume"} => challenge[c].status # "absent"
        /\ At(r, "swap") /\ OldMethod(c) => swaps[c] = 0 /\ Alone(r)
        /\ At(r, "swap") /\ NewMethod(c) => change[c].state # "absent" /\ challenge[c].status \in Closed
        /\ request[r].stage \in {"complete", "publish"} => swaps[c] > 0

HistoryInv ==
    \A c \in Changes :
        /\ change[c].state # "absent" => /\ Asked(c)
                                         /\ change[c].acct = asked[c].acct
                                         /\ change[c].new = asked[c].new
        /\ swaps[c] > 0 => Asked(c)
        /\ Asked(c) => /\ asked[c].acct \in Accounts /\ asked[c].new \in Phones
                       /\ phone[asked[c].acct] # NoPhone
        /\ OldMethod(c) => change[c].state \notin Active /\ swaps[c] <= 1
        /\ NewMethod(c) /\ swaps[c] > 0 => challenge[c].status \in Closed
        /\ NewMethod(c) /\ change[c].state = "completed" => swaps[c] > 0
        /\ events[c] > 0 => swaps[c] > 0

IInv == TypeOK /\ PhonesUnique /\ HandlerInv /\ HistoryInv

\* phoneChange.ts: "Cancel any prior in-flight phone-change for this account."
CancelledNeverApplied ==
    [][\A c \in Changes : change[c].state = "cancelled" => swaps'[c] = swaps[c]]_vars
=============================================================================
