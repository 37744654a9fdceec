--------------------------- MODULE OperatorSession ---------------------------
(***************************************************************************)
(* Operators of the rail and their security keys: routes/operatorSession.ts *)
(* (users, registration options, registration), the operator half of       *)
(* routes/stepup.ts (challenge, assertion, token), the repositories        *)
(* operatorUsers.ts and operatorWebauthnCredentials.ts, and the stub of    *)
(* services/webauthnAdapter.ts.                                            *)
(***************************************************************************)
EXTENDS AuthChallenges, FiniteSets

CONSTANTS Users,          \* ids (opu_<ULID>) that can be generated
          Emails,
          Keys,           \* authenticators, by their credential_id
          Challenges,     \* challenge ids that can be generated
          Requests,       \* handlers that can be in flight together
          MaxCounter,     \* bound on signature counters
          NoUser, NoEmail, NoKey, NoChallenge

ASSUME OperatorAssumption ==
    /\ NoUser \notin Users /\ NoEmail \notin Emails
    /\ NoKey \notin Keys /\ NoChallenge \notin Challenges
    /\ MaxCounter \in Nat

VARIABLES user,         \* operator_users rows
          credential,   \* operator_webauthn_credentials rows
          challenge,    \* auth_challenges rows, with operator_user_id
          elapsed,      \* challenges whose expires_at has passed
          token,        \* challenges with a step_up_tokens row
          request,      \* handlers in flight
          enrolled,     \* history: users and keys that a 201 joined
          shown,        \* history: keys that answered a challenge
          uses,         \* history: how often a key's use was recorded
          crossed       \* history: keys two requests used together

vars == <<user, credential, challenge, elapsed, token, request, enrolled, shown, uses, crossed>>

OperatorKinds == {"operator", "register", "none"}

Stages == {"idle", "options", "enrol", "enrolled", "keys", "challenge",
           "expire", "assert", "fail", "use", "consume", "mint"}

Idle == [stage |-> "idle", user |-> NoUser, key |-> NoKey, ch |-> NoChallenge, seen |-> 0]

TypeOK ==
    /\ user \in [Users -> [status : {"absent", "active", "disabled"}, email : Emails \cup {NoEmail}]]
    /\ credential \in [Keys -> [user : Users \cup {NoUser}, counter : Nat]]
    /\ challenge \in [Challenges -> [status : Statuses, kind : OperatorKinds, attempts : Nat,
                                     user : Users \cup {NoUser}]]
    /\ elapsed \in SUBSET Challenges
    /\ token \in SUBSET Challenges
    /\ request \in [Requests -> [stage : Stages, user : Users \cup {NoUser}, key : Keys \cup {NoKey},
                                 ch : Challenges \cup {NoChallenge}, seen : Nat]]
    /\ enrolled \in SUBSET (Users \X Keys)
    /\ shown \in SUBSET (Challenges \X Keys)
    /\ uses \in [Keys -> Nat]
    /\ crossed \in SUBSET Keys

Unregistered == [user |-> NoUser, counter |-> 0]
Unmade       == [status |-> "absent", kind |-> "none", attempts |-> 0, user |-> NoUser]

Init ==
    /\ user = [u \in Users |-> [status |-> "absent", email |-> NoEmail]]
    /\ credential = [k \in Keys |-> Unregistered]
    /\ challenge = [c \in Challenges |-> Unmade]
    /\ elapsed = {} /\ token = {}
    /\ request = [r \in Requests |-> Idle]
    /\ enrolled = {} /\ shown = {} /\ crossed = {}
    /\ uses = [k \in Keys |-> 0]

At(r, s)  == request[r].stage = s
Set(r, q) == request' = [request EXCEPT ![r] = q]
Go(r, s)  == request' = [request EXCEPT ![r].stage = s]
Finish(r) == Set(r, Idle)

history == <<enrolled, shown, uses, crossed>>

\* A new challenge id.
Fresh(c) == challenge[c] = Unmade /\ \A s \in Requests : request[s].ch # c

\* challengesRepo.create with an operator_user_id.
NewChallenge(r, kind) ==
    challenge' = [challenge EXCEPT ![request[r].ch] =
        [status |-> "pending", kind |-> kind, attempts |-> 0, user |-> request[r].user]]

-----------------------------------------------------------------------------
(* Users and registration.                                                 *)

\* POST /v1/operator/users: one INSERT, refused where the email is taken.
CreateUser(u, e) ==
    /\ user[u].status = "absent"
    /\ \A v \in Users : user[v].email # e
    /\ user' = [user EXCEPT ![u] = [status |-> "active", email |-> e]]
    /\ UNCHANGED <<credential, challenge, elapsed, token, request, history>>

\* The schema and the guards know disabled users; no route makes one.
Disable(u) ==
    /\ user[u].status = "active"
    /\ user' = [user EXCEPT ![u].status = "disabled"]
    /\ UNCHANGED <<credential, challenge, elapsed, token, request, history>>

\* POST .../webauthn/options: findById finds the user active.
AskOptions(r, u, c) ==
    /\ At(r, "idle")
    /\ user[u].status = "active"
    /\ Fresh(c)
    /\ Set(r, [Idle EXCEPT !.stage = "options", !.user = u, !.ch = c])
    /\ UNCHANGED <<user, credential, challenge, elapsed, token, history>>

\* The row of the registration challenge.
InsertOptions(r) ==
    /\ At(r, "options")
    /\ NewChallenge(r, "register")
    /\ Finish(r)
    /\ UNCHANGED <<user, credential, elapsed, token, history>>

\* POST .../webauthn/register: the user exists, findByCredentialId finds
\* nothing, and the client data is of the challenge that the request states.
\* The rows of registration challenges are not looked at.
AskRegister(r, u, k) ==
    /\ At(r, "idle")
    /\ user[u].status # "absent"
    /\ credential[k] = Unregistered
    /\ Set(r, [Idle EXCEPT !.stage = "enrol", !.user = u, !.key = k])
    /\ UNCHANGED <<user, credential, challenge, elapsed, token, history>>

\* Mutant: ON CONFLICT (credential_id_b64) DO UPDATE.
EnrolAgain(r) ==
    /\ At(r, "enrol")
    /\ credential' = [credential EXCEPT ![request[r].key] = [user |-> request[r].user, counter |-> 0]]
    /\ Go(r, "enrolled")
    /\ UNCHANGED <<user, challenge, elapsed, token, history>>

\* The INSERT; credential_id_b64 is unique.
Enrol(r) ==
    /\ At(r, "enrol")
    /\ credential[request[r].key] = Unregistered
    /\ credential' = [credential EXCEPT ![request[r].key] = [user |-> request[r].user, counter |-> 0]]
    /\ Go(r, "enrolled")
    /\ UNCHANGED <<user, challenge, elapsed, token, history>>

\* The audit row, and 201.
ReplyEnrolled(r) ==
    /\ At(r, "enrolled")
    /\ enrolled' = enrolled \cup {<<request[r].user, request[r].key>>}
    /\ Finish(r)
    /\ UNCHANGED <<user, credential, challenge, elapsed, token, shown, uses, crossed>>

-----------------------------------------------------------------------------
(* POST /v1/stepup/challenges for an operator                              *)

\* findById finds the user active.
AskStepUp(r, u, c) ==
    /\ At(r, "idle")
    /\ user[u].status = "active"
    /\ Fresh(c)
    /\ Set(r, [Idle EXCEPT !.stage = "keys", !.user = u, !.ch = c])
    /\ UNCHANGED <<user, credential, challenge, elapsed, token, history>>

\* listByUser: 409 without a credential.
ListKeys(r) ==
    /\ At(r, "keys")
    /\ IF \E k \in Keys : credential[k].user = request[r].user THEN Go(r, "challenge") ELSE Finish(r)
    /\ UNCHANGED <<user, credential, challenge, elapsed, token, history>>

\* The row; STEP_UP_REQUIRED, the audit row and 201 change nothing else.
InsertChallenge(r) ==
    /\ At(r, "challenge")
    /\ NewChallenge(r, "operator")
    /\ Finish(r)
    /\ UNCHANGED <<user, credential, elapsed, token, history>>

\* The clock passes expires_at.
Elapse(c) ==
    /\ challenge[c].status # "absent"
    /\ elapsed' = elapsed \cup {c}
    /\ UNCHANGED <<user, credential, challenge, token, request, history>>

-----------------------------------------------------------------------------
(* POST /v1/stepup/verify for a hardware key                               *)

\* findById and the guards.  Registration challenges have another purpose.
Present(r, c, k) ==
    /\ At(r, "idle")
    /\ challenge[c].status = "pending"
    /\ challenge[c].kind = "operator"
    /\ Set(r, [stage |-> IF c \in elapsed THEN "expire" ELSE "assert",
               user |-> challenge[c].user, key |-> k, ch |-> c, seen |-> challenge[c].attempts])
    /\ UNCHANGED <<user, credential, challenge, elapsed, token, history>>

\* recordAttempt(status: 'expired', incrementAttempts: false), then 410.
RecordExpired(r) ==
    /\ At(r, "expire")
    /\ challenge' = [challenge EXCEPT ![request[r].ch] = RecordAttempt(@, "expired", FALSE)]
    /\ Finish(r)
    /\ UNCHANGED <<user, credential, elapsed, token, history>>

\* Another request has read the credential that r is to use, and not yet written it.
Crossing(r) == \E s \in Requests \ {r} : At(s, "use") /\ request[s].key = request[r].key

\* verifyAssertion accepts: seen is the signature_counter read with the key.
Accept(r) ==
    /\ credential[request[r].key].counter < MaxCounter
    /\ Set(r, [request[r] EXCEPT !.stage = "use", !.seen = credential[request[r].key].counter])
    /\ shown' = shown \cup {<<request[r].ch, request[r].key>>}
    /\ crossed' = IF Crossing(r) THEN crossed \cup {request[r].key} ELSE crossed
    /\ UNCHANGED <<user, credential, challenge, elapsed, token, enrolled, uses>>

\* Mutant: the user of the credential is not compared.
AcceptAnyKey(r) ==
    /\ At(r, "assert")
    /\ credential[request[r].key] # Unregistered
    /\ Accept(r)

\* findByCredentialId finds a credential of the challenge's user, and its
\* assertion of the challenge passes.
AcceptKey(r) ==
    /\ At(r, "assert")
    /\ credential[request[r].key].user = request[r].user
    /\ Accept(r)

\* It is unknown, another user's, or does not pass.
Refuse(r) ==
    /\ At(r, "assert")
    /\ Go(r, "fail")
    /\ UNCHANGED <<user, credential, challenge, elapsed, token, history>>

\* recordAttempt after a wrong response, then 401.
RecordWrong(r) ==
    /\ At(r, "fail")
    /\ challenge' = [challenge EXCEPT ![request[r].ch] = AfterWrong(@, request[r].seen)]
    /\ Finish(r)
    /\ UNCHANGED <<user, credential, elapsed, token, history>>

\* Mutant: the counter that was read is written back.
RecordUseStale(r) ==
    /\ At(r, "use")
    /\ credential' = [credential EXCEPT ![request[r].key].counter = request[r].seen]
    /\ uses' = [uses EXCEPT ![request[r].key] = @ + 1]
    /\ Go(r, "consume")
    /\ UNCHANGED <<user, challenge, elapsed, token, enrolled, shown, crossed>>

\* recordUse with the adapter's newSignatureCounter, the one read and one more.
RecordUse(r) ==
    /\ At(r, "use")
    /\ credential' = [credential EXCEPT ![request[r].key].counter = request[r].seen + 1]
    /\ uses' = [uses EXCEPT ![request[r].key] = @ + 1]
    /\ Go(r, "consume")
    /\ UNCHANGED <<user, challenge, elapsed, token, enrolled, shown, crossed>>

\* recordAttempt(status: 'consumed'), whose result is not looked at.
RecordConsumed(r) ==
    /\ At(r, "consume")
    /\ challenge' = [challenge EXCEPT ![request[r].ch] = RecordAttempt(@, "consumed", TRUE)]
    /\ Go(r, "mint")
    /\ UNCHANGED <<user, credential, elapsed, token, history>>

\* stepUpTokensRepo.create; recordLogin, which nothing reads, the audit row,
\* and 200.  A second insert for the challenge throws.
CreateToken(r) ==
    /\ At(r, "mint")
    /\ request[r].ch \notin token
    /\ token' = token \cup {request[r].ch}
    /\ Finish(r)
    /\ UNCHANGED <<user, credential, challenge, elapsed, history>>

\* The process dies, or a statement throws: 500.
Abort(r) ==
    /\ ~At(r, "idle")
    /\ Finish(r)
    /\ UNCHANGED <<user, credential, challenge, elapsed, token, history>>

Next ==
    \/ \E u \in Users : Disable(u) \/ \E e \in Emails : CreateUser(u, e)
    \/ \E c \in Challenges : Elapse(c)
    \/ \E r \in Requests :
          \/ \E u \in Users, c \in Challenges : AskOptions(r, u, c) \/ AskStepUp(r, u, c)
          \/ \E u \in Users, k \in Keys : AskRegister(r, u, k)
          \/ InsertOptions(r) \/ Enrol(r) \/ ReplyEnrolled(r)
          \/ ListKeys(r) \/ InsertChallenge(r)
          \/ \E c \in Challenges, k \in Keys : Present(r, c, k)
          \/ RecordExpired(r) \/ AcceptKey(r) \/ Refuse(r) \/ RecordWrong(r)
          \/ RecordUse(r) \/ RecordConsumed(r) \/ CreateToken(r)
          \/ Abort(r)

Spec == Init /\ [][Next]_vars

-----------------------------------------------------------------------------
(* Properties.                                                             *)

\* A key that a 201 gave to a user is that user's still, and so no other user
\* was told the same of it, although two registrations may both find it free.
EnrolledOnce == \A e \in enrolled : credential[e[2]].user = e[1]

\* An operator's step-up token rests on an answer to its challenge, made with a
\* key of the user whom the challenge names; a registration challenge, which
\* stays pending for ever, gives none.
TokenRestsOnKey ==
    \A c \in token :
        /\ challenge[c].kind = "operator"
        /\ challenge[c].status \in Closed
        /\ \E k \in Keys : <<c, k>> \in shown /\ credential[k].user = challenge[c].user

\* The signature counter is read with the key and written back after the
\* assertion, so uses that cross are lost, and the counter may fall.  It never
\* runs ahead of the uses, and tells their number while none have crossed.
CounterTellsUses ==
    \A k \in Keys : /\ credential[k].counter <= uses[k]
                    /\ uses[k] > 0 => credential[k].counter > 0
                    /\ k \notin crossed => credential[k].counter = uses[k]

\* Operators step up under the promise that StepUp keeps for customers, although
\* here neither the use of the key nor the closing of the challenge stops a
\* second answer: it issues a token once, and after an accepted answer.
LedgerStage ==
    [c \in Challenges |-> IF c \in token THEN "issued"
                          ELSE IF \E k \in Keys : <<c, k>> \in shown THEN "proved" ELSE "open"]

\* What operators do under their tokens is not in src/.
Ledger == INSTANCE StepUpLedger WITH stage <- LedgerStage, operations <- [c \in Challenges |-> 0]

KeysKeepLedger == Ledger!Spec
=============================================================================
