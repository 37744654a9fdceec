------------------------------- MODULE StepUp -------------------------------
(***************************************************************************)
(* One-time challenges from creation to the operation they authorise:      *)
(* routes/auth.ts and routes/stepup.ts, the auth_challenges and            *)
(* step_up_tokens repositories, stepupVerifier.ts, and the step-up half of *)
(* routes/phoneChange.ts and routes/internal.ts.                           *)
(*                                                                         *)
(* A request is a Fastify handler in flight.  Every await on Postgres is a *)
(* place where other requests run, so a handler is one action per          *)
(* statement or transaction, and request[r] holds what it read and where   *)
(* it will continue.  An early return that writes nothing is a stuttering  *)
(* step and has no action.                                                 *)
(***************************************************************************)
EXTENDS AuthChallenges, FiniteSets

CONSTANTS Challenges,       \* challenge ids (stp_<ULID>); also the token JTIs
          Requests,         \* handlers that can be in flight together
          NoChallenge,      \* the ch of an idle slot
          MaxCounter        \* bound on the credential's signature counter

ASSUME StepUpAssumption == /\ NoChallenge \notin Challenges
                           /\ MaxCounter \in Nat
                           /\ IsFiniteSet(Requests)

VARIABLES challenge,    \* auth_challenges rows
          elapsed,      \* challenges whose expires_at has passed
          request,      \* handlers in flight
          token,        \* step_up_tokens rows, keyed by jti = challenge id
          sessions,     \* sessions rows minted from each login challenge
          counter,      \* signature_counter of the operator's credential
          proved,       \* history: step-up factor verified while row was usable
          issued,       \* history: 200 responses that carried the step-up JWT
          performed     \* history: operations run under the step-up

vars == <<challenge, elapsed, request, token, sessions, counter,
          proved, issued, performed>>

Stages == {"idle", "expire", "fail", "use", "consume", "session", "mint",
           "reply", "redeem", "authorised"}

\* seen is the attempts_used column the handler read, or, for a hardware key
\* that verified, the signature_counter it read.
Idle == [stage |-> "idle", ch |-> NoChallenge, seen |-> 0]

Busy(s, c, n) == [stage |-> s, ch |-> c, seen |-> n]

TypeOK ==
    /\ challenge \in [Challenges -> Row]
    /\ elapsed \subseteq Challenges
    /\ request \in [Requests -> [stage : Stages, ch : Challenges \cup {NoChallenge},
                                 seen : Nat]]
    /\ \A r \in Requests : request[r].stage # "idle" => request[r].ch \in Challenges
    /\ token \in [Challenges -> {"none", "live", "consumed"}]
    /\ sessions \in [Challenges -> Nat]
    /\ counter \in Nat
    /\ proved \subseteq Challenges
    /\ issued \in [Challenges -> Nat]
    /\ performed \in [Challenges -> Nat]

Init ==
    /\ challenge = [c \in Challenges |-> NoRow]
    /\ elapsed = {}
    /\ request = [r \in Requests |-> Idle]
    /\ token = [c \in Challenges |-> "none"]
    /\ sessions = [c \in Challenges |-> 0]
    /\ counter = 0
    /\ proved = {}
    /\ issued = [c \in Challenges |-> 0]
    /\ performed = [c \in Challenges |-> 0]

At(r, s)    == request[r].stage = s
Go(r, s)    == request' = [request EXCEPT ![r] = [@ EXCEPT !.stage = s]]
Finish(r)   == request' = [request EXCEPT ![r] = Idle]
Record(r, row) == challenge' = [challenge EXCEPT ![request[r].ch] = row]

-----------------------------------------------------------------------------
(* Creating challenges.                                                    *)

\* POST /v1/auth/challenges inserts the row; the guards on the phone's account
\* only decide whether it gets there.
CreateAuthChallenge(c, kind) ==
    /\ challenge[c] = NoRow
    /\ kind \in AuthKinds
    /\ challenge' = [challenge EXCEPT ![c] = NewRow(kind)]
    /\ UNCHANGED <<elapsed, request, token, sessions, counter, proved, issued, performed>>

\* POST /v1/stepup/challenges inserts a row bound to an operation.
CreateStepUpChallenge(c, kind) ==
    /\ challenge[c] = NoRow
    /\ kind \in StepUpKinds
    /\ challenge' = [challenge EXCEPT ![c] = NewRow(kind)]
    /\ UNCHANGED <<elapsed, request, token, sessions, counter, proved, issued, performed>>

\* The clock passes expires_at.
Elapse(c) ==
    /\ challenge[c] # NoRow
    /\ c \notin elapsed
    /\ elapsed' = elapsed \cup {c}
    /\ UNCHANGED <<challenge, request, token, sessions, counter, proved, issued, performed>>

-----------------------------------------------------------------------------
(* Presenting a response.  findById, the guards and the comparison with    *)
(* the immutable hash make one step; what was read is stale afterwards.    *)

Present(r, c, s, n) == request' = [request EXCEPT ![r] = Busy(s, c, n)]

\* POST /v1/auth/customer-token up to the outcome of verifyOtp.
PresentLogin(r, c) ==
    /\ At(r, "idle")
    /\ challenge[c].status = "pending"
    /\ challenge[c].kind = "login"
    /\ \/ c \in elapsed /\ Present(r, c, "expire", 0)
       \/ c \notin elapsed /\ Present(r, c, "fail", challenge[c].attempts)
       \/ c \notin elapsed /\ Present(r, c, "consume", 0)
    /\ UNCHANGED <<challenge, elapsed, token, sessions, counter, proved, issued, performed>>

\* Mutant: the purpose and binding guards of /v1/stepup/verify are dropped.
PresentStepUpAnyKind(r, c) ==
    /\ At(r, "idle")
    /\ challenge[c].status = "pending"
    /\ c \notin elapsed
    /\ Present(r, c, "consume", 0)
    /\ proved' = proved \cup {c}
    /\ UNCHANGED <<challenge, elapsed, token, sessions, counter, issued, performed>>

\* POST /v1/stepup/verify up to the outcome of the factor check.  A right
\* response to an "unbound" row is answered 500 and the row stays pending.
PresentStepUp(r, c) ==
    /\ At(r, "idle")
    /\ challenge[c].status = "pending"
    /\ challenge[c].kind \in StepUpKinds \cup {"unbound"}
    /\ \/ /\ c \in elapsed
          /\ Present(r, c, "expire", 0)
          /\ UNCHANGED proved
       \/ /\ c \notin elapsed
          /\ Present(r, c, "fail", challenge[c].attempts)
          /\ UNCHANGED proved
       \/ /\ c \notin elapsed
          /\ challenge[c].kind = "customer"
          /\ Present(r, c, "consume", 0)
          /\ proved' = proved \cup {c}
       \/ /\ c \notin elapsed
          /\ challenge[c].kind = "operator"
          /\ counter < MaxCounter
          /\ Present(r, c, "use", counter)
          /\ proved' = proved \cup {c}
    /\ UNCHANGED <<challenge, elapsed, token, sessions, counter, issued, performed>>

\* recordAttempt(status: 'expired', incrementAttempts: false), then 410.
RecordExpired(r) ==
    /\ At(r, "expire")
    /\ Record(r, RecordAttempt(challenge[request[r].ch], "expired", FALSE))
    /\ Finish(r)
    /\ UNCHANGED <<elapsed, token, sessions, counter, proved, issued, performed>>

\* recordAttempt after a wrong response, then 401.
RecordWrong(r) ==
    /\ At(r, "fail")
    /\ Record(r, AfterWrong(challenge[request[r].ch], request[r].seen))
    /\ Finish(r)
    /\ UNCHANGED <<elapsed, token, sessions, counter, proved, issued, performed>>

\* recordUse stores the adapter's newSignatureCounter, computed from the
\* counter that was read with the credential.
RecordUse(r) ==
    /\ At(r, "use")
    /\ counter' = request[r].seen + 1
    /\ Go(r, "consume")
    /\ UNCHANGED <<challenge, elapsed, token, sessions, proved, issued, performed>>

\* Mutant: the challenge is left pending when its credential is minted.
RecordConsumedNot(r) ==
    /\ At(r, "consume")
    /\ Go(r, IF challenge[request[r].ch].kind = "login" THEN "session" ELSE "mint")
    /\ UNCHANGED <<challenge, elapsed, token, sessions, counter, proved, issued, performed>>

\* recordAttempt(status: 'consumed').  Neither endpoint looks at the row that
\* comes back, so a row another request closed first does not stop it.
RecordConsumed(r) ==
    /\ At(r, "consume")
    /\ Record(r, RecordAttempt(challenge[request[r].ch], "consumed", TRUE))
    /\ Go(r, IF challenge[request[r].ch].kind = "login" THEN "session" ELSE "mint")
    /\ UNCHANGED <<elapsed, token, sessions, counter, proved, issued, performed>>

\* getTier, phoneTokens.create, sessions.create: the customer token is out.
CreateSession(r) ==
    /\ At(r, "session")
    /\ sessions' = [sessions EXCEPT ![request[r].ch] = @ + 1]
    /\ Finish(r)
    /\ UNCHANGED <<challenge, elapsed, token, counter, proved, issued, performed>>

\* Mutant: ON CONFLICT DO NOTHING, so a loser of the race replies as well.
CreateTokenIgnoreConflict(r) ==
    /\ At(r, "mint")
    /\ token' = [token EXCEPT ![request[r].ch] = IF @ = "none" THEN "live" ELSE @]
    /\ Go(r, "reply")
    /\ UNCHANGED <<challenge, elapsed, sessions, counter, proved, issued, performed>>

\* stepUpTokensRepo.create: jti is the primary key, so a second insert for the
\* same challenge throws and the request ends with 500.
CreateToken(r) ==
    /\ At(r, "mint")
    /\ \/ /\ token[request[r].ch] = "none"
          /\ token' = [token EXCEPT ![request[r].ch] = "live"]
          /\ Go(r, "reply")
       \/ /\ token[request[r].ch] # "none"
          /\ UNCHANGED token
          /\ Finish(r)
    /\ UNCHANGED <<challenge, elapsed, sessions, counter, proved, issued, performed>>

\* recordLogin, audit, and the 200 that carries the JWT.
Reply(r) ==
    /\ At(r, "reply")
    /\ issued' = [issued EXCEPT ![request[r].ch] = @ + 1]
    /\ Finish(r)
    /\ UNCHANGED <<challenge, elapsed, token, sessions, counter, proved, performed>>

-----------------------------------------------------------------------------
(* Spending the token.                                                     *)

\* stepupVerifier.inspect on the X-Stepup-Token of a phone change: the caller
\* holds the JWT, its subject is an account, its claims and expiry pass.
PresentJwt(r, c) ==
    /\ At(r, "idle")
    /\ issued[c] > 0
    /\ challenge[c].kind = "customer"
    /\ Present(r, c, "redeem", 0)
    /\ UNCHANGED <<challenge, elapsed, token, sessions, counter, proved, issued, performed>>

\* /v1/internal/sign: findByJti finds the row and its accountUuid is claims.sub.
PresentJti(r, c) ==
    /\ At(r, "idle")
    /\ token[c] # "none"
    /\ challenge[c].kind = "customer"
    /\ Present(r, c, "redeem", 0)
    /\ UNCHANGED <<challenge, elapsed, token, sessions, counter, proved, issued, performed>>

\* Mutant: the UPDATE lacks AND consumed_at IS NULL.
MarkConsumedAlways(r) ==
    /\ At(r, "redeem")
    /\ token' = [token EXCEPT ![request[r].ch] = "consumed"]
    /\ Go(r, "authorised")
    /\ UNCHANGED <<challenge, elapsed, sessions, counter, proved, issued, performed>>

\* UPDATE ... WHERE consumed_at IS NULL; no row updated means replay_detected.
MarkConsumed(r) ==
    /\ At(r, "redeem")
    /\ \/ /\ token[request[r].ch] = "live"
          /\ token' = [token EXCEPT ![request[r].ch] = "consumed"]
          /\ Go(r, "authorised")
       \/ /\ token[request[r].ch] # "live"
          /\ UNCHANGED token
          /\ Finish(r)
    /\ UNCHANGED <<challenge, elapsed, sessions, counter, proved, issued, performed>>

\* The operation itself: the phone change starts, the delegated token is signed.
Perform(r) ==
    /\ At(r, "authorised")
    /\ performed' = [performed EXCEPT ![request[r].ch] = @ + 1]
    /\ Finish(r)
    /\ UNCHANGED <<challenge, elapsed, token, sessions, counter, proved, issued>>

\* A request ends early: the process dies, a statement throws, or a check made
\* after the step-up was spent refuses (cooldown, phone collision, signer).
Abort(r) ==
    /\ ~At(r, "idle")
    /\ Finish(r)
    /\ UNCHANGED <<challenge, elapsed, token, sessions, counter, proved, issued, performed>>

-----------------------------------------------------------------------------
Create(c) == \/ \E kind \in AuthKinds : CreateAuthChallenge(c, kind)
             \/ \E kind \in StepUpKinds : CreateStepUpChallenge(c, kind)

Arrive(r, c) == \/ PresentLogin(r, c) \/ PresentStepUp(r, c)
                \/ PresentJwt(r, c)   \/ PresentJti(r, c)

Continue(r) == \/ RecordExpired(r) \/ RecordWrong(r) \/ RecordUse(r)
               \/ RecordConsumed(r) \/ CreateSession(r) \/ CreateToken(r)
               \/ Reply(r) \/ MarkConsumed(r) \/ Perform(r)

Next == \/ \E c \in Challenges : Create(c) \/ Elapse(c)
        \/ \E r \in Requests, c \in Challenges : Arrive(r, c)
        \/ \E r \in Requests : Continue(r) \/ Abort(r)

Spec == Init /\ [][Next]_vars

-----------------------------------------------------------------------------
(* Properties.                                                             *)

\* However many requests answer the same challenge at once, at most one 200
\* carries its JWT: recordAttempt does not decide the winner (stepup.ts ignores
\* its result), the primary key of step_up_tokens does.
OneJwtPerChallenge == \A c \in Challenges : issued[c] <= 1

\* A step_up_tokens row exists only for a challenge made by
\* /v1/stepup/challenges whose factor was verified while the row was pending
\* and unexpired; login and unbound rows never lead to one.
TokenBackedByProof ==
    \A c \in Challenges : token[c] # "none" => c \in proved /\ challenge[c].kind \in StepUpKinds

\* One step-up authorises at most one operation, whichever of the two routes
\* spends it, and only after the row was marked consumed.
OneOperationPerStepUp ==
    \A c \in Challenges : /\ performed[c] <= 1
                          /\ performed[c] = 1 => token[c] = "consumed"

\* Once a challenge has produced a session or a token row it is closed: no
\* later request can find it pending, even if the first one dies midway.
UsedChallengeIsClosed ==
    \A c \in Challenges : sessions[c] > 0 \/ token[c] # "none" => challenge[c].status \in Closed

\* Concurrency lets more than MaxOtpAttempts wrong responses be recorded, but
\* never more than one extra for each request beyond the first.
AttemptsBoundedByConcurrency ==
    \A c \in Challenges : challenge[c].attempts <= MaxOtpAttempts - 1 + Cardinality(Requests)

\* A closed row never changes again and attempts_used moves by single steps up:
\* a late answer, a late expiry and a late success all leave a closed row alone.
ClosedRowsFrozen ==
    [][\A c \in Challenges :
          /\ challenge[c].status \in Closed => challenge'[c] = challenge[c]
          /\ challenge'[c].attempts \in {challenge[c].attempts, challenge[c].attempts + 1}]_vars

\* The handlers implement the promise of StepUpLedger.
LedgerStage ==
    [c \in Challenges |-> CASE token[c] = "consumed" -> "spent"
                            [] token[c] = "live"     -> "issued"
                            [] OTHER -> IF c \in proved THEN "proved" ELSE "open"]

Ledger == INSTANCE StepUpLedger WITH stage <- LedgerStage, operations <- performed
ImplementsLedger == Ledger!Spec

\* The inductive invariant behind the four properties above: what each handler
\* may rely on where it stands, and what the history of a challenge implies.
HandlerInv ==
    \A r \in Requests : LET c == request[r].ch IN
        /\ ~At(r, "idle") => challenge[c].status # "absent"
        /\ At(r, "use") => c \in proved
        /\ At(r, "consume") => challenge[c].kind = "login" \/ c \in proved
        /\ At(r, "session") => challenge[c].status \in Closed
        /\ At(r, "mint") => c \in proved /\ challenge[c].status \in Closed
        /\ At(r, "reply") => token[c] # "none" /\ issued[c] = 0
        /\ At(r, "authorised") => token[c] = "consumed" /\ performed[c] = 0

OneWinner ==
    \A r1, r2 \in Requests :
        /\ request[r1].ch = request[r2].ch
        /\ request[r1].stage = request[r2].stage
        /\ request[r1].stage \in {"reply", "authorised"}
        => r1 = r2

HistoryInv ==
    \A c \in Challenges :
        /\ c \in proved => challenge[c].kind \in StepUpKinds /\ challenge[c].status # "absent"
        /\ token[c] # "none" => c \in proved /\ challenge[c].status \in Closed
        /\ sessions[c] > 0 => challenge[c].status \in Closed
        /\ issued[c] <= 1 /\ (issued[c] = 1 => token[c] # "none")
        /\ performed[c] <= 1 /\ (performed[c] = 1 => token[c] = "consumed")

IInv == TypeOK /\ HandlerInv /\ OneWinner /\ HistoryInv
=============================================================================
