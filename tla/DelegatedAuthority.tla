------------------------- MODULE DelegatedAuthority -------------------------
(***************************************************************************)
(* What is minted on an account's behalf: step-up challenges               *)
(* (routes/stepup.ts), audience tokens (routes/customers.ts) and delegated *)
(* authorities (routes/internal.ts, services/delegatedAuthoritySigner.ts,  *)
(* repositories/delegatedAuthoritySignings.ts), while operators freeze and *)
(* thaw the account.                                                       *)
(*                                                                         *)
(* Of the verification of a step-up only what its handlers come to is here *)
(* (Prove, Verify); StepUp has the handlers, and both keep StepUpLedger.   *)
(* StepUp also has the race with a phone change for the same token; here   *)
(* each is for signing.                                                    *)
(***************************************************************************)
EXTENDS Naturals, FiniteSets

CONSTANTS Accounts,
          StepUps,     \* challenge ids, which are the jtis of step-up tokens
          Jtis,        \* claims.jti that Helpan AI may choose
          Requests,    \* handlers that can be in flight together
          NoAccount, NoStepUp, NoJti

ASSUME DelegatedAuthorityAssumption ==
    /\ NoAccount \notin Accounts /\ NoStepUp \notin StepUps /\ NoJti \notin Jtis

VARIABLES state,       \* platform_accounts.status
          stepup,      \* step-ups, from the auth_challenges row to the step_up_tokens row
          signing,     \* delegated_authority_signings rows
          rejected,    \* audit_log rows of rejections: their resource ids, which are jtis
          request,     \* handlers in flight
          authority,   \* history: delegated tokens that were handed out
          lost,        \* history: step-ups spent by a handler that died or answered 500
          spentFor,    \* history: the jti that was asked for by who spent the step-up
          due,         \* history: what was under way when the account was frozen, and is still
          leaked       \* history: what was minted for a frozen account without being due

vars == <<state, stepup, signing, rejected, request, authority, lost, spentFor, due, leaked>>

Claims   == [jti : Jtis, acct : Accounts, up : StepUps \cup {NoStepUp}]
NoClaims == [acct |-> NoAccount, up |-> NoStepUp]
Idle == [stage |-> "idle", acct |-> NoAccount, up |-> NoStepUp, jti |-> NoJti]

\* What is minted: a challenge, a token or an authority by a step-up, and an
\* audience token by its handler.  An authority that names no step-up is none of them.
Mints == ({"challenge", "token", "authority"} \X StepUps) \cup ({"audience"} \X Requests)

Stages == {"idle", "challenge", "audience", "spend", "sign", "refuse", "insert", "reply"}

TypeOK ==
    /\ state \in [Accounts -> {"pending", "active", "frozen"}]
    /\ stepup \in [StepUps -> [status : {"absent", "pending", "proved", "live", "spent"},
                               acct : Accounts \cup {NoAccount}]]
    /\ signing \in [Jtis -> [acct : Accounts \cup {NoAccount}, up : StepUps \cup {NoStepUp}]]
    /\ rejected \in SUBSET Jtis
    /\ lost \in SUBSET StepUps
    /\ authority \in SUBSET Claims
    /\ spentFor \in [StepUps -> Jtis \cup {NoJti}]
    /\ due \in [Accounts -> SUBSET Mints]
    /\ leaked \in SUBSET Mints
    /\ request \in [Requests -> [stage : Stages, acct : Accounts \cup {NoAccount},
                                 up : StepUps \cup {NoStepUp}, jti : Jtis \cup {NoJti}]]
    /\ \A r \in Requests : /\ request[r].stage # "idle" => request[r].acct \in Accounts
                           /\ request[r].stage \in {"spend", "challenge"} => request[r].up \in StepUps
                           /\ request[r].stage \in {"spend", "sign", "refuse", "insert", "reply"}
                                 => request[r].jti \in Jtis

Standing == INSTANCE AccountStanding WITH standing <- state

Init ==
    /\ Standing!Init
    /\ stepup = [u \in StepUps |-> [status |-> "absent", acct |-> NoAccount]]
    /\ signing = [j \in Jtis |-> NoClaims]
    /\ rejected = {} /\ lost = {} /\ authority = {} /\ leaked = {}
    /\ spentFor = [u \in StepUps |-> NoJti]
    /\ due = [a \in Accounts |-> {}]
    /\ request = [r \in Requests |-> Idle]

At(r, s)  == request[r].stage = s
Set(r, q) == request' = [request EXCEPT ![r] = q]
Go(r, s)  == request' = [request EXCEPT ![r].stage = s]
Finish(r) == Set(r, Idle)

rows    == <<state, stepup, signing, rejected>>
minted  == <<due, leaked>>
history == <<authority, lost, spentFor, minted>>

-----------------------------------------------------------------------------
(* The account, as AccountLifecycle keeps it.                              *)

\* r has found a active and is about to make u for it; r signs for a by u.
Making(a, r, u)  == At(r, "challenge") /\ request[r].acct = a /\ request[r].up = u
Signing(a, r, u) == request[r].stage \in {"sign", "insert", "reply"} /\ request[r].acct = a /\ request[r].up = u

\* The step-up u of a has come to one of these, or is about to be made.
Open(a, u, statuses) ==
    \/ stepup[u].acct = a /\ stepup[u].status \in statuses
    \/ \E r \in Requests : Making(a, r, u)

\* What may yet be minted for a although nobody looks at its state again.
UnderWay(a) ==
    {m \in Mints :
        \/ m[1] = "challenge" /\ \E r \in Requests : Making(a, r, m[2])
        \/ m[1] = "token" /\ Open(a, m[2], {"pending", "proved"})
        \/ m[1] = "authority" /\ \/ Open(a, m[2], {"pending", "proved", "live"})
                                 \/ \E r \in Requests : Signing(a, r, m[2])
        \/ m[1] = "audience" /\ At(m[2], "audience") /\ request[m[2]].acct = a}

Activate(a) ==
    /\ Standing!Activate(a)
    /\ due' = [due EXCEPT ![a] = {}]
    /\ UNCHANGED <<stepup, signing, rejected, request, authority, lost, spentFor, leaked>>

Freeze(a) ==
    /\ Standing!Freeze(a)
    /\ due' = [due EXCEPT ![a] = UnderWay(a)]
    /\ UNCHANGED <<stepup, signing, rejected, request, authority, lost, spentFor, leaked>>

\* What has been minted, or given up, is due no longer.
Drop == due' = [a \in Accounts |-> due[a] \cap UnderWay(a)']

\* m is minted for a.
Mint(a, m) ==
    /\ leaked' = IF state[a] = "frozen" THEN leaked \cup ({m} \ due[a]) ELSE leaked
    /\ Drop

-----------------------------------------------------------------------------
(* POST /v1/stepup/challenges and POST /v1/customers/:uuid/tokens          *)

\* Mutant: findById without the guard on the state.
FindAny(r, a, u) ==
    /\ At(r, "idle")
    /\ \/ /\ u \in StepUps
          /\ stepup[u].status = "absent"
          /\ \A s \in Requests : request[s].up # u
          /\ Set(r, [Idle EXCEPT !.stage = "challenge", !.acct = a, !.up = u])
       \/ u = NoStepUp /\ Set(r, [Idle EXCEPT !.stage = "audience", !.acct = a])
    /\ UNCHANGED <<rows, history>>

\* findById finds the account active; for a step-up, generateUlid.
FindActive(r, a, u) ==
    /\ At(r, "idle")
    /\ state[a] = "active"
    /\ \/ /\ u \in StepUps
          /\ stepup[u].status = "absent"
          /\ \A s \in Requests : request[s].up # u
          /\ Set(r, [Idle EXCEPT !.stage = "challenge", !.acct = a, !.up = u])
       \/ u = NoStepUp /\ Set(r, [Idle EXCEPT !.stage = "audience", !.acct = a])
    /\ UNCHANGED <<rows, history>>

\* challengesRepo.create; STEP_UP_REQUIRED, the audit row and 201 change nothing else.
CreateChallenge(r) ==
    /\ At(r, "challenge")
    /\ stepup' = [stepup EXCEPT ![request[r].up] = [status |-> "pending", acct |-> request[r].acct]]
    /\ Finish(r)
    /\ UNCHANGED <<state, signing, rejected, authority, lost, spentFor>>
    /\ Mint(request[r].acct, <<"challenge", request[r].up>>)

\* The audience token is signed, the audit row written, and 200.
ReplyAudience(r) ==
    /\ At(r, "audience")
    /\ Finish(r)
    /\ UNCHANGED <<rows, authority, lost, spentFor>>
    /\ Mint(request[r].acct, <<"audience", r>>)

\* POST /v1/stepup/verify with the right code: the challenge is consumed, then
\* the step_up_tokens row inserted, unless the handler died in between.  No
\* statement of it looks at the state of the account.
Prove(u) ==
    /\ stepup[u].status = "pending"
    /\ stepup' = [stepup EXCEPT ![u].status = "proved"]
    /\ UNCHANGED <<state, signing, rejected, request, history>>

Verify(u) ==
    /\ stepup[u].status = "proved"
    /\ stepup' = [stepup EXCEPT ![u].status = "live"]
    /\ UNCHANGED <<state, signing, rejected, request, authority, lost, spentFor>>
    /\ Mint(stepup[u].acct, <<"token", u>>)

-----------------------------------------------------------------------------
(* POST /v1/internal/sign                                                  *)

\* The account exists, in whatever state, and the claims name no step-up.
AskSign(r, a, j) ==
    /\ At(r, "idle")
    /\ Set(r, [Idle EXCEPT !.stage = "sign", !.acct = a, !.jti = j])
    /\ UNCHANGED <<rows, history>>

\* The claims name one: findByJti finds it, and its account is claims.sub.
AskSignUnder(r, a, j, u) ==
    /\ At(r, "idle")
    /\ stepup[u].status \in {"live", "spent"}
    /\ stepup[u].acct = a
    /\ Set(r, [stage |-> "spend", acct |-> a, up |-> u, jti |-> j])
    /\ UNCHANGED <<rows, history>>

\* Mutant: the UPDATE lacks AND consumed_at IS NULL.
SpendAgain(r) ==
    /\ At(r, "spend")
    /\ stepup' = [stepup EXCEPT ![request[r].up].status = "spent"]
    /\ spentFor' = [spentFor EXCEPT ![request[r].up] = request[r].jti]
    /\ Go(r, "sign")
    /\ UNCHANGED <<state, signing, rejected, authority, lost, minted>>

\* markConsumed: the UPDATE that one request wins.
Spend(r) ==
    /\ At(r, "spend")
    /\ stepup[request[r].up].status = "live"
    /\ stepup' = [stepup EXCEPT ![request[r].up].status = "spent"]
    /\ spentFor' = [spentFor EXCEPT ![request[r].up] = request[r].jti]
    /\ Go(r, "sign")
    /\ UNCHANGED <<state, signing, rejected, authority, lost, minted>>

\* No row was updated: 409.
Replayed(r) ==
    /\ At(r, "spend")
    /\ stepup[request[r].up].status = "spent"
    /\ Finish(r)
    /\ UNCHANGED <<rows, history>>

\* The signer: an unknown kid, class, issuer, or no scopes, or times out of
\* bounds; else a signature.
Sign(r) ==
    /\ At(r, "sign")
    /\ \E s \in {"refuse", "insert"} : Go(r, s)
    /\ UNCHANGED <<rows, history>>

\* Mutant: 400 without the audit row.
RefuseQuietly(r) == At(r, "refuse") /\ Finish(r) /\ UNCHANGED <<rows, history>>

\* The audit row of the rejection, which names the jti and not the step-up, and 400.
Refuse(r) ==
    /\ At(r, "refuse")
    /\ rejected' = rejected \cup {request[r].jti}
    /\ Finish(r)
    /\ UNCHANGED <<state, stepup, signing, authority, lost, spentFor, leaked>>
    /\ Drop

\* delegatedAuthoritySigningsRepo.create.
Insert(r) ==
    /\ At(r, "insert")
    /\ signing[request[r].jti] = NoClaims
    /\ signing' = [signing EXCEPT ![request[r].jti] = [acct |-> request[r].acct, up |-> request[r].up]]
    /\ Go(r, "reply")
    /\ UNCHANGED <<state, stepup, rejected, history>>

\* The audit row, and 200 with the token.
Reply(r) ==
    /\ At(r, "reply")
    /\ authority' = authority \cup {[jti |-> request[r].jti, acct |-> request[r].acct, up |-> request[r].up]}
    /\ Finish(r)
    /\ UNCHANGED <<rows, lost, spentFor>>
    /\ IF request[r].up = NoStepUp THEN UNCHANGED minted
       ELSE Mint(request[r].acct, <<"authority", request[r].up>>)

\* The process dies, or a statement throws: 500.  The latter is all that can
\* become of an insert whose jti is taken.
Abort(r) ==
    /\ ~At(r, "idle")
    /\ lost' = IF request[r].stage \in {"sign", "refuse", "insert"}
               THEN lost \cup ({request[r].up} \ {NoStepUp}) ELSE lost
    /\ Finish(r)
    /\ UNCHANGED <<rows, authority, spentFor, leaked>>
    /\ Drop

Next ==
    \/ \E a \in Accounts : Activate(a) \/ Freeze(a)
    \/ \E u \in StepUps : Prove(u) \/ Verify(u)
    \/ \E r \in Requests :
          \/ \E a \in Accounts, u \in StepUps \cup {NoStepUp} : FindActive(r, a, u)
          \/ CreateChallenge(r) \/ ReplyAudience(r)
          \/ \E a \in Accounts, j \in Jtis : AskSign(r, a, j)
          \/ \E a \in Accounts, j \in Jtis, u \in StepUps : AskSignUnder(r, a, j, u)
          \/ Spend(r) \/ Replayed(r) \/ Sign(r) \/ Refuse(r) \/ Insert(r) \/ Reply(r)
          \/ Abort(r)

Spec == Init /\ [][Next]_vars

-----------------------------------------------------------------------------
(* Properties.                                                             *)

\* The state of the account is looked at once, before the step-up challenge or
\* the audience token is made, and neither to verify the step-up nor to sign by
\* it.  So a freeze lets pass what was under way when it began, however long it
\* lasts: audience tokens whose handlers were past that look, and of each
\* step-up that was open, or was being made, what was still to come of
\* challenge, token and authority, each once.  A step-up that is asked for in
\* the freeze yields nothing in it.  An authority that names no step-up is
\* signed whatever the state, and as often as it is asked for: it is not meant.
FreezePassesWhatWasUnderWay == leaked = {}

\* The signings table tells of each delegated token that is out what the token
\* itself says; and of each step-up one signing at most, of the account that
\* stepped up, and not before the step-up was spent.
SigningsTellAuthorities ==
    /\ \A c \in authority : signing[c.jti] = [acct |-> c.acct, up |-> c.up]
    /\ \A j \in Jtis : signing[j].up # NoStepUp =>
          /\ stepup[signing[j].up] = [status |-> "spent", acct |-> signing[j].acct]
          /\ \A i \in Jtis : signing[i].up = signing[j].up => i = j

\* A step-up is spent before the signer has looked at the claims.  One that is
\* spent was signed by, or the log has a rejection of the very jti that it was
\* spent for (the row does not name the step-up), unless its handler is still
\* at it or ended in between: it died, or the jti it was to sign was taken.
SpentIsAccountedFor ==
    \A u \in StepUps : stepup[u].status = "spent" =>
        \/ \E j \in Jtis : j = spentFor[u] /\ (signing[j].up = u \/ j \in rejected)
        \/ u \in lost
        \/ \E r \in Requests : /\ request[r].up = u /\ request[r].jti = spentFor[u]
                              /\ request[r].stage \in {"sign", "refuse", "insert"}

\* To sign keeps the promise of StepUpLedger, as the handlers of StepUp do: a
\* step-up goes through its stages once, whatever requests and reasons to
\* refuse meet, and one authority at most is signed by it, after it was spent.
StageOf(status) == CASE status \in {"absent", "pending"} -> "open"
                     [] status = "live" -> "issued"
                     [] OTHER -> status

LedgerStage == [u \in StepUps |-> StageOf(stepup[u].status)]

Signed == [u \in StepUps |-> Cardinality({j \in Jtis : signing[j].up = u})]

Ledger == INSTANCE StepUpLedger WITH Challenges <- StepUps, stage <- LedgerStage, operations <- Signed

SigningKeepsLedger == Ledger!Spec
=============================================================================
