# Identiti: verification development

Identiti is an identity rail: it registers customers, identifies them (KYC), proves
their presence (login, step-up), and tells the apps built on it, through tokens and
events, how sure it is of them. The service is a set of Fastify handlers over
PostgreSQL and a Kafka producer. It runs in several instances at once, every handler
is a chain of awaited statements, almost none of them share a transaction, and any
instance may die between two statements. That, and not the size of the data, is what
makes it hard to test, and what this project models.

Notation: `routes/x.ts` stands for `src/routes/x.ts`; `0007` for the migration of that
number in `drizzle/`.

## 1. Inventory

| part | state | operations | talks to |
|---|---|---|---|
| challenges (`repositories/authChallenges.ts`) | `auth_challenges` rows | create, findById, recordAttempt | used by login, step-up, phone change |
| login (`routes/auth.ts`) | `sessions`, `phone_tokens` | challenge, customer-token | challenges, phone tokens, audit |
| step-up (`routes/stepup.ts`, `services/stepupVerifier.ts`) | `step_up_tokens`, `signature_counter` | challenge, verify, validate; spend | challenges; spent by phone change and internal sign |
| phone change (`routes/phoneChange.ts`) | `phone_changes`, `phone_records` | initiate (two methods), confirm | step-up, challenges, PHONE_CHANGED |
| KYC (`routes/kyc.ts`, `routes/operator.ts`) | `kyc_records` | IPRS submission, approve, reject | IPRS, tiers, KYC_APPROVED / KYC_REJECTED |
| tiers (`repositories/customers.ts`, `routes/operator.ts`) | `platform_accounts.tier`, `tier_history` | setTier, override, history | TIER_CHANGED |
| account lifecycle (`routes/customers.ts`, `routes/operator.ts`) | `platform_accounts.state` | create, activate, suspend, reactivate, transition | ACCOUNT_* events |
| audit log (`services/auditLogger.ts`) | `audit_log` | append, listByResource | called by every handler, last |
| idempotency (`adapters/idempotencyStore.ts`, vendored plugin) | `idempotency_keys` | lookup before, store after the handler | wraps every POST |
| consent (`routes/consent.ts`) | `consent_grants` | grant, list, revoke | apps, which follow CONSENT_GRANTED / CONSENT_REVOKED |
| phone tokens (`routes/phoneTokens.ts`) | `phone_tokens` | mint, resolve, revoke | login, which mints one too; phone change, which moves the number behind it; Todoku, which resolves |
| rider KYC (`routes/riderKyc.ts`) | `rider_kyc_submissions`, `rider_kyc_artefacts`, `platform_accounts.rider_class` | submit; retry answers 501 | NTSA, M-Pesa, insurers |
| KYB (`routes/kyb.ts`) | `kyb_records`, `kyb_directors` | initiate; retry answers 501 | BRS; reads the KYC records of directors |
| operators (`routes/operatorSession.ts`, half of `routes/stepup.ts`) | `operator_users`, `operator_webauthn_credentials`, their counters | create user, WebAuthn options, register; step-up with a key | challenges, `step_up_tokens` |
| delegated authority (`routes/internal.ts`, `services/delegatedAuthoritySigner.ts`) | `delegated_authority_signings` | internal sign | step-up, whose token it spends; Helpan AI; the account, which it looks up |

What is hard in it:

* **Interleaving.** Each `await` is a point where another request may run. Only
  single statements, explicit transactions, unique indexes and primary keys order them.
* **Stale reads.** Handlers read a row, await something slow (an OTP comparison, an
  IPRS call), and decide by what they read.
* **Partial failure.** A challenge is consumed before its session exists; a
  verified record is committed before the tier; a completed phone change before the move.
* **Publication.** Events are published after the commit, outside of it.

What makes each part correct is in the properties of section 3, each stated in words where
it is defined.

## 2. Modules

A handler is one TLA+ action per awaited statement that reads or writes shared state,
in the order of the code; `request[r].stage` is the statement a request is about to make, and
the other fields of `request[r]` are the local variables that are still used later. An
`Abort` at any stage is a process that died, a statement that threw, or a rollback. What
happens in a single transaction is one action, unless others can see its inside (the row
lock of `setTier`).

| module | models | state |
|---|---|---|
| `AuthChallenges` | `recordAttempt`, the row and its statuses | none (operators) |
| `StepUp` | login, the step-up of customers, spending of a token by phone change or internal sign | `challenge`, `elapsed`, `token`, `sessions`, `counter`, `request`; history: `proved`, `issued`, `performed` |
| `StepUpLedger` | *abstract*: open, proved, issued, spent, and one operation | `stage`, `operations` |
| `PhoneChange` | both methods of phone change, confirm, registration of numbers, the cooldown | `phone`, `cooling`, `change`, `challenge`, `lapsed`, `request`; history: `asked`, `swaps`, `events`, `grace`, `cut` |
| `PhoneDirectory` | *abstract*: who holds which number, and on whose authority it moves | `phone`, `authorised` |
| `KycTier` | IPRS submission, operator verdicts, tier override, `setTier` | `record`, `tier`, `history`, `request`; history: `changed`, `approved`, `rejected`, `dropped`, `untold` |
| `AssuranceRegister` | *abstract*: whom a national ID vouches for, who has evidence, what tiers were given | `claims`, `backed`, `assignments` |
| `AccountLifecycle` | registration (a new account, `phone_collision`, `matched_existing`), activate, suspend, reactivate, `changeState` with its row lock, the moves of a number by phone change | `status`, `origin`, `phone`, `events`, `request`; history: `log`, `known`, `untold` |
| `AccountTrail` | *abstract*: the legal moves of an account, and which of them were announced | `trail`, `told` |
| `AccountStanding` | *abstract*: pending, active or frozen, which is what those rely on who only look at an account | `standing` |
| `AuditChain` | `append` from BEGIN to COMMIT, the advisory lock, the clock | `entries`, `clock`, `writer` |
| `Idempotency` | lookup, handler, store; expiry of a key | `clock`, `row`, `request`; history: `runs`, `answers` |
| `Evidence` | rider submissions, their unique licences and bikes, `setRiderClass`; KYB with its reads of directors and its unique registrations and PINs | `rider`, `kyb`, `class`, `vetted`, `request`; history: `told`, `ended`, `latest`, `crossed` |
| `ConsentGrants` | grant, conflict, list and revoke, and the topic their events are published to | `grant`, `asking`, `topic`, `known`; history: `early`, `missed` |
| `TierHistory` | both `getTierHistory` (PostgreSQL, and the one the tests use) and a client that follows cursors | `repo`, `clock`, `rows`, `reading`, `cursor`, `page`; history: `got`, `start`, `followed` |
| `OperatorSession` | operators and their keys: users, registration options, registration; the step-up of an operator from its challenge to its token, with the signature counter | `user`, `credential`, `challenge`, `elapsed`, `token`, `request`; history: `enrolled`, `shown`, `uses`, `crossed` |
| `DelegatedAuthority` | what is minted for an account while it is frozen and thawed: step-up challenges, audience tokens, delegated authorities with the step-up they prove, verify and spend, the signer's refusals | `state`, `stepup`, `signing`, `rejected`, `request`; history: `authority`, `lost`, `spentFor`, `due`, `leaked` |
| `PhoneTokens` | phone tokens: mint by their route and by a login, resolve, revoke in its locked transaction, expiry, and the phone changes that meet them | `phone`, `row`, `lapsed`, `out`, `request`; history, in `request`: `good`, `held` |
| `AccountTokens` | `DelegatedAuthority` beside `PhoneTokens` | theirs |
| `AuditPromises`, `IdempotencyPromises`, `ConsentPromises` | what those who read the log, repeat a request or follow the grants may rely on: statements about rows, topics, answers and who is at work alone, extended by `AuditChain`, `Idempotency`, `ConsentGrants` and by the modules with their theorems | the part of their state that the statements are about |
| `*Proofs` | theorems of the module they are named after; `RecordsProofs` holds those of `TierHistory`, `AuditChain` and `Idempotency`, `AccountTokensProofs` also those of `DelegatedAuthority`, `PhoneTokens` and `ConsentGrants` | |
| `MC*` | symmetry sets for TLC, and a bound that differs per account | |

History variables are written and never read by the handlers. They are what properties
are stated on when the database forgets: which response carried a JWT, which operation ran
under a token, what a client was told.

How the modules meet:

* `AuthChallenges` is the row and `recordAttempt`; `StepUp`, `PhoneChange` and `OperatorSession`
  extend it.
* **Step-ups.** `StepUpLedger` is what the modules have in common. `StepUp` and `OperatorSession`
  have the handlers and implement it (`LedgerRefinement`, `OperatorLedger`). `DelegatedAuthority`
  has two steps for all that comes before the spending, `Prove` and `Verify`, and keeps the same
  promise (`SigningLedger`). `StepUp` also has the race of a sign with a phone change for one
  token; in `DelegatedAuthority` every step-up is for signing. `PhoneChange` starts where `StepUp`
  ends: `VerifyStepUp` stands for the spending of one token (the theorem `OneOperation` is why
  each `c` in `asked` is written once).
* **Numbers.** `PhoneChange` has the handlers that move a number, `AccountLifecycle` those that
  register one; each has the work of the other as one step. `PhoneDirectory` is between them: the
  one step is its `Register` or `Move`, `DirectoryRefinement` shows that phone changes come to no
  more, `RegistersInDirectory` that registrations do not. `PhoneTokens` has the moves alone.
* **Accounts.** `DelegatedAuthority` freezes and thaws accounts by the steps of `AccountStanding`;
  `StandingRefinement` shows that the handlers of `AccountLifecycle` do nothing else. The others
  only ask whether an account exists. `AccountLifecycle` has no tiers, and `KycTier` no statuses:
  no handler writes both.
* **Identification.** `Evidence` takes the verified IPRS lookups from `KycTier` as accounts that
  become `vetted` one at a time and stay so; `IdentifiedForGood` shows that this is all `KycTier`
  does. Rider classes and tiers do not meet: no handler reads one and writes the other.
* `AccountTokens` puts `DelegatedAuthority` and `PhoneTokens` beside each other. They share the
  account and no variable, and no handler of one reads what one of the other writes, so one
  rests while the other moves.
* `ConsentGrants` meets the others in the account alone, which it only looks up.
* `AuditChain` and `Idempotency` wrap every handler, before and after; neither reads the
  state the handler works on.

The abstract modules say what a component promises without handlers, locks or statements;
`ImplementsLedger`, `SigningKeepsLedger`, `KeysKeepLedger`, `ImplementsDirectory`,
`NumbersFromDirectory`, `ImplementsRegister`, `ImplementsTrail` and `KeepsStanding` map the
detailed states to theirs, and the theorems on them (TLC too, where a run has them) show that
every statement of a handler is one abstract step or none.

## 3. Runs

| run | shows | distinct states |
|---|---|---|
| `stepup_safety` | a challenge yields one JWT and one token, on a proof; no wrong guess beyond the limit but those in flight together; `StepUpLedger` implemented, and so one operation per token | 0.8 M |
| `phone_safety` | every write rests on a proof, and method 2 writes no more often than there are confirms in flight, what is completed or announced has moved, a row, a move or an event is missing only where a handler was cut short, a cooldown lets pass only what was under way when it began; `PhoneDirectory` implemented, and so no number bound twice | 0.4 M |
| `kyc_safety` | promotions rest on evidence, one verdict per artefact, one claim per ID, tier, history and events agree; no verdict, promotion or event is missing unless its handler died; `AssuranceRegister` implemented | 1.1 M |
| `account_safety` | apps see their own customers only, statuses move along the state machine, events are true and none is missing unless its handler died; `AccountTrail` implemented | 0.5 M |
| `audit_chain` | one root, linear where BEGINs and COMMITs agree; nobody waits for the lock forever | 0.1 M |
| `idempotency_safety` | an answer is to what was asked; who asks after the store is replayed to | 0.9 M |
| `evidence_safety` | evidence is verified once; a rider class is that of the latest submission unless its handler met another or died, and is lost only with its handler; events tell of rows | 86 k |
| `consent_safety` | one open grant per account, app and scope; a revocation is told after its grant, but for those who learnt the id early; no event is missing unless its handler died | 0.2 M |
| `tier_pages` | nothing given twice, losses only at cursors | 26 k |
| `operator_sessions` | a key stays its operator's; an operator's token rests on an answer with a key of theirs; the signature counter loses uses only when they cross | 0.6 M |
| `account_tokens` | of step-ups and audience tokens a freeze lets pass what was under way when it began and no more; signings, delegated tokens and spent step-ups agree; to sign keeps `StepUpLedger`; a resolved phone token was good and gave a number of its time; revocations agree | 0.4 M |
| `finding_cancelled_applied` | section 5 | |

Every module with variables has a `TypeOK`, which no run repeats: it is a theorem, `TypeCorrect`
or a name that ends so, and for `PhoneTokens` the part `RowsOK` and `CallsOK` of the invariant
that `AccountTokensProofs` proves.

Bounds, and why they are enough to meet the interesting cases:

* Two requests in flight everywhere, three where the third matters (`Idempotency`: two that
  overlap and one that comes after; `AuditChain`: two whose order differs and one that links
  to them). A request that ends is free again, so two requests are any number one after
  the other. The races in question are between a reader and one writer behind it.
* `StepUp`: two challenges of any kind; `MaxOtpAttempts` is 2 (3 in the code), so that there
  is a wrong answer that does not yet close the row; `MaxCounter` = 2, an authenticator
  used twice.
* `PhoneChange`: two accounts and three numbers, so that a number can be free, taken or
  contended; `MaxOtpAttempts` is 1 in `phone_safety` and 2 in `finding_cancelled_applied`.
* `KycTier`: one account, as its row is where handlers meet; two IDs and two artefacts, so
  that submissions and verdicts collide within it. Two accounts with one ID race for the same
  unique index; `OneClaimPerId` proves it for any number of accounts. `MaxAssignments` = 3:
  the first, a promotion and an override, in each order.
* `AccountLifecycle`: two accounts, apps and numbers for the registration; one account may
  change its status five times (created, activated, suspended, reactivated, suspended), the
  other only be created (`UnevenMoves`).
* `AuditChain`: `MaxEntries` = 4, a clock of three instants, so BEGINs may tie or not.
* `Idempotency`: a TTL of 1 and a clock of two instants: a key is in use, then expired;
  `MaxRuns` = 3.
* `Evidence`: two accounts, licences, bikes, PINs and submission ids, one registration, two
  handlers: two submissions that share a licence, a bike or nothing, of one account or of
  two; two businesses that share the registration and maybe the PIN, with one or two
  directors that are vetted before, between or after the reads.
* `ConsentGrants`: two keys, three grants and three requests: a grant, one that collides with
  it, and a revocation between the collision and the search for what it collided with.
* `TierHistory`: pages of two rows over up to five, so three pages; `Skew` = 1, two
  instances whose clocks differ.

* `OperatorSession`: two operators, emails, keys and handlers, one challenge; each operator
  has a key, both want one, or one has two. `MaxOtpAttempts` = 1, so that the first wrong
  answer fails the row; `MaxCounter` = 2, a key used twice, in turn or at once.
* `AccountTokens`: two accounts, one step-up that two authorities want, two jtis and two
  handlers, so that a freeze may find it anywhere between the look at the account and the
  answer of the sign, and a second one be asked for in the freeze. One phone token, three numbers
  (one of them free), two reasons and three handlers: one that resolves, and two that revoke.

Symmetry is used over sets of identifiers that no operator orders, and never in a
run with a liveness property.

Deadlock is not checked where the system stops for want of fresh identifiers, which
every cfg says; `tier_pages` and `account_tokens` check it.

Fairness is stated in `AuditChain` alone, where the code justifies it: `audit_chain` allows
aborts, and has strong fairness of each writer's statements. PostgreSQL serves the queue of the
advisory lock in order and a transaction that aborts gives the lock back, so a writer that may
proceed again and again does. The other modules have no liveness run: a process may die at every
statement, and nothing in the code resumes what it left, so that nothing is bound to happen.
What is lost then, and that nothing else is, is said by invariants, which keep in a history
variable what each dead handler left undone: `SpentIsAccountedFor`, `ClassLostOnlyByCrash`,
`EventsTellRows`, `EventsTellLog`, `EventsTellGrants`, `VerdictsMatchRecords`,
`PromotionsFollowEvidence`, `HistoryExplains`, `ChangesAreWhole`.

## 4. Proofs

TLC explores the instances above; the theorems hold for every value of the constants, that
is for any number of requests, accounts, challenges, apps, and any bound. They assume
only the ASSUMEs of the modules (the "no such row" values are no rows; bounds are numbers; handlers in flight together are finitely many).

Each `*Proofs` module proves Init => IInv and that each action keeps IInv; the properties
follow from IInv, or for action properties from IInv and one step. The properties are not
inductive alone, since what they say at the end of a handler depends on where handlers stand:

| module | IInv beyond the properties, and why |
|---|---|
| `StepUpProofs` | `HandlerInv`: a request about to mint has a proved, closed challenge, one about to reply owns the token row it inserted; `OneWinner`: no two requests of one challenge are in either place, by the primary key and the conditional UPDATE; `HistoryInv`: what the counters of responses and operations imply of the token; `GuessInv`: once a row has had `MaxOtpAttempts` - 1 attempts, they and the wrong answers still to be written without closing it are bounded together |
| `PhoneChangeProofs` | `HandlerInv`: a request at the swap of method 1 is the only one of its change, one of method 2 has closed the challenge; `HistoryInv`: completion and events follow a swap; `GraceInv`: a change that is under way while its account cools was so when the cooldown began, and is in `grace`; `KeptInv`, on top of it, that whoever is about to publish, or in method 1 to swap, has a row that has ended, and that what is neither whole nor in hand is in `cut`; `ArmedInv`: the swaps of a method-2 change and those whose code was right and who have not swapped are together no more than the handlers, since a closed challenge gives no new ones |
| `KycTierProofs` | `DecidedInv`: one handler has decided on an artefact, and the row is its account's; `HandlerInv`: whoever sets tier_1 for an artefact has verified it; `LockInv`: who is in the transaction is alone in it and what it read still holds; `AnnounceInv`, `RecordInv`, `HistoryInv`. On top of it `KeptInv`: `TierSeenInv`, who saw a tier above the first finds it in the history; `DroppedInv`, what a dead handler left is nobody else's |
| `AccountLifecycleProofs` | `Rows`: an account's status is the end of its log, the log is a path, events match it; `Handlers`: who is about to commit read the status as it is, who is about to announce is alone in announcing that change. On top of it `NothingKeptBack`, a change has its event, its handler or an entry in `untold`; and `Numberless`, an account that is not yet created has no number |
| `RecordsProofs` | of `AuditChain`: `OneHolder` of the lock; `DecisionIsCurrent`: who is about to insert has the newest entry as it is; `AllLinked`. Of `Idempotency`: rows, requests, runs and answers agree on body and run, and with the clock. Of `TierHistory`: while a client reads, what was given is above the cursor and what was there and was not given is the cursor or below it. Under it, `RankOnto`: in a listing without ties every place is taken, by the pigeonhole theorem, so that a cursor is always found |
| `EvidenceProofs` | `IInv`: a submission id belongs to one handler, and who is about to set a class or to publish has inserted the row; `LatestInv`: who is about to set a class has the latest submission, or the latest is in `crossed`; what was found of a director stands, since a verified lookup stays one |
| `AccountTokensProofs` | of what is delegated: `HandlerInv`, the tables hold what the request a handler works on says; `OneHandler`: a step-up has one handler between its spending and its signing; `LeakInv`: what is under way for a frozen account is due to it since the freeze began, and nothing else was minted; a mint takes away what it uses (`MintKept`), and nothing comes under way in a freeze (`UnderWayShrinks`). `HandlerInv` also ties `spentFor` to the jti of whoever signs by the step-up. The ledger rests on `HandlerInv`: who is to sign has a step-up that is spent, and signed for by nobody. Of phone tokens: `CallsOK`, a row is there before its token is out, a resolve keeps the account's number among those it `held`, and whoever is to answer a revocation finds the row revoked for the reason it will give. Of consents: `AskedOK`, who is about to publish has the row and no event yet; `OwnGrants`, a grant has one handler that makes it and one that has revoked it; `GrantOK`, a known id was told early or after its event; `ToldInv`, on top of them, that a change has its event, its handler or an entry in `missed` |
| `OperatorSessionProofs` | `CallOK`: who verifies has a challenge of the operator it names, who writes a use has read a counter that is not above the uses, and who mints has closed the challenge; `Apart`: two handlers use one key only where `crossed` says so |

Some properties are proved and in no run, since others rest on them or say more:
`ClosedRowsFrozen` (a closed challenge is never reopened), `TerminalRowsFrozen` (nor a phone
change that has ended), `VerdictIsFinal`, `StoredNeverRunsAgain`,
`OnlyReactivateThaws` (a freeze ends only by the commit of a reactivate), `LockProtects` (the
audit lock protects the read it is taken for). So are what the modules assume of each other
(`KeysKeepLedger`, `KeepsStanding`, `NumbersFromDirectory`, `IdentifiedOneByOne`), and what
follows from a property that a run has or is near to it: `PhonesUnique`, `VerifiedMeansVetted` (a
director's lookup is read before the insert, and a verified one stays so), `OneOperationPerStepUp`, and
`FollowersCatchUp`, by which who keeps a cache of the open grants from their events alone is
right about every grant whose events are out and whose id nobody knew early.

Only model-checked: the violation, and liveness, since TLAPS reasons neither about ENABLED nor about
fairness. Its provers cannot instantiate induction over data either; no theorem needs it, as
histories only grow at their ends, and no module is recursive.

## 5. Where code and text disagree

One disagreement has a run whose counterexample is the argument.

| run | what happens |
|---|---|
| `finding_cancelled_applied` | A confirm is past its checks (`routes/phoneChange.ts:421`) when another one runs out of attempts and cancels the change, or a new initiate supersedes it. The first consumes, swaps (`:546`), ignores that `complete()` returned nothing, and announces. The row stays cancelled, the number has moved. |

Others were met while modelling: the modules have the behaviour, but no run is spent on
them. Most are matters of wording or of a window that may well be accepted.

| code | text | what the modules allow |
|---|---|---|
| `routes/stepup.ts:571` | `services/otp.ts:5` "max 3 attempts then invalidate" | guesses in flight together all count from the same number; `AttemptsBoundedByConcurrency` says how far that goes |
| `routes/stepup.ts:651` | `:600` "challenge is now invalid" | a right answer past its read yields its JWT although a wrong one closed the row |
| `routes/stepup.ts:539` | `services/webauthnAdapter.ts:188` "Counter monotonic-bump" | two uses in flight write the counter in either order |
| `routes/phoneChange.ts:155` | `domain/phoneCooldown.ts:4` "24-hour cooldown after a successful phone change" | the cooldown is read at the start of initiate only; confirm does not read it; `CooldownHolds` says how far that goes |
| `routes/phoneChange.ts:212` | `:211` "Cancel any prior in-flight phone-change" | two initiates may each find none and leave two active changes |
| `routes/phoneChange.ts:223` | `drizzle/0007` lines 9-10, "on success updates phone_records and marks the phone_changes row" | method 1 writes the completed row before the swap, which may fail; `ChangesAreWhole` says that a completed row without its move comes of that, or of a process that died |
| `routes/phoneChange.ts:258` | `docs/INTEGRATOR_HANDOVER_KLOKD.md:160`, an event with the old hash | the old hash is read apart from the swap; payloads are not modelled |
| `routes/kyc.ts:272` | `:270` "tier_0 → tier_1 on first verified IPRS lookup" | the tier was read before the IPRS call; an operator override to tier_2 in between is undone |
| `routes/kyc.ts:114` | `:112` "Already-verified guard" | two submissions with different IDs both pass it and both end verified |
| `routes/kyc.ts:273`, `routes/operator.ts:563`, `routes/customers.ts:222`, `routes/operator.ts:152` | `docs/INTEGRATION_MAP.md:103-108`, an event for each change; `CROSS_RAIL_TEST_PLAN.md:81` "KP applies the freeze" | a process that dies after the commit announces nothing, and the retry does not either; `VerdictsMatchRecords`, `HistoryExplains` and `EventsTellLog` say that nothing else is lost |
| `routes/operator.ts:222` | `:14` "deliberately AML-only: it accepts frozen_aml → active and rejects every other starting state" | reactivate also takes a pending account to active (`AccountTrail` has both) |
| `idempotencyPlugin.js:60`, `adapters/idempotencyStore.ts:44` | `docs/INTEGRATOR_HANDOVER_LUNCHDROP.md:168` "returns the same response within the 24h TTL" | duplicates that overlap both run; once a key's row has expired it is never replaced, and every later use of the key runs |
| `services/auditLogger.ts:121` | `:7` "concurrent appenders see a consistent previous_hash" | `created_at` is the time of BEGIN and the lock is taken later: if the first to begin is served second, the next entry links where the last one did; `LinearWhenOrdered` says when that cannot be |
| `repositories/customers.ts:318` | `tests/tierHistory.test.ts:176` "No overlap and no gaps across pages" | the cursor is the first row of the next page, and PostgreSQL seeks strictly before it: a row is lost at every seam. The repository of the tests includes it; `LossOnlyAtCursors` |
| `routes/riderKyc.ts:269` | "A different account already has a verified ..." | the same account, going from tier 1 to tier 2 with its own licence, is told so too |
| `repositories/consentGrants.ts:82`, `routes/consent.ts:98` | a conflict answers 409 with the open grant | the grant may be revoked in between: 500 |
| `routes/riderKyc.ts:176`, `drizzle/0010` lines 94-104 | `docs/INTEGRATOR_HANDOVER_ITAFIKA.md:175` "a previously-rejected submission doesn't block resubmission" | each artefact is inserted with its own verdict, at which the unique indexes look: a submission rejected for one artefact keeps its verified licence and bike, and the resubmission of the same account collides with them |
| `routes/operatorSession.ts:297` | `:166` "atomically consume the challenge", `:247-251` "verifies against the most-recent matching registration challenge", "marks the challenge consumed" | the route does none of it: it verifies against the challenge bytes of its own request, so `AskRegister` needs no options, and a registration challenge stays pending (`TokenRestsOnKey` says that it yields no token) |
| `routes/phoneTokens.ts:178` | `docs/INTEGRATION_MAP.md:223`, `:230` "Single-use per resolve call", "both are single-use at consumption" | nothing marks a phone token as used: `AskResolve` may be asked again until the token is revoked or expires |
| `routes/phoneTokens.ts:178-205` | - | the row is checked in one statement and the number read in another: a token that is revoked in between still gives a number, which may be newer than the revocation; `ResolvedInTime` says how far that goes |
| `routes/internal.ts:141` | `docs/INTEGRATION_MAP.md:230` "Step-up tokens expire 5 minutes after issuance" | the sign looks neither at the expiry of the step-up row nor at the token's, only at who spent it |
| `routes/stepup.ts:278` | - | the state of the account is looked at when a step-up challenge is created, not when it is verified (`:674`) or signed by (`routes/internal.ts:105`): what was under way when a freeze began yields its token and its authority in it, and a sign that names no step-up is not stopped at all; `FreezePassesWhatWasUnderWay` |
| `routes/internal.ts:166` | - | the step-up is spent before the signer refuses, and the audit row of the refusal names the jti, the error and the kid but no step-up, as that of a success does (`:221`): the log alone does not tell which step-up was burned (`SpentIsAccountedFor`) |
| `routes/internal.ts:109` | `:105` "Account must exist and be in a non-terminal state" | it must exist |
| `routes/internal.ts:121-150` | `docs/H4_HELPAN_AI_JOINT.md:60` "Failures write an `audit_log` entry too" | those of the signer do; an unknown, foreign or replayed step-up does not |
| `services/webauthnAdapter.ts:190` | `drizzle/0012` lines 51-52 "v1.0 stub uses 0 throughout" | the stub adds one at every use; two that cross add one between them, and the later write may lower the counter (`CounterTellsUses`) |

## 6. Not modelled, and what is left

Left out for good: the Kafka producer and HTTP, authentication of service callers,
cryptography and key loading, hashing, configuration and schemas. They keep no state in which
handlers could meet; what is published, and when, is in history variables. Operations that only
read are actions only where what was read is used later or is what a property is about. What the
signer of delegated authorities decides by (kids, classes, issuers, times) is one choice between
refusal and signature. Retries of rider KYC and KYB answer 501 and change nothing.

Five hazards have no property, with the reasons in `PROJECT.json`. Each is something the modules
do, and of which the code promises nothing: a right answer that arrives past its row's end, two
active phone changes, the order of announcements, keys whose row has expired, and evidence that a
rejected rider has left in the unique indexes.

What could be added, in this order:

1. Abstract specifications for `Idempotency` (a key is free, then answered, then expired),
   `AuditChain` (a log that only grows, each entry linked to an earlier one) and `Evidence`, whose
   promises are statements about rows so far.
2. Requests that are repeated under a key, composed with one of the handlers that `Idempotency`
   has as one step.
