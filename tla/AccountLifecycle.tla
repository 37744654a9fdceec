-------------------------- MODULE AccountLifecycle --------------------------
(***************************************************************************)
(* How an account comes to be and changes its status: POST /v1/customers,  *)
(* /activate of routes/customers.ts, /suspend and /reactivate of           *)
(* routes/operator.ts, over create, findByPhoneHash and changeState of     *)
(* repositories/customers.ts, with the account events they publish.        *)
(*                                                                         *)
(* As in KycTier, a handler is one action per statement, and of the        *)
(* transaction in changeState the locking SELECT and the commit are told   *)
(* apart.                                                                  *)
(***************************************************************************)
EXTENDS Integers, Sequences, FiniteSets

CONSTANTS Accounts,      \* account UUIDs that can be generated
          Apps,
          Phones,        \* phone hashes
          Requests,      \* handlers that can be in flight together
          NoAccount, NoApp, NoPhone,
          MaxMoves       \* bound on the status changes of each account, creation included

ASSUME LifecycleAssumption == /\ NoAccount \notin Accounts
                              /\ NoApp \notin Apps
                              /\ NoPhone \notin Phones
                              /\ MaxMoves \in [Accounts -> Nat \ {0}]

VARIABLES status,     \* platform_accounts.status
          origin,     \* platform_accounts.origin_app_id
          phone,      \* phone_records.phone_hash of the account
          events,     \* ACCOUNT_* events published with the account's key, in order
          request,    \* handlers in flight
          log,        \* history: committed status changes of the account
          known,      \* history: accounts a POST /v1/customers gave to the app
          untold      \* history: places in log whose handler ended before it told of them

vars == <<status, origin, phone, events, request, log, known, untold>>

\* The statuses the code writes; frozen_kyc and closed_* are only in the CHECK.
Statuses == {"pending_onboarding", "active", "frozen_aml"}
Kinds    == {"activate", "suspend", "reactivate"}

\* Mutant: changeState does not look at fromStates.
FromAny(by) == Statuses

\* The TransitionConfig of the three routes.
From(by) == CASE by = "activate"   -> {"pending_onboarding"}
              [] by = "suspend"    -> {"active"}
              [] by = "reactivate" -> {"frozen_aml", "pending_onboarding"}

To(by) == IF by = "suspend" THEN "frozen_aml" ELSE "active"

Move == [by : Kinds \cup {"create"}, from : Statuses \cup {"absent"}, to : Statuses]

Creation == [by |-> "create", from |-> "absent", to |-> "pending_onboarding"]

Stages == {"idle", "create", "match", "welcome", "change", "commit", "announce"}

\* seen is the status the transaction read, at the place in log of its change.
Busy(stage, app, p, a, by, seen, at) ==
    [stage |-> stage, app |-> app, phone |-> p, acct |-> a, by |-> by, seen |-> seen, at |-> at]

Idle == Busy("idle", NoApp, NoPhone, NoAccount, "create", "absent", 0)

RequestOK ==
    /\ request \in [Requests -> [stage : Stages, app : Apps \cup {NoApp}, phone : Phones \cup {NoPhone},
                                 acct : Accounts \cup {NoAccount}, by : Kinds \cup {"create"},
                                 seen : Statuses \cup {"absent"}, at : Nat]]
    /\ \A r \in Requests :
          /\ request[r].stage \in {"create", "match", "welcome"} =>
                request[r].app \in Apps /\ request[r].phone \in Phones
          /\ request[r].stage \in {"welcome", "change", "commit", "announce"} =>
                request[r].acct \in Accounts
          /\ request[r].stage \in {"change", "commit", "announce"} => request[r].by \in Kinds

TypeOK ==
    /\ status \in [Accounts -> Statuses \cup {"absent"}]
    /\ origin \in [Accounts -> Apps \cup {NoApp}]
    /\ phone \in [Accounts -> Phones \cup {NoPhone}]
    /\ events \in [Accounts -> Seq([move : Move, at : Nat])]
    /\ RequestOK
    /\ log \in [Accounts -> Seq(Move)]
    /\ known \in [Apps -> SUBSET Accounts]
    /\ untold \in [Accounts -> SUBSET Nat]

Init ==
    /\ status = [a \in Accounts |-> "absent"]
    /\ origin = [a \in Accounts |-> NoApp]
    /\ phone = [a \in Accounts |-> NoPhone]
    /\ events = [a \in Accounts |-> <<>>]
    /\ request = [r \in Requests |-> Idle]
    /\ log = [a \in Accounts |-> <<>>]
    /\ known = [p \in Apps |-> {}]
    /\ untold = [a \in Accounts |-> {}]

At(r, s)  == request[r].stage = s
Set(r, q) == request' = [request EXCEPT ![r] = q]
Finish(r) == Set(r, Idle)

Taken(p) == \E a \in Accounts : phone[a] = p

\* Whose the numbers are, where a phone change may be authorised at any time.
Directory == INSTANCE PhoneDirectory WITH authorised <- Accounts \X Phones

-----------------------------------------------------------------------------
(* POST /v1/customers.                                                     *)

\* The request passed validation: an app registers a number.
Register(r, app, p) ==
    /\ At(r, "idle")
    /\ Set(r, Busy("create", app, p, NoAccount, "create", "absent", 0))
    /\ UNCHANGED <<status, origin, phone, events, log, known, untold>>

\* customersRepo.create: account and phone row in one transaction, under a
\* fresh UUID; the unique phone_hash makes it a phone_collision instead.
Create(r, a) ==
    LET q == request[r] IN
    /\ At(r, "create")
    /\ status[a] = "absent"
    /\ ~Taken(q.phone)
    /\ status' = [status EXCEPT ![a] = "pending_onboarding"]
    /\ origin' = [origin EXCEPT ![a] = q.app]
    /\ phone' = [phone EXCEPT ![a] = q.phone]
    /\ log' = [log EXCEPT ![a] = <<Creation>>]
    /\ Set(r, Busy("welcome", q.app, q.phone, a, "create", "absent", 1))
    /\ UNCHANGED <<events, known, untold>>

Collide(r) ==
    LET q == request[r] IN
    /\ At(r, "create")
    /\ Taken(q.phone)
    /\ Set(r, Busy("match", q.app, q.phone, NoAccount, "create", "absent", 0))
    /\ UNCHANGED <<status, origin, phone, events, log, known, untold>>

\* Mutant: whoever holds the number is given back to the caller.
MatchAnyApp(r) ==
    LET q == request[r] IN
    /\ At(r, "match")
    /\ known' = [known EXCEPT ![q.app] = @ \cup {a \in Accounts : phone[a] = q.phone}]
    /\ Finish(r)
    /\ UNCHANGED <<status, origin, phone, events, log, untold>>

\* findByPhoneHash after the collision: 200 with the app's own customer, 400
\* for anybody else's, or when the number has moved on meanwhile.
MatchExisting(r) ==
    LET q == request[r] IN
    /\ At(r, "match")
    /\ known' = [known EXCEPT ![q.app] =
                    @ \cup {a \in Accounts : phone[a] = q.phone /\ origin[a] = q.app}]
    /\ Finish(r)
    /\ UNCHANGED <<status, origin, phone, events, log, untold>>

\* Publish ACCOUNT_CREATED, audit, and the 201.
PublishCreated(r) ==
    LET q == request[r] IN
    /\ At(r, "welcome")
    /\ events' = [events EXCEPT ![q.acct] = Append(@, [move |-> Creation, at |-> 1])]
    /\ known' = [known EXCEPT ![q.app] = @ \cup {q.acct}]
    /\ Finish(r)
    /\ UNCHANGED <<status, origin, phone, log, untold>>

\* A phone change moves the account to a free number (module PhoneChange).
MovePhone(a, p) ==
    /\ Directory!Move(a, p)
    /\ UNCHANGED <<status, origin, events, request, log, known, untold>>

-----------------------------------------------------------------------------
(* /activate, /suspend and /reactivate.                                    *)

\* Neither route asks which app the account belongs to; an unknown UUID is 404.
Transition(r, a, by) ==
    /\ At(r, "idle")
    /\ status[a] # "absent"
    /\ Set(r, Busy("change", NoApp, NoPhone, a, by, "absent", 0))
    /\ UNCHANGED <<status, origin, phone, events, log, known, untold>>

\* A transaction that is open on the account's row.
Locked(a) == \E r \in Requests : At(r, "commit") /\ request[r].acct = a

\* Mutant of LockStatus: without FOR UPDATE.
ReadStatus(r) ==
    LET q == request[r] IN
    /\ At(r, "change")
    /\ IF status[q.acct] \in From(q.by)
       THEN /\ Len(log[q.acct]) < MaxMoves[q.acct]
            /\ Set(r, Busy("commit", NoApp, NoPhone, q.acct, q.by, status[q.acct], 0))
       ELSE Finish(r)
    /\ UNCHANGED <<status, origin, phone, events, log, known, untold>>

\* SELECT status ... FOR UPDATE; a status that is not in fromStates ends in
\* 200 already_active or in 409, and nothing is written or published.
LockStatus(r) == ~Locked(request[r].acct) /\ ReadStatus(r)

\* Mutant: the UPDATE is announced under the status found after it.
CommitStatusTold(r) ==
    LET q == request[r]
        move == [by |-> q.by, from |-> q.seen, to |-> To(q.by)]
    IN  /\ At(r, "commit")
        /\ status' = [status EXCEPT ![q.acct] = To(q.by)]
        /\ log' = [log EXCEPT ![q.acct] = Append(@, move)]
        /\ Set(r, Busy("announce", NoApp, NoPhone, q.acct, q.by, To(q.by), Len(log[q.acct]) + 1))
        /\ UNCHANGED <<origin, phone, events, known, untold>>

\* UPDATE status and COMMIT.
CommitStatus(r) ==
    LET q == request[r]
        move == [by |-> q.by, from |-> q.seen, to |-> To(q.by)]
    IN  /\ At(r, "commit")
        /\ status' = [status EXCEPT ![q.acct] = To(q.by)]
        /\ log' = [log EXCEPT ![q.acct] = Append(@, move)]
        /\ Set(r, Busy("announce", NoApp, NoPhone, q.acct, q.by, q.seen, Len(log[q.acct]) + 1))
        /\ UNCHANGED <<origin, phone, events, known, untold>>

\* Publish ACCOUNT_ACTIVATED, _SUSPENDED or _REACTIVATED, audit, and the 200.
PublishTransition(r) ==
    LET q == request[r]
        move == [by |-> q.by, from |-> q.seen, to |-> To(q.by)]
    IN  /\ At(r, "announce")
        /\ events' = [events EXCEPT ![q.acct] = Append(@, [move |-> move, at |-> q.at])]
        /\ Finish(r)
        /\ UNCHANGED <<status, origin, phone, log, known, untold>>

\* The process dies, a statement throws or the transaction rolls back.
Abort(r) ==
    LET q == request[r] IN
    /\ ~At(r, "idle")
    /\ untold' = IF q.stage \in {"welcome", "announce"}
                 THEN [untold EXCEPT ![q.acct] = @ \cup {q.at}]
                 ELSE untold
    /\ Finish(r)
    /\ UNCHANGED <<status, origin, phone, events, log, known>>

-----------------------------------------------------------------------------
Arrive(r) == \/ \E app \in Apps, p \in Phones : Register(r, app, p)
             \/ \E a \in Accounts, by \in Kinds : Transition(r, a, by)

Continue(r) == \/ \E a \in Accounts : Create(r, a)
               \/ Collide(r) \/ MatchExisting(r) \/ PublishCreated(r)
               \/ LockStatus(r) \/ CommitStatus(r) \/ PublishTransition(r)

Next == \/ \E a \in Accounts, p \in Phones : MovePhone(a, p)
        \/ \E r \in Requests : Arrive(r) \/ Continue(r) \/ Abort(r)

Spec == Init /\ [][Next]_vars

-----------------------------------------------------------------------------
(* Properties.                                                             *)

\* Two registrations of one number, by one app or two, leave one account; so
\* does a registration that races a phone change.
OneAccountPerPhone == \A a, b \in Accounts : phone[a] = phone[b] /\ phone[a] # NoPhone => a = b

\* POST /v1/customers gives an app only accounts it created itself, whoever
\* takes the number between the collision and the lookup.
OwnCustomersOnly == \A app \in Apps : \A a \in known[app] : origin[a] = app

\* The status changes of an account form a path of the state machine that ends
\* at its status: no transaction overwrites a change it has not seen.
LogIsPath ==
    \A a \in Accounts : LET rows == log[a] IN
        /\ status[a] = IF rows = <<>> THEN "absent" ELSE rows[Len(rows)].to
        /\ \A i \in DOMAIN rows :
              /\ i = 1 => rows[i] = Creation
              /\ i > 1 => /\ rows[i].from = rows[i - 1].to
                          /\ rows[i].by \in Kinds
                          /\ rows[i].from \in From(rows[i].by)

Places(told) == {told[i].at : i \in DOMAIN told}

\* Every event tells of one committed change as it was made, no change is told
\* twice, and none is kept back: what was not told is about to be, or was lost
\* with the one handler that had to tell it, since no retry does.
EventsTellLog ==
    \A a \in Accounts : LET told == events[a] IN
        /\ \A i \in DOMAIN told : told[i].at \in DOMAIN log[a] /\ told[i].move = log[a][told[i].at]
        /\ \A i, j \in DOMAIN told : told[i].at = told[j].at => i = j
        /\ \A i \in DOMAIN log[a] \ Places(told) :
              \/ i \in untold[a]
              \/ \E r \in Requests : /\ request[r].stage \in {"welcome", "announce"}
                                    /\ request[r].acct = a /\ request[r].at = i
        /\ untold[a] \cap Places(told) = {}

\* A frozen account becomes active again only by an operator's reactivate, even
\* when an activate read the account before it was frozen.
FreezeHolds ==
    [][\A a \in Accounts : status[a] = "frozen_aml" /\ status'[a] # "frozen_aml" =>
          \E r \in Requests : At(r, "commit") /\ request[r].acct = a /\ request[r].by = "reactivate"]_vars

Moves(rows) == [i \in DOMAIN rows |-> [by |-> rows[i].by, to |-> rows[i].to]]

\* The handlers implement the promise of AccountTrail.
Trail ==
    INSTANCE AccountTrail WITH
        trail <- [a \in Accounts |-> Moves(log[a])],
        told <- [a \in Accounts |-> Places(events[a])]

ImplementsTrail == Trail!Spec

\* To those that only look at the status of an account, the handlers are
\* activations and freezes of AccountStanding.
StandingOf(s) == CASE s = "active"     -> "active"
                   [] s = "frozen_aml" -> "frozen"
                   [] OTHER            -> "pending"

Standing == INSTANCE AccountStanding WITH standing <- [a \in Accounts |-> StandingOf(status[a])]

KeepsStanding == Standing!Spec

\* A number comes to an account as PhoneDirectory has it, by a registration or
\* by a move, whatever collisions the registration meets.
NumbersFromDirectory ==
    [][\E a \in Accounts, p \in Phones : Directory!Register(a, p) \/ Directory!Move(a, p)]_phone
=============================================================================
