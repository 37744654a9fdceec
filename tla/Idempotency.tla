---------------------------- MODULE Idempotency ----------------------------
(***************************************************************************)
(* The idempotency keys every POST carries: the preHandler and onSend      *)
(* hooks of the vendored idempotencyPlugin.js around a handler, and        *)
(* adapters/idempotencyStore.ts under them.  The app, the method, the path *)
(* and the header together are a key.  A handler is one action, its run;   *)
(* whatever it answers, a 4xx or the 500 of an exception too, is stored.   *)
(***************************************************************************)
EXTENDS IdempotencyPromises

CONSTANTS Keys, Bodies, Requests,
          NoKey, NoBody,
          MaxClock,     \* bound on the clock
          MaxRuns       \* bound on the runs of handlers

ASSUME IdempotencyAssumption == /\ NoKey \notin Keys /\ NoBody \notin Bodies
                                /\ Ttl \in Nat /\ MaxClock \in Nat /\ MaxRuns \in Nat

VARIABLES clock,
          request    \* requests in flight

vars == <<clock, row, request, runs, answers>>

NoRow == [body |-> NoBody, run |-> 0, at |-> 0, expires |-> 0]

Stages == {"idle", "lookup", "handle", "store"}

\* `prior` is the run whose answer was stored, and not expired, when the client asked.
Busy(stage, k, b, prior, run) ==
    [stage |-> stage, key |-> k, body |-> b, prior |-> prior, run |-> run]

Idle == Busy("idle", NoKey, NoBody, 0, 0)

Answer(q, run) == [key |-> q.key, body |-> q.body, prior |-> q.prior, run |-> run, at |-> clock]

TypeOK ==
    /\ clock \in Nat
    /\ row \in [Keys -> [body : Bodies \cup {NoBody}, run : Nat, at : Nat, expires : Nat]]
    /\ request \in [Requests -> [stage : Stages, key : Keys \cup {NoKey}, body : Bodies \cup {NoBody},
                                 prior : Nat, run : Nat]]
    /\ \A r \in Requests :
          /\ request[r].stage # "idle" => request[r].key \in Keys /\ request[r].body \in Bodies
          /\ request[r].stage = "store" => request[r].run \in DOMAIN runs
    /\ runs \in Seq([key : Keys, body : Bodies, prior : Nat, at : Nat])
    /\ answers \in SUBSET [key : Keys, body : Bodies, prior : Nat, run : Nat, at : Nat]

Init ==
    /\ clock = 0
    /\ row = [k \in Keys |-> NoRow]
    /\ request = [r \in Requests |-> Idle]
    /\ runs = <<>>
    /\ answers = {}

At(r, s)  == request[r].stage = s
Set(r, q) == request' = [request EXCEPT ![r] = q]

Stored(k) == row[k].run # 0

\* store.get finds a row that has not expired.
Live(k) == Stored(k) /\ clock <= row[k].expires

Tick == clock < MaxClock /\ clock' = clock + 1 /\ UNCHANGED <<row, request, runs, answers>>

Ask(r, k, b) ==
    /\ At(r, "idle")
    /\ Set(r, Busy("lookup", k, b, IF Live(k) THEN row[k].run ELSE 0, 0))
    /\ UNCHANGED <<clock, row, runs, answers>>

\* Mutant: a stored answer is replayed whatever the body.
ReplayAnyBody(r) ==
    LET q == request[r] IN
    /\ At(r, "lookup")
    /\ Live(q.key)
    /\ answers' = answers \cup {Answer(q, row[q.key].run)}
    /\ Set(r, Idle)
    /\ UNCHANGED <<clock, row, runs>>

\* The preHandler finds the key with this body, and replays.
Replay(r) ==
    LET q == request[r] IN
    /\ At(r, "lookup")
    /\ Live(q.key) /\ row[q.key].body = q.body
    /\ answers' = answers \cup {Answer(q, row[q.key].run)}
    /\ Set(r, Idle)
    /\ UNCHANGED <<clock, row, runs>>

\* The key with another body: 409, which is not stored.
Conflict(r) ==
    LET q == request[r] IN
    /\ At(r, "lookup")
    /\ Live(q.key) /\ row[q.key].body # q.body
    /\ Set(r, Idle)
    /\ UNCHANGED <<clock, row, runs, answers>>

\* No row, or an expired one: the request goes on to its handler.
Miss(r) ==
    LET q == request[r] IN
    /\ At(r, "lookup")
    /\ ~Live(q.key)
    /\ Set(r, Busy("handle", q.key, q.body, q.prior, 0))
    /\ UNCHANGED <<clock, row, runs, answers>>

\* The handler, with all its effects.
Handle(r) ==
    LET q == request[r] IN
    /\ At(r, "handle")
    /\ Len(runs) < MaxRuns
    /\ runs' = Append(runs, [key |-> q.key, body |-> q.body, prior |-> q.prior, at |-> clock])
    /\ Set(r, Busy("store", q.key, q.body, q.prior, Len(runs) + 1))
    /\ UNCHANGED <<clock, row, answers>>

NewRow(q) == [body |-> q.body, run |-> q.run, at |-> clock, expires |-> clock + Ttl]

\* Mutant: onConflictDoUpdate.
StoreLast(r) ==
    LET q == request[r] IN
    /\ At(r, "store")
    /\ row' = [row EXCEPT ![q.key] = NewRow(q)]
    /\ answers' = answers \cup {Answer(q, q.run)}
    /\ Set(r, Idle)
    /\ UNCHANGED <<clock, runs>>

\* onSend: INSERT ... ON CONFLICT DO NOTHING, and the answer is sent.
Store(r) ==
    LET q == request[r] IN
    /\ At(r, "store")
    /\ row' = IF Stored(q.key) THEN row ELSE [row EXCEPT ![q.key] = NewRow(q)]
    /\ answers' = answers \cup {Answer(q, q.run)}
    /\ Set(r, Idle)
    /\ UNCHANGED <<clock, runs>>

\* The process dies, or the store cannot be reached; no answer of a handler is sent.
Abort(r) == ~At(r, "idle") /\ Set(r, Idle) /\ UNCHANGED <<clock, row, runs, answers>>

Next ==
    \/ Tick
    \/ \E r \in Requests :
          \/ \E k \in Keys, b \in Bodies : Ask(r, k, b)
          \/ Replay(r) \/ Conflict(r) \/ Miss(r) \/ Handle(r) \/ Store(r)
          \/ Abort(r)

Spec == Init /\ [][Next]_vars

-----------------------------------------------------------------------------
(* Properties of the handlers; those of the answers: IdempotencyPromises.  *)

\* Within the TTL a stored answer keeps the handler from running again for
\* whoever asks after it, also when the two requests then overlap with others.
StoredNeverRunsAgain ==
    \A i \in DOMAIN runs : runs[i].prior # 0 => runs[i].at > row[runs[i].key].at + Ttl
=============================================================================
