------------------------ MODULE IdempotencyPromises ------------------------
(***************************************************************************)
(* What a client that repeats a request with its Idempotency-Key may rely  *)
(* on however Idempotency, of the vendored idempotencyPlugin.js and        *)
(* adapters/idempotencyStore.ts, serves it.                                *)
(***************************************************************************)
EXTENDS Naturals, Sequences

CONSTANT Ttl         \* IDEMPOTENCY_TTL_SECONDS, in ticks of the clock

VARIABLES row,       \* idempotency_keys: the row of a key
          runs,      \* history: the runs of handlers, in order
          answers    \* history: what clients were told, replays included

-----------------------------------------------------------------------------
\* Every answer is that of a handler that ran for this key and this body,
\* however requests of one key with different bodies overlap.
AnswerIsToTheQuestion ==
    \A a \in answers : a.run \in DOMAIN runs /\ runs[a.run].key = a.key /\ runs[a.run].body = a.body

\* A client that asks when the key's answer is stored gets that very answer,
\* until the TTL has passed over it; no later writer of the key replaces it.
LateAskersReplay ==
    \A a \in answers : a.prior # 0 => a.run = row[a.key].run \/ a.at > row[a.key].at + Ttl
=============================================================================
