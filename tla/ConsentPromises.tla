-------------------------- MODULE ConsentPromises --------------------------
(***************************************************************************)
(* What an account, and the rails that follow identiti.consent.events, may *)
(* rely on however ConsentGrants, of routes/consent.ts, serves callers.    *)
(***************************************************************************)
EXTENDS Naturals, Sequences

CONSTANTS Grants,    \* grant ids that can be generated
          Callers    \* handlers that can be in flight together

VARIABLES grant,     \* consent_grants rows
          topic,     \* identiti.consent.events, in order
          asking,    \* handlers in flight
          early,     \* history: grants told to another before CONSENT_GRANTED was published
          missed     \* history: events whose handler died before it published them

-----------------------------------------------------------------------------
\* Whatever grants and revocations of a key overlap, one of its grants at most
\* is open, so that to revoke it is to withdraw the consent.
OneOpenGrant ==
    \A g, h \in Grants :
        grant[g].status = "open" /\ grant[h].status = "open" /\ grant[g].key = grant[h].key => g = h

Published(type, g) == \E i \in DOMAIN topic : topic[i].type = type /\ topic[i].grant = g

TopicTrue ==
    /\ \A i, j \in DOMAIN topic : topic[i] = topic[j] => i = j
    /\ \A i \in DOMAIN topic : LET g == topic[i].grant IN
          IF topic[i].type = "CONSENT_GRANTED" THEN grant[g].status # "absent"
          ELSE /\ grant[g].status = "revoked"
               /\ g \in early \/ \E j \in 1 .. (i - 1) : topic[j].type = "CONSENT_GRANTED" /\ topic[j].grant = g

\* The event of g is still to be published by a handler at that stage, or never.
Owed(type, stage, g) == \/ \E r \in Callers : asking[r].stage = stage /\ asking[r].grant = g
                        \/ [type |-> type, grant |-> g] \in missed

GrantOwed(g)      == Owed("CONSENT_GRANTED", "granted", g)
RevocationOwed(g) == Owed("CONSENT_REVOKED", "revoked", g)

NoneKeptBack ==
    \A g \in Grants :
        /\ grant[g].status # "absent" => Published("CONSENT_GRANTED", g) \/ GrantOwed(g)
        /\ grant[g].status = "revoked" => Published("CONSENT_REVOKED", g) \/ RevocationOwed(g)

\* Who follows the events is told of committed changes only, of each once, and
\* of a revocation after the grant: or else somebody was told the id by a
\* conflict or a list before the grant was announced, and revoked it at once.
\* And of every change, unless its handler is about to tell of it, or died.
EventsTellGrants == TopicTrue /\ NoneKeptBack

\* A follower, who keeps as open what it was last told to be granted, is right
\* about every grant of which nothing is owed and that nobody knew early.
HeldOpen(g) == \E i \in DOMAIN topic :
    /\ topic[i].type = "CONSENT_GRANTED" /\ topic[i].grant = g
    /\ \A j \in DOMAIN topic : j > i => topic[j].grant # g

FollowersCatchUp ==
    \A g \in Grants \ early :
        ~GrantOwed(g) /\ ~RevocationOwed(g) => (HeldOpen(g) <=> grant[g].status = "open")
=============================================================================
