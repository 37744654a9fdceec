---------------------------- MODULE ConsentGrants ----------------------------
(***************************************************************************)
(* Consent: POST /v1/consent/grants and .../revoke of routes/consent.ts    *)
(* over repositories/consentGrants.ts, and the events other rails follow.  *)
(* A grant is given to an app, for an account and a scope; the three are   *)
(* one key here, since nothing looks at them apart but lists.              *)
(*                                                                         *)
(* Who wants to revoke a grant must know its id, and there are three ways  *)
(* to: the answer of the grant, the conflict of a later one, and the list. *)
(***************************************************************************)
EXTENDS ConsentPromises

CONSTANTS Keys,       \* (account, app, scope)
          NoKey, NoGrant

ASSUME ConsentAssumption == NoKey \notin Keys /\ NoGrant \notin Grants

VARIABLE known      \* grants whose id a caller has been told

vars == <<grant, asking, topic, known, early, missed>>

Row   == [status : {"absent", "open", "revoked"}, key : Keys \cup {NoKey}]
Event == [type : {"CONSENT_GRANTED", "CONSENT_REVOKED"}, grant : Grants]

Busy(stage, g, k) == [stage |-> stage, grant |-> g, key |-> k]

Idle == Busy("idle", NoGrant, NoKey)

TypeOK ==
    /\ grant \in [Grants -> Row]
    /\ topic \in Seq(Event)
    /\ known \in SUBSET Grants
    /\ early \in SUBSET known
    /\ missed \in SUBSET Event
    /\ asking \in [Callers -> [stage : {"idle", "insert", "find", "granted", "reply", "revoked"},
                                 grant : Grants \cup {NoGrant}, key : Keys \cup {NoKey}]]

Init ==
    /\ grant = [g \in Grants |-> [status |-> "absent", key |-> NoKey]]
    /\ asking = [r \in Callers |-> Idle]
    /\ topic = <<>>
    /\ known = {} /\ early = {} /\ missed = {}

At(r, s)  == asking[r].stage = s
Set(r, q) == asking' = [asking EXCEPT ![r] = q]
Go(r, s)  == Set(r, Busy(s, asking[r].grant, asking[r].key))
Finish(r) == Set(r, Idle)

OpenFor(k) == {g \in Grants : grant[g].status = "open" /\ grant[g].key = k}

Publish(type, g) == topic' = Append(topic, [type |-> type, grant |-> g])

\* A caller who did not ask for g is told its id.
Tell(g) == /\ known' = known \cup {g}
           /\ early' = IF Published("CONSENT_GRANTED", g) \/ g \in known THEN early ELSE early \cup {g}

-----------------------------------------------------------------------------
(* POST /v1/consent/grants                                                 *)

\* The account exists; generateUlid.
AskGrant(r, g, k) ==
    /\ At(r, "idle")
    /\ grant[g].status = "absent"
    /\ \A s \in Callers : asking[s].grant # g
    /\ Set(r, Busy("insert", g, k))
    /\ UNCHANGED <<grant, topic, known, early, missed>>

\* Mutant: without consent_grants_open_uniq.
InsertAnyway(r) ==
    /\ At(r, "insert")
    /\ grant' = [grant EXCEPT ![asking[r].grant] = [status |-> "open", key |-> asking[r].key]]
    /\ Go(r, "granted")
    /\ UNCHANGED <<topic, known, early, missed>>

\* The INSERT of create.
Insert(r) ==
    /\ At(r, "insert")
    /\ OpenFor(asking[r].key) = {}
    /\ grant' = [grant EXCEPT ![asking[r].grant] = [status |-> "open", key |-> asking[r].key]]
    /\ Go(r, "granted")
    /\ UNCHANGED <<topic, known, early, missed>>

\* 23505 on consent_grants_open_uniq.
Collide(r) ==
    /\ At(r, "insert")
    /\ OpenFor(asking[r].key) # {}
    /\ Set(r, Busy("find", NoGrant, asking[r].key))
    /\ UNCHANGED <<grant, topic, known, early, missed>>

\* findOpen: 409 with the id of the open grant.
FindOpen(r) ==
    /\ At(r, "find")
    /\ \E g \in OpenFor(asking[r].key) : Tell(g)
    /\ Finish(r)
    /\ UNCHANGED <<grant, topic, missed>>

\* findOpen finds nothing, for the grant was revoked meanwhile: 500.
FindNone(r) ==
    /\ At(r, "find")
    /\ OpenFor(asking[r].key) = {}
    /\ Finish(r)
    /\ UNCHANGED <<grant, topic, known, early, missed>>

\* Mutant: the answer does not wait for the event.
ReplyFirst(r) == At(r, "granted") /\ Go(r, "reply") /\ UNCHANGED <<grant, topic, known, early, missed>>

\* CONSENT_GRANTED, outside of any transaction.
PublishGranted(r) ==
    /\ At(r, "granted")
    /\ Publish("CONSENT_GRANTED", asking[r].grant)
    /\ Go(r, "reply")
    /\ UNCHANGED <<grant, known, early, missed>>

\* The audit row and 201, with the id.
Reply(r) ==
    /\ At(r, "reply")
    /\ known' = known \cup {asking[r].grant}
    /\ Finish(r)
    /\ UNCHANGED <<grant, topic, early, missed>>

-----------------------------------------------------------------------------
\* GET /v1/consent/:account_uuid: a list of what is open.
List(k) ==
    /\ \E g \in OpenFor(k) : g \notin known /\ Tell(g)
    /\ UNCHANGED <<grant, asking, topic, missed>>

(* POST /v1/consent/grants/:grant_id/revoke                                *)

\* The transaction of revoke, which locks the row: one of many revokes it.  The
\* others answer 409 and do nothing.
Revoke(r, g) ==
    /\ At(r, "idle")
    /\ g \in known
    /\ grant[g].status = "open"
    /\ grant' = [grant EXCEPT ![g].status = "revoked"]
    /\ Set(r, Busy("revoked", g, NoKey))
    /\ UNCHANGED <<topic, known, early, missed>>

\* CONSENT_REVOKED, the audit row, 200.
PublishRevoked(r) ==
    /\ At(r, "revoked")
    /\ Publish("CONSENT_REVOKED", asking[r].grant)
    /\ Finish(r)
    /\ UNCHANGED <<grant, known, early, missed>>

\* The event that the handler r was about to publish.
Due(r) == {e \in Event : /\ e.grant = asking[r].grant
                         /\ \/ At(r, "granted") /\ e.type = "CONSENT_GRANTED"
                            \/ At(r, "revoked") /\ e.type = "CONSENT_REVOKED"}

\* The process dies, or a statement throws: 500.
Abort(r) ==
    /\ ~At(r, "idle")
    /\ missed' = missed \cup Due(r)
    /\ Finish(r)
    /\ UNCHANGED <<grant, topic, known, early>>

Next ==
    \/ \E k \in Keys : List(k)
    \/ \E r \in Callers :
          \/ \E g \in Grants, k \in Keys : AskGrant(r, g, k)
          \/ Insert(r) \/ Collide(r) \/ FindOpen(r) \/ FindNone(r)
          \/ PublishGranted(r) \/ Reply(r)
          \/ \E g \in Grants : Revoke(r, g)
          \/ PublishRevoked(r) \/ Abort(r)

Spec == Init /\ [][Next]_vars
=============================================================================
