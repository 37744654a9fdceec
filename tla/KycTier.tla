------------------------------- MODULE KycTier -------------------------------
(***************************************************************************)
(* How an account rises from tier_0: the IPRS submission of routes/kyc.ts, *)
(* the operator's verdicts and tier override of routes/operator.ts, and    *)
(* the kyc_records, platform_accounts.tier and tier_history writes behind  *)
(* them.                                                                   *)
(*                                                                         *)
(* As in StepUp, a handler is one action per statement.  setTier is the    *)
(* exception: it is a transaction of four statements, of which the locking *)
(* SELECT and the commit are told apart.                                   *)
(***************************************************************************)
EXTENDS Integers, Sequences, FiniteSets

CONSTANTS Accounts,
          NationalIds,      \* national ID hashes
          Artefacts,        \* kyc_records ids (ver_<ULID>)
          Requests,         \* handlers that can be in flight together
          NoAccount, NoId, NoArtefact,
          MaxAssignments    \* bound on the tier_history rows of an account

ASSUME KycTierAssumption == /\ NoAccount \notin Accounts
                            /\ NoId \notin NationalIds
                            /\ NoArtefact \notin Artefacts
                            /\ MaxAssignments \in Nat \ {0}

VARIABLES record,       \* kyc_records rows
          tier,         \* platform_accounts.tier
          history,      \* tier_history rows of each account, oldest first
          request,      \* handlers in flight
          changed,      \* history: TIER_CHANGED events published
          approved,     \* history: KYC_APPROVED events published per artefact
          rejected,     \* history: KYC_REJECTED events published per artefact
          dropped,      \* history: artefacts whose handler died after the verdict
          untold        \* history: tier_history rows whose handler died before TIER_CHANGED

vars == <<record, tier, history, request, changed, approved, rejected, dropped, untold>>

Tiers    == {"tier_0", "tier_1", "tier_2"}
Kinds    == {"iprs_lookup", "document"}
Statuses == {"absent", "pending", "verified", "failed"}

Record == [status : Statuses, acct : Accounts \cup {NoAccount}, kind : Kinds \cup {"none"},
           tier : Tiers, nid : NationalIds \cup {NoId}]

NoRecord == [status |-> "absent", acct |-> NoAccount, kind |-> "none",
             tier |-> "tier_0", nid |-> NoId]

\* iprs_lookup rows are inserted with tier 'tier_1' and the hash.
IprsRecord(a, n, status) ==
    [status |-> status, acct |-> a, kind |-> "iprs_lookup", tier |-> "tier_1", nid |-> n]

Assignment == [tier : Tiers, why : {"default", "promotion", "override"}, open : BOOLEAN]

Stages == {"idle", "existing", "claim", "lookup", "refuse", "insert", "approve",
           "reread", "lock", "commit", "announce", "verdict", "reject", "rejected"}

\* acct and nid are the submission's, art the artefact decided on, seen the
\* tier the handler read last, to the tier it will set, at the tier_history row
\* it wrote.
Busy(stage, a, n, k, seen, to, at) ==
    [stage |-> stage, acct |-> a, nid |-> n, art |-> k, seen |-> seen, to |-> to, at |-> at]

Idle == Busy("idle", NoAccount, NoId, NoArtefact, "tier_0", "tier_1", 0)

RequestOK ==
    /\ request \in [Requests -> [stage : Stages, acct : Accounts \cup {NoAccount},
                                 nid : NationalIds \cup {NoId},
                                 art : Artefacts \cup {NoArtefact},
                                 seen : Tiers, to : Tiers, at : Nat]]
    /\ \A r \in Requests :
          /\ request[r].stage # "idle" => request[r].acct \in Accounts
          /\ request[r].stage \in {"existing", "claim", "lookup", "refuse", "insert"} =>
                request[r].nid \in NationalIds
          /\ request[r].stage \in {"approve", "reread", "verdict", "reject", "rejected"} =>
                request[r].art \in Artefacts

\* A row that exists belongs to an account.
RecordOK ==
    /\ record \in [Artefacts -> Record]
    /\ \A k \in Artefacts : record[k].status # "absent" => record[k].acct \in Accounts

TypeOK ==
    /\ RecordOK
    /\ tier \in [Accounts -> Tiers]
    /\ history \in [Accounts -> Seq(Assignment)]
    /\ RequestOK
    /\ changed \subseteq [acct : Accounts, at : Nat, from : Tiers, to : Tiers]
    /\ approved \in [Artefacts -> Nat]
    /\ rejected \in [Artefacts -> Nat]
    /\ dropped \subseteq Artefacts
    /\ untold \subseteq Accounts \X Nat

\* customersRepo.create has run for every account: tier_0 with its open row.
FirstAssignment == [tier |-> "tier_0", why |-> "default", open |-> TRUE]

Init ==
    /\ record = [k \in Artefacts |-> NoRecord]
    /\ tier = [a \in Accounts |-> "tier_0"]
    /\ history = [a \in Accounts |-> <<FirstAssignment>>]
    /\ request = [r \in Requests |-> Idle]
    /\ changed = {}
    /\ approved = [k \in Artefacts |-> 0]
    /\ rejected = [k \in Artefacts |-> 0]
    /\ dropped = {}
    /\ untold = {}

At(r, s)  == request[r].stage = s
Go(r, s)  == request' = [request EXCEPT ![r] = [@ EXCEPT !.stage = s]]
Finish(r) == request' = [request EXCEPT ![r] = Idle]

Verified(k) == record[k].status = "verified"

\* Some verified row carries the hash n: what the partial unique index sees.
Claimed(n) == \E k \in Artefacts : Verified(k) /\ record[k].nid = n

-----------------------------------------------------------------------------
(* POST /v1/customers/:uuid/kyc/iprs.                                      *)

\* findById: the tier read here is used after everything below.
SubmitIprs(r, a, n) ==
    /\ At(r, "idle")
    /\ request' = [request EXCEPT ![r] = Busy("existing", a, n, NoArtefact, tier[a], "tier_1", 0)]
    /\ UNCHANGED <<record, tier, history, changed, approved, rejected, dropped, untold>>

HasVerifiedIprs(a) ==
    \E k \in Artefacts : Verified(k) /\ record[k].acct = a /\ record[k].kind = "iprs_lookup"

\* listByAccount: 409 when the account already has a verified lookup.
CheckExisting(r) ==
    /\ At(r, "existing")
    /\ IF HasVerifiedIprs(request[r].acct) THEN Finish(r) ELSE Go(r, "claim")
    /\ UNCHANGED <<record, tier, history, changed, approved, rejected, dropped, untold>>

\* isNationalIdHashClaimedByOther: masked 422 when another account verified it.
CheckClaim(r) ==
    /\ At(r, "claim")
    /\ IF \E k \in Artefacts : /\ Verified(k) /\ record[k].nid = request[r].nid
                               /\ record[k].acct # request[r].acct
       THEN Finish(r)
       ELSE Go(r, "lookup")
    /\ UNCHANGED <<record, tier, history, changed, approved, rejected, dropped, untold>>

\* iprsService.lookup: unavailable (502, nothing written), failed or verified.
Lookup(r) ==
    /\ At(r, "lookup")
    /\ \/ Finish(r)
       \/ Go(r, "refuse")
       \/ Go(r, "insert")
    /\ UNCHANGED <<record, tier, history, changed, approved, rejected, dropped, untold>>

Unused(k) == record[k].status = "absent"

\* The failed lookup is recorded, which no index objects to.
InsertFailed(r, k) ==
    /\ At(r, "refuse")
    /\ Unused(k)
    /\ record' = [record EXCEPT ![k] = IprsRecord(request[r].acct, request[r].nid, "failed")]
    /\ Finish(r)
    /\ UNCHANGED <<tier, history, changed, approved, rejected, dropped, untold>>

\* Mutant: without the partial unique index on national_id_hash.
InsertVerifiedUnindexed(r, k) ==
    LET q == request[r] IN
    /\ At(r, "insert")
    /\ Unused(k)
    /\ record' = [record EXCEPT ![k] = IprsRecord(q.acct, q.nid, "verified")]
    /\ request' = [request EXCEPT ![r] =
                      Busy(IF q.seen = "tier_0" THEN "lock" ELSE "verdict",
                           q.acct, NoId, k, "tier_0", "tier_1", 0)]
    /\ UNCHANGED <<tier, history, changed, approved, rejected, dropped, untold>>

\* The verified row, and the decision to promote, which goes by the tier read
\* at the start.  A hash that has been verified meanwhile, even for the same
\* account, breaks the unique index: 500.
InsertVerified(r, k) ==
    LET q == request[r] IN
    /\ At(r, "insert")
    /\ Unused(k)
    /\ \/ /\ Claimed(q.nid)
          /\ Finish(r)
          /\ UNCHANGED record
       \/ /\ ~Claimed(q.nid)
          /\ record' = [record EXCEPT ![k] = IprsRecord(q.acct, q.nid, "verified")]
          /\ request' = [request EXCEPT ![r] =
                            Busy(IF q.seen = "tier_0" THEN "lock" ELSE "verdict",
                                 q.acct, NoId, k, "tier_0", "tier_1", 0)]
    /\ UNCHANGED <<tier, history, changed, approved, rejected, dropped, untold>>

-----------------------------------------------------------------------------
(* The operator's verdicts on pending artefacts.                           *)

\* A document artefact is waiting for review.  No route in src/ inserts it.
AwaitReview(k, a, t) ==
    /\ Unused(k)
    /\ record' = [record EXCEPT ![k] = [status |-> "pending", acct |-> a, kind |-> "document",
                                        tier |-> t, nid |-> NoId]]
    /\ UNCHANGED <<tier, history, request, changed, approved, rejected, dropped, untold>>

\* findById of /v1/operator/kyc/:id/approve and /reject: only a pending row.
Review(r, k, verdict) ==
    /\ At(r, "idle")
    /\ record[k].status = "pending"
    /\ verdict \in {"approve", "reject"}
    /\ request' = [request EXCEPT ![r] =
                      Busy(verdict, record[k].acct, NoId, k, "tier_0", "tier_1", 0)]
    /\ UNCHANGED <<record, tier, history, changed, approved, rejected, dropped, untold>>

\* Mutant: the route goes on although markVerified matched no row.
MarkVerifiedUnchecked(r) ==
    LET k == request[r].art IN
    /\ At(r, "approve")
    /\ record' = [record EXCEPT ![k].status = IF @ = "pending" THEN "verified" ELSE @]
    /\ Go(r, "reread")
    /\ UNCHANGED <<tier, history, changed, approved, rejected, dropped, untold>>

\* markVerified: UPDATE ... WHERE status = 'pending'; no row means 409.
MarkVerified(r) ==
    LET k == request[r].art IN
    /\ At(r, "approve")
    /\ \/ /\ record[k].status = "pending"
          /\ record' = [record EXCEPT ![k] = [@ EXCEPT !.status = "verified"]]
          /\ Go(r, "reread")
       \/ /\ record[k].status # "pending"
          /\ Finish(r)
          /\ UNCHANGED record
    /\ UNCHANGED <<tier, history, changed, approved, rejected, dropped, untold>>

\* Mutant: the artefact's tier is not looked at.
RereadAccountAnyArtefact(r) ==
    LET q == request[r] IN
    /\ At(r, "reread")
    /\ Go(r, IF tier[q.acct] = "tier_0" THEN "lock" ELSE "verdict")
    /\ UNCHANGED <<record, tier, history, changed, approved, rejected, dropped, untold>>

\* findById again: promote only from tier_0 and for a tier-1 artefact.
RereadAccount(r) ==
    LET q == request[r] IN
    /\ At(r, "reread")
    /\ Go(r, IF tier[q.acct] = "tier_0" /\ record[q.art].tier = "tier_1" THEN "lock" ELSE "verdict")
    /\ UNCHANGED <<record, tier, history, changed, approved, rejected, dropped, untold>>

\* markFailed: UPDATE ... WHERE status = 'pending'; no row means 409.
MarkFailed(r) ==
    LET k == request[r].art IN
    /\ At(r, "reject")
    /\ \/ /\ record[k].status = "pending"
          /\ record' = [record EXCEPT ![k] = [@ EXCEPT !.status = "failed"]]
          /\ Go(r, "rejected")
       \/ /\ record[k].status # "pending"
          /\ Finish(r)
          /\ UNCHANGED record
    /\ UNCHANGED <<tier, history, changed, approved, rejected, dropped, untold>>

\* Publish KYC_REJECTED, audit, 200.
PublishRejected(r) ==
    /\ At(r, "rejected")
    /\ rejected' = [rejected EXCEPT ![request[r].art] = @ + 1]
    /\ Finish(r)
    /\ UNCHANGED <<record, tier, history, changed, approved, dropped, untold>>

\* Publish KYC_APPROVED, audit, and the answer of the submission or the review.
PublishApproved(r) ==
    /\ At(r, "verdict")
    /\ approved' = [approved EXCEPT ![request[r].art] = @ + 1]
    /\ Finish(r)
    /\ UNCHANGED <<record, tier, history, changed, rejected, dropped, untold>>

-----------------------------------------------------------------------------
(* setTier.                                                                *)

\* POST /v1/operator/customers/:uuid/tier-override goes straight to setTier.
OverrideTier(r, a, t) ==
    /\ At(r, "idle")
    /\ request' = [request EXCEPT ![r] = Busy("lock", a, NoId, NoArtefact, "tier_0", t, 0)]
    /\ UNCHANGED <<record, tier, history, changed, approved, rejected, dropped, untold>>

\* A transaction that is open on the account's row.
Locked(a) == \E r \in Requests : At(r, "commit") /\ request[r].acct = a

\* Mutant of LockTier: without FOR UPDATE.
ReadTier(r) ==
    LET q == request[r] IN
    /\ At(r, "lock")
    /\ Len(history[q.acct]) < MaxAssignments
    /\ request' = [request EXCEPT ![r] =
                      Busy("commit", q.acct, NoId, q.art, tier[q.acct], q.to, 0)]
    /\ UNCHANGED <<record, tier, history, changed, approved, rejected, dropped, untold>>

\* SELECT tier ... FOR UPDATE waits for the row and reads fromTier.
LockTier(r) == ~Locked(request[r].acct) /\ ReadTier(r)

Closed(rows) == [i \in DOMAIN rows |-> [rows[i] EXCEPT !.open = FALSE]]

\* The open row is closed and a new open one inserted.
Reassigned(rows, to, why) ==
    Append(Closed(rows), [tier |-> to, why |-> why, open |-> TRUE])

Why(r) == IF request[r].art = NoArtefact THEN "override" ELSE "promotion"

\* The three writes, and COMMIT: a new tier, the open tier_history row closed
\* and a new open one, all seen by others at once.
CommitTier(r) ==
    LET q == request[r]
        rows == Reassigned(history[q.acct], q.to, Why(r))
    IN  /\ At(r, "commit")
        /\ tier' = [tier EXCEPT ![q.acct] = q.to]
        /\ history' = [history EXCEPT ![q.acct] = rows]
        /\ request' = [request EXCEPT ![r] =
                          Busy("announce", q.acct, NoId, q.art, q.seen, q.to, Len(rows))]
        /\ UNCHANGED <<record, changed, approved, rejected, dropped, untold>>

\* Publish TIER_CHANGED with the transaction's from, to and time.
PublishTierChanged(r) ==
    LET q == request[r] IN
    /\ At(r, "announce")
    /\ changed' = changed \cup {[acct |-> q.acct, at |-> q.at, from |-> q.seen, to |-> q.to]}
    /\ IF q.art = NoArtefact
       THEN Finish(r)
       ELSE request' = [request EXCEPT ![r] =
                           Busy("verdict", q.acct, NoId, q.art, "tier_0", "tier_1", 0)]
    /\ UNCHANGED <<record, tier, history, approved, rejected, dropped, untold>>

\* r has decided on an artefact, and has yet to say so.
Decided(r) == /\ request[r].art # NoArtefact
              /\ request[r].stage \in {"reread", "lock", "commit", "announce", "verdict", "rejected"}

\* The process dies, a statement throws or the transaction rolls back.
Abort(r) ==
    LET q == request[r] IN
    /\ ~At(r, "idle")
    /\ dropped' = IF Decided(r) THEN dropped \cup {q.art} ELSE dropped
    /\ untold' = IF At(r, "announce") THEN untold \cup {<<q.acct, q.at>>} ELSE untold
    /\ Finish(r)
    /\ UNCHANGED <<record, tier, history, changed, approved, rejected>>

-----------------------------------------------------------------------------
Arrive(r) == \/ \E a \in Accounts, n \in NationalIds : SubmitIprs(r, a, n)
             \/ \E k \in Artefacts, verdict \in {"approve", "reject"} : Review(r, k, verdict)
             \/ \E a \in Accounts, t \in Tiers : OverrideTier(r, a, t)

Continue(r) == \/ CheckExisting(r) \/ CheckClaim(r) \/ Lookup(r)
               \/ \E k \in Artefacts : InsertFailed(r, k) \/ InsertVerified(r, k)
               \/ MarkVerified(r) \/ RereadAccount(r) \/ MarkFailed(r)
               \/ PublishRejected(r) \/ PublishApproved(r)
               \/ LockTier(r) \/ CommitTier(r) \/ PublishTierChanged(r)

Next == \/ \E k \in Artefacts, a \in Accounts, t \in {"tier_1", "tier_2"} : AwaitReview(k, a, t)
        \/ \E r \in Requests : Arrive(r) \/ Continue(r) \/ Abort(r)

Spec == Init /\ [][Next]_vars

-----------------------------------------------------------------------------
(* Properties.                                                             *)

\* Two submissions of one national ID that pass both checks together do not
\* both end verified: an ID vouches for one artefact, of one account.
NationalIdUnique ==
    \A k, l \in Artefacts :
        Verified(k) /\ Verified(l) /\ record[k].nid = record[l].nid /\ record[k].nid # NoId => k = l

\* Verdicts that are due to be announced: a failed lookup only answers 422.
Settled(k) == Verified(k) \/ (record[k].status = "failed" /\ record[k].kind = "document")

OneVerdictTold ==
    \A k \in Artefacts : /\ approved[k] + rejected[k] <= 1
                         /\ approved[k] = 1 => record[k].status = "verified"
                         /\ rejected[k] = 1 => record[k].status = "failed"

NoVerdictKeptBack ==
    \A k \in Artefacts : Settled(k) =>
        \/ approved[k] + rejected[k] = 1 /\ k \notin dropped
        \/ approved[k] + rejected[k] = 0 /\ (k \in dropped \/ \E r \in Requests : Decided(r) /\ request[r].art = k)

\* An approval and a rejection that race for one artefact do not both
\* announce a verdict, and the one announced is the one recorded; a recorded
\* one is announced unless the handler that decided it is still at work or died.
VerdictsMatchRecords == OneVerdictTold /\ NoVerdictKeptBack

\* Accounts that hold verified tier-1 evidence.
Backed == {record[k].acct : k \in {l \in Artefacts : Verified(l) /\ record[l].tier = "tier_1"}}

OnEvidenceOnly ==
    \A a \in Accounts : \A i \in DOMAIN history[a] :
        history[a][i].why = "promotion" => a \in Backed

\* A handler that has verified k and may still promote its account for it.
Promoting(k) == \E r \in Requests :
    request[r].art = k /\ request[r].stage \in {"reread", "lock", "commit"}

EvidenceCounts ==
    \A k \in Artefacts :
        Verified(k) /\ record[k].tier = "tier_1" /\ Len(history[record[k].acct]) = 1 =>
            Promoting(k) \/ k \in dropped

\* Whatever a handler read before it called setTier, a promotion without an
\* operator's decision is only ever given on verified tier-1 evidence; and such
\* evidence never leaves an account at its first tier, unless the handler that
\* verified it is still to promote, or died.
PromotionsFollowEvidence == OnEvidenceOnly /\ EvidenceCounts

RowsExplain ==
    /\ \A a \in Accounts :
          /\ history[a][Len(history[a])].tier = tier[a]
          /\ \A i \in DOMAIN history[a] : history[a][i].open <=> i = Len(history[a])
    /\ \A e \in changed :
          /\ e.at \in 2 .. Len(history[e.acct])
          /\ history[e.acct][e.at].tier = e.to
          /\ history[e.acct][e.at - 1].tier = e.from

NoChangeKeptBack ==
    \A a \in Accounts : \A i \in 2 .. Len(history[a]) :
        \/ \E e \in changed : e.acct = a /\ e.at = i
        \/ \E r \in Requests : At(r, "announce") /\ request[r].acct = a /\ request[r].at = i
        \/ <<a, i>> \in untold

\* The tier of the account is the one open tier_history row, which is the
\* newest, and each TIER_CHANGED event tells of the two neighbouring rows its
\* transaction closed and opened, however many promotions and overrides meet;
\* no row is kept back unless its handler is about to tell of it, or died.
HistoryExplains == RowsExplain /\ NoChangeKeptBack

\* A verdict is never revised, by a late operator or a second submission.
VerdictIsFinal ==
    [][\A k \in Artefacts : record[k].status \in {"verified", "failed"} => record'[k] = record[k]]_vars

\* Who has a verified IPRS lookup keeps it, and accounts come by one singly:
\* what a registration of a business found of its directors stays true.
Identified == {a \in Accounts : HasVerifiedIprs(a)}

IdentifiedOneByOne ==
    [][\E a \in Accounts \ Identified : Identified' = Identified \cup {a}]_Identified

\* Which accounts the verified rows identify, and the tiers tier_history gives.
Claims == {<<record[k].acct, record[k].nid>> :
              k \in {l \in Artefacts : Verified(l) /\ record[l].nid # NoId}}

Assigned(rows) == [i \in DOMAIN rows |-> [tier |-> rows[i].tier, why |-> rows[i].why]]

\* The handlers implement the promise of AssuranceRegister.
Register ==
    INSTANCE AssuranceRegister WITH
        claims <- Claims,
        backed <- Backed,
        assignments <- [a \in Accounts |-> Assigned(history[a])]

ImplementsRegister == Register!Spec

\* The inductive invariant: what each handler may rely on where it stands.
\* One handler at most has decided on an artefact, and works on it.
DecidedInv ==
    \A r \in Requests : Decided(r) => LET k == request[r].art IN
        /\ record[k].status = IF At(r, "rejected") THEN "failed" ELSE "verified"
        /\ record[k].acct = request[r].acct
        /\ approved[k] = 0 /\ rejected[k] = 0
        /\ \A s \in Requests : Decided(s) /\ request[s].art = k => s = r

HandlerInv ==
    \A r \in Requests : LET q == request[r] IN
        /\ q.stage \in {"idle", "existing", "claim", "lookup", "refuse", "insert"} => q.art = NoArtefact
        /\ q.stage \in {"approve", "reject"} =>
              record[q.art].status # "absent" /\ record[q.art].acct = q.acct
        /\ q.art # NoArtefact => q.to = "tier_1"
        /\ q.stage \in {"lock", "commit"} /\ q.art # NoArtefact => record[q.art].tier = "tier_1"

\* A transaction is alone on its account, and what it read still holds.
LockInv ==
    \A r \in Requests : At(r, "commit") =>
        /\ request[r].seen = tier[request[r].acct]
        /\ \A s \in Requests : At(s, "commit") /\ request[s].acct = request[r].acct => s = r

AnnounceInv ==
    \A r \in Requests : LET q == request[r] IN
        At(r, "announce") => /\ q.at \in 2 .. Len(history[q.acct])
                             /\ history[q.acct][q.at].tier = q.to
                             /\ history[q.acct][q.at - 1].tier = q.seen

RecordInv ==
    \A k \in Artefacts :
        /\ record[k].status \in {"absent", "pending"} => approved[k] = 0 /\ rejected[k] = 0
        /\ record[k].status = "pending" => record[k].nid = NoId

HistoryInv == \A a \in Accounts : Len(history[a]) >= 1

IInv == /\ TypeOK /\ NationalIdUnique /\ OneVerdictTold /\ OnEvidenceOnly /\ RowsExplain
        /\ DecidedInv /\ HandlerInv /\ LockInv /\ AnnounceInv /\ RecordInv /\ HistoryInv

\* What shows, on top of it, that nothing is kept back: an account that is not
\* at tier_0, and so one that a submission did not see there, has been assigned
\* a tier; and what was dropped is nobody's.
TierSeenInv ==
    /\ \A a \in Accounts : tier[a] # "tier_0" => Len(history[a]) > 1
    /\ \A r \in Requests :
          request[r].stage \in {"existing", "claim", "lookup", "insert"} /\ request[r].seen # "tier_0" =>
              Len(history[request[r].acct]) > 1

DroppedInv ==
    /\ \A k \in Artefacts : record[k].status = "pending" => record[k].kind = "document"
    /\ \A k \in dropped : Settled(k) /\ approved[k] = 0 /\ rejected[k] = 0
    /\ \A r \in Requests : Decided(r) => request[r].art \notin dropped /\ Settled(request[r].art)

KeptInv == NoVerdictKeptBack /\ EvidenceCounts /\ NoChangeKeptBack /\ TierSeenInv /\ DroppedInv
=============================================================================
