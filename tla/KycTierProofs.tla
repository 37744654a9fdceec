---------------------------- MODULE KycTierProofs ----------------------------
(***************************************************************************)
(* For any number of accounts, national IDs, artefacts and concurrent      *)
(* requests: the safety invariants of KycTier, and that it implements      *)
(* AssuranceRegister.                                                      *)
(***************************************************************************)
EXTENDS KycTier, SequenceTheorems, TLAPS

USE DEF At, Verified

\* Every variable keeps its type.
LEMMA TypeInit == Init => TypeOK
<1>. SUFFICES ASSUME Init PROVE TypeOK
  OBVIOUS
<1>. USE DEF Init
<1>1. RequestOK
  BY DEF RequestOK, Idle, Busy, Stages, Tiers
<1>2. record \in [Artefacts -> Record]
  BY DEF NoRecord, Record, Statuses, Kinds, Tiers
<1>5. RecordOK
  BY <1>2 DEF RecordOK, NoRecord
<1>3. FirstAssignment \in Assignment
  BY DEF FirstAssignment, Assignment, Tiers
<1>4. <<FirstAssignment>> \in Seq(Assignment)
  BY <1>3
<1>. QED
  BY <1>1, <1>4, <1>5 DEF TypeOK, Tiers

\* A step that moves one handler to a well-formed record.
LEMMA BusyStep ==
    ASSUME RequestOK, NEW r \in Requests, NEW s \in Stages, NEW a \in Accounts,
           NEW n \in NationalIds \cup {NoId}, NEW k \in Artefacts \cup {NoArtefact},
           NEW seen \in Tiers, NEW to \in Tiers, NEW at \in Nat,
           s \in {"existing", "claim", "lookup", "refuse", "insert"} => n \in NationalIds,
           s \in {"approve", "reread", "verdict", "reject", "rejected"} => k \in Artefacts,
           request' = [request EXCEPT ![r] = Busy(s, a, n, k, seen, to, at)]
    PROVE  RequestOK'
BY DEF RequestOK, Busy

LEMMA GoStep ==
    ASSUME RequestOK, NEW r \in Requests, request[r].stage # "idle", NEW s \in Stages,
           s \in {"existing", "claim", "lookup", "refuse", "insert"} => request[r].nid \in NationalIds,
           s \in {"approve", "reread", "verdict", "reject", "rejected"} => request[r].art \in Artefacts,
           Go(r, s)
    PROVE  RequestOK'
BY DEF RequestOK, Go

LEMMA FinishStep == ASSUME RequestOK, NEW r \in Requests, Finish(r) PROVE RequestOK'
BY DEF RequestOK, Finish, Idle, Busy, Stages, Tiers

\* Rows of kyc_records stay rows.
LEMMA RecordStep ==
    ASSUME RecordOK, NEW k \in Artefacts, NEW row \in Record, row.acct \in Accounts,
           record' = [record EXCEPT ![k] = row]
    PROVE  RecordOK'
BY DEF RecordOK

LEMMA RowFacts ==
    ASSUME NEW a \in Accounts, NEW n \in NationalIds, NEW status \in Statuses
    PROVE  IprsRecord(a, n, status) \in Record
BY DEF IprsRecord, Record, Kinds, Tiers

LEMMA StatusStep ==
    ASSUME NEW row \in Record, NEW status \in Statuses
    PROVE  [row EXCEPT !.status = status] \in Record
BY DEF Record

\* The rows CommitTier writes: the old ones, closed, and one more.
LEMMA RowsFacts ==
    ASSUME NEW h \in Seq(Assignment), NEW t \in Tiers, NEW why \in {"promotion", "override"}
    PROVE  LET rows == Reassigned(h, t, why) IN
           /\ rows \in Seq(Assignment)
           /\ Len(rows) = Len(h) + 1
           /\ rows[Len(rows)] = [tier |-> t, why |-> why, open |-> TRUE]
           /\ \A i \in 1 .. Len(h) : /\ rows[i].tier = h[i].tier
                                     /\ rows[i].why = h[i].why
                                     /\ ~rows[i].open
<1>. DEFINE rows == Reassigned(h, t, why)
<1>. DEFINE new == [tier |-> t, why |-> why, open |-> TRUE]
<1>1. new \in Assignment
  BY DEF Assignment
<1>2. \A row \in Assignment : /\ [row EXCEPT !.open = FALSE] \in Assignment
                              /\ [row EXCEPT !.open = FALSE].tier = row.tier
                              /\ [row EXCEPT !.open = FALSE].why = row.why
                              /\ ~[row EXCEPT !.open = FALSE].open
  BY DEF Assignment
<1>3. \A i \in 1 .. Len(h) : h[i] \in Assignment
  OBVIOUS
<1>4. DOMAIN Closed(h) = 1 .. Len(h) /\ \A i \in 1 .. Len(h) : Closed(h)[i] = [h[i] EXCEPT !.open = FALSE]
  <2>1. DOMAIN h = 1 .. Len(h)
    OBVIOUS
  <2>. QED
    BY <2>1, Zenon DEF Closed
<1>5. Closed(h) \in [1 .. Len(h) -> Assignment]
  BY <1>2, <1>3 DEF Closed
<1>. DEFINE c == Closed(h)
<1>6. c \in Seq(Assignment) /\ Len(c) = Len(h)
  <2>1. Len(h) \in Nat
    OBVIOUS
  <2>. HIDE DEF c
  <2>2. c \in [1 .. Len(h) -> Assignment]
    BY <1>5 DEF c
  <2>. QED
    BY <2>1, <2>2, SMTT(30)
<1>7. \A i \in 1 .. Len(h) : c[i].tier = h[i].tier /\ c[i].why = h[i].why /\ ~c[i].open
  BY <1>2, <1>3, <1>4, ZenonT(60)
<1>. HIDE DEF new, c
<1>8. rows = Append(c, new)
  BY DEF c, new, Reassigned
<1>. HIDE DEF rows
<1>9. rows \in Seq(Assignment) /\ Len(rows) = Len(h) + 1 /\ rows[Len(h) + 1] = new
  <2>1. /\ Append(c, new) \in Seq(Assignment)
        /\ Len(Append(c, new)) = Len(c) + 1
        /\ Append(c, new)[Len(c) + 1] = new
    BY <1>1, <1>6, AppendProperties
  <2>. QED
    BY <2>1, <1>6, <1>8
<1>10. \A i \in 1 .. Len(h) : rows[i] = c[i]
  BY <1>6, <1>8
<1>. QED
  BY <1>7, <1>9, <1>10 DEF new, rows

\* What a handler in flight holds.
LEMMA InFlight ==
    ASSUME TypeOK, NEW r \in Requests, request[r].stage # "idle"
    PROVE  /\ request[r].acct \in Accounts
           /\ request[r].nid \in NationalIds \cup {NoId}
           /\ request[r].art \in Artefacts \cup {NoArtefact}
           /\ request[r].seen \in Tiers /\ request[r].to \in Tiers /\ request[r].at \in Nat
           /\ request[r].stage \in {"existing", "claim", "lookup", "refuse", "insert"} =>
                 request[r].nid \in NationalIds
           /\ request[r].stage \in {"approve", "reread", "verdict", "reject", "rejected"} =>
                 request[r].art \in Artefacts
           /\ tier[request[r].acct] \in Tiers
           /\ history[request[r].acct] \in Seq(Assignment)
BY DEF TypeOK, RequestOK

\* What CommitTier writes.
LEMMA CommitFacts ==
    ASSUME TypeOK, NEW r \in Requests, CommitTier(r)
    PROVE  \E rows \in Seq(Assignment) : LET q == request[r] IN
              /\ Len(rows) = Len(history[q.acct]) + 1
              /\ rows[Len(rows)] = [tier |-> q.to, why |-> Why(r), open |-> TRUE]
              /\ \A i \in 1 .. Len(history[q.acct]) :
                    /\ rows[i].tier = history[q.acct][i].tier
                    /\ rows[i].why = history[q.acct][i].why
                    /\ ~rows[i].open
              /\ tier' = [tier EXCEPT ![q.acct] = q.to]
              /\ history' = [history EXCEPT ![q.acct] = rows]
              /\ request' = [request EXCEPT ![r] =
                                Busy("announce", q.acct, NoId, q.art, q.seen, q.to, Len(rows))]
              /\ UNCHANGED <<record, changed, approved, rejected, dropped, untold>>
<1>. DEFINE q == request[r]
            rows == Reassigned(history[q.acct], q.to, Why(r))
<1>1. /\ At(r, "commit") /\ q.to \in Tiers /\ history[q.acct] \in Seq(Assignment)
  BY InFlight DEF CommitTier
<1>2. Why(r) \in {"promotion", "override"}
  BY DEF Why
<1>3. /\ rows \in Seq(Assignment) /\ Len(rows) = Len(history[q.acct]) + 1
      /\ rows[Len(rows)] = [tier |-> q.to, why |-> Why(r), open |-> TRUE]
      /\ \A i \in 1 .. Len(history[q.acct]) : /\ rows[i].tier = history[q.acct][i].tier
                                              /\ rows[i].why = history[q.acct][i].why
                                              /\ ~rows[i].open
  BY <1>1, <1>2, RowsFacts
<1>4. /\ tier' = [tier EXCEPT ![q.acct] = q.to]
      /\ history' = [history EXCEPT ![q.acct] = rows]
      /\ request' = [request EXCEPT ![r] =
                        Busy("announce", q.acct, NoId, q.art, q.seen, q.to, Len(rows))]
      /\ UNCHANGED <<record, changed, approved, rejected, dropped, untold>>
  BY DEF CommitTier
<1>. HIDE DEF rows
<1>. QED
  BY <1>3, <1>4

LEMMA TypeStep == TypeOK /\ [Next]_vars => TypeOK'
<1>. SUFFICES ASSUME TypeOK, [Next]_vars PROVE TypeOK'
  OBVIOUS
<1>0. ASSUME RequestOK', UNCHANGED <<record, tier, history, changed, approved, rejected, dropped, untold>> PROVE TypeOK'
  BY <1>0 DEF TypeOK, RecordOK
<1>01. ASSUME RequestOK', NEW k \in Artefacts, NEW row \in Record, row.acct \in Accounts,
             record' = [record EXCEPT ![k] = row], UNCHANGED <<tier, history, changed, approved, rejected, dropped, untold>>
       PROVE TypeOK'
  BY <1>01, RecordStep DEF TypeOK
<1>02. RequestOK
  BY DEF TypeOK
<1>03. ASSUME UNCHANGED record PROVE RecordOK'
  BY <1>03 DEF TypeOK, RecordOK
<1>1. ASSUME NEW k \in Artefacts, NEW a \in Accounts, NEW t \in {"tier_1", "tier_2"}, AwaitReview(k, a, t)
      PROVE  TypeOK'
  <2>. DEFINE row == [status |-> "pending", acct |-> a, kind |-> "document", tier |-> t, nid |-> NoId]
  <2>1. row \in Record /\ row.acct \in Accounts
    BY DEF Record, Statuses, Kinds, Tiers
  <2>2. record' = [record EXCEPT ![k] = row] /\ UNCHANGED <<request, tier, history, changed, approved, rejected, dropped, untold>>
    BY <1>1 DEF AwaitReview
  <2>. HIDE DEF row
  <2>. QED
    BY <2>1, <2>2, <1>01, <1>02 DEF RequestOK
<1>2. ASSUME NEW r \in Requests, Arrive(r) PROVE TypeOK'
  <2>1. ASSUME NEW a \in Accounts, NEW n \in NationalIds, SubmitIprs(r, a, n) PROVE TypeOK'
    <3>1. request' = [request EXCEPT ![r] = Busy("existing", a, n, NoArtefact, tier[a], "tier_1", 0)]
      BY <2>1 DEF SubmitIprs
    <3>2. tier[a] \in Tiers /\ "tier_1" \in Tiers
      BY DEF TypeOK, Tiers
    <3>3. RequestOK'
      BY <1>02, <3>1, <3>2, BusyStep, ZenonT(60) DEF Stages
    <3>. QED
      BY <1>0, <2>1, <3>3 DEF SubmitIprs
  <2>2. ASSUME NEW k \in Artefacts, NEW verdict \in {"approve", "reject"}, Review(r, k, verdict)
        PROVE TypeOK'
    <3>0. record[k].acct \in Accounts
      BY <2>2 DEF Review, TypeOK, RecordOK
    <3>1. request' = [request EXCEPT ![r] = Busy(verdict, record[k].acct, NoId, k, "tier_0", "tier_1", 0)]
      BY <2>2 DEF Review
    <3>2. /\ verdict \in Stages /\ {"tier_0", "tier_1"} \subseteq Tiers /\ 0 \in Nat
          /\ NoId \in NationalIds \cup {NoId} /\ k \in Artefacts \cup {NoArtefact}
          /\ verdict \notin {"existing", "claim", "lookup", "refuse", "insert"}
      BY <2>2 DEF Stages, Tiers
    <3>3. RequestOK'
      BY <1>02, <3>0, <3>1, <3>2, BusyStep, ZenonT(60)
    <3>. QED
      BY <1>0, <2>2, <3>3 DEF Review
  <2>3. ASSUME NEW a \in Accounts, NEW t \in Tiers, OverrideTier(r, a, t) PROVE TypeOK'
    <3>1. request' = [request EXCEPT ![r] = Busy("lock", a, NoId, NoArtefact, "tier_0", t, 0)]
      BY <2>3 DEF OverrideTier
    <3>2. /\ "lock" \in Stages /\ "tier_0" \in Tiers /\ 0 \in Nat
          /\ NoId \in NationalIds \cup {NoId} /\ NoArtefact \in Artefacts \cup {NoArtefact}
          /\ "lock" \notin {"existing", "claim", "lookup", "refuse", "insert"}
          /\ "lock" \notin {"approve", "reread", "verdict", "reject", "rejected"}
      BY DEF Stages, Tiers
    <3>3. RequestOK'
      BY <1>02, <3>1, <3>2, BusyStep, ZenonT(60)
    <3>. QED
      BY <1>0, <2>3, <3>3 DEF OverrideTier
  <2>. QED
    BY <1>2, <2>1, <2>2, <2>3 DEF Arrive
<1>3. ASSUME NEW r \in Requests, Continue(r) PROVE TypeOK'
  <2>. DEFINE q == request[r]
  <2>0. q.stage # "idle"
    BY <1>3 DEF Continue, CheckExisting, CheckClaim, Lookup, InsertFailed, InsertVerified, MarkVerified,
                RereadAccount, MarkFailed, PublishRejected, PublishApproved, LockTier, ReadTier,
                CommitTier, PublishTierChanged
  <2>01. /\ q.acct \in Accounts /\ q.nid \in NationalIds \cup {NoId}
         /\ q.art \in Artefacts \cup {NoArtefact} /\ NoId \in NationalIds \cup {NoId}
         /\ q.seen \in Tiers /\ q.to \in Tiers /\ q.at \in Nat /\ tier[q.acct] \in Tiers
    BY <2>0, InFlight
  <2>1. CASE CheckExisting(r) \/ CheckClaim(r) \/ Lookup(r)
    <3>1. q.nid \in NationalIds
      BY <2>0, <2>1, InFlight DEF CheckExisting, CheckClaim, Lookup
    <3>2. RequestOK'
      BY <1>02, <2>0, <2>1, <3>1, GoStep, FinishStep DEF CheckExisting, CheckClaim, Lookup, Stages
    <3>. QED
      BY <1>0, <2>1, <3>2 DEF CheckExisting, CheckClaim, Lookup
  <2>2. ASSUME NEW k \in Artefacts, InsertFailed(r, k) PROVE TypeOK'
    <3>. DEFINE row == IprsRecord(q.acct, q.nid, "failed")
    <3>1. row \in Record /\ row.acct \in Accounts
      BY <2>0, <2>2, InFlight, RowFacts DEF InsertFailed, Statuses, IprsRecord
    <3>2. record' = [record EXCEPT ![k] = row] /\ UNCHANGED <<tier, history, changed, approved, rejected, dropped, untold>>
      BY <2>2 DEF InsertFailed
    <3>3. RequestOK'
      BY <1>02, <2>2, FinishStep DEF InsertFailed
    <3>. HIDE DEF row
    <3>. QED
      BY <1>01, <3>1, <3>2, <3>3
  <2>3. ASSUME NEW k \in Artefacts, InsertVerified(r, k) PROVE TypeOK'
    <3>1. CASE Claimed(q.nid)
      BY <1>0, <1>02, <2>3, <3>1, FinishStep DEF InsertVerified
    <3>2. CASE ~Claimed(q.nid)
      <4>. DEFINE row == IprsRecord(q.acct, q.nid, "verified")
                  stage == IF q.seen = "tier_0" THEN "lock" ELSE "verdict"
      <4>1. row \in Record /\ row.acct \in Accounts
        BY <2>0, <2>3, InFlight, RowFacts DEF InsertVerified, Statuses, IprsRecord
      <4>2. record' = [record EXCEPT ![k] = row] /\ UNCHANGED <<tier, history, changed, approved, rejected, dropped, untold>>
        BY <2>3, <3>2 DEF InsertVerified
      <4>3. request' = [request EXCEPT ![r] = Busy(stage, q.acct, NoId, k, "tier_0", "tier_1", 0)]
        BY <2>3, <3>2 DEF InsertVerified
      <4>4. stage \in {"lock", "verdict"}
        OBVIOUS
      <4>. HIDE DEF stage
      <4>5. RequestOK'
        BY <1>02, <2>01, <4>3, <4>4 DEF RequestOK, Busy, Stages, Tiers
      <4>. HIDE DEF row
      <4>. QED
        BY <1>01, <4>1, <4>2, <4>5
    <3>. QED
      BY <3>1, <3>2
  <2>4. ASSUME NEW status \in {"verified", "failed"}, NEW s \in {"reread", "rejected"},
               q.stage \in {"approve", "reject"},
               \/ /\ record[q.art].status = "pending"
                  /\ record' = [record EXCEPT ![q.art] = [record[q.art] EXCEPT !.status = status]]
                  /\ Go(r, s)
               \/ Finish(r) /\ UNCHANGED record,
               UNCHANGED <<tier, history, changed, approved, rejected, dropped, untold>>
        PROVE  TypeOK'
    <3>. DEFINE row == [record[q.art] EXCEPT !.status = status]
    <3>1. q.art \in Artefacts /\ record[q.art] \in Record
      BY <2>0, <2>4, InFlight DEF TypeOK, RecordOK
    <3>2. row \in Record /\ row.acct = record[q.art].acct
      BY <3>1 DEF Record, Statuses
    <3>3. CASE Finish(r) /\ UNCHANGED record
      BY <1>0, <1>02, <2>4, <3>3, FinishStep
    <3>4. CASE /\ record[q.art].status = "pending"
               /\ record' = [record EXCEPT ![q.art] = row]
               /\ Go(r, s)
      <4>1. RequestOK'
        BY <1>02, <2>0, <3>1, <3>4, GoStep DEF Stages
      <4>2. row.acct \in Accounts
        BY <3>1, <3>2, <3>4 DEF TypeOK, RecordOK
      <4>. HIDE DEF row
      <4>. QED
        BY <1>01, <2>4, <3>1, <3>2, <3>4, <4>1, <4>2
    <3>. QED
      BY <2>4, <3>3, <3>4
  <2>5. CASE MarkVerified(r)
    BY <2>4, <2>5 DEF MarkVerified
  <2>6. CASE MarkFailed(r)
    BY <2>4, <2>6 DEF MarkFailed
  <2>7. CASE RereadAccount(r)
    <3>1. q.art \in Artefacts
      BY <2>0, <2>7, InFlight DEF RereadAccount
    <3>2. RequestOK'
      BY <1>02, <2>0, <2>7, <3>1, GoStep DEF RereadAccount, Stages
    <3>. QED
      BY <1>0, <2>7, <3>2 DEF RereadAccount
  <2>8. CASE PublishRejected(r) \/ PublishApproved(r)
    <3>1. q.art \in Artefacts /\ RequestOK'
      BY <1>02, <2>0, <2>8, InFlight, FinishStep DEF PublishRejected, PublishApproved
    <3>. QED
      <4>1. CASE PublishRejected(r)
        BY <1>03, <3>1, <4>1 DEF PublishRejected, TypeOK
      <4>2. CASE PublishApproved(r)
        BY <1>03, <3>1, <4>2 DEF PublishApproved, TypeOK
      <4>. QED
        BY <2>8, <4>1, <4>2
  <2>9. CASE LockTier(r)
    <3>1. request' = [request EXCEPT ![r] = Busy("commit", q.acct, NoId, q.art, tier[q.acct], q.to, 0)]
      BY <2>9 DEF LockTier, ReadTier
    <3>2. RequestOK'
      BY <1>02, <2>01, <3>1 DEF RequestOK, Busy, Stages
    <3>. QED
      BY <1>0, <2>9, <3>2 DEF LockTier, ReadTier
  <2>10. CASE CommitTier(r)
    <3>1. PICK rows \in Seq(Assignment) :
              /\ Len(rows) = Len(history[q.acct]) + 1
              /\ tier' = [tier EXCEPT ![q.acct] = q.to]
              /\ history' = [history EXCEPT ![q.acct] = rows]
              /\ request' = [request EXCEPT ![r] =
                                Busy("announce", q.acct, NoId, q.art, q.seen, q.to, Len(rows))]
              /\ UNCHANGED <<record, changed, approved, rejected, dropped, untold>>
      BY <2>10, CommitFacts
    <3>2. Len(rows) \in Nat
      OBVIOUS
    <3>3. RequestOK'
      BY <1>02, <2>01, <3>1, <3>2 DEF RequestOK, Busy, Stages
    <3>. QED
      BY <2>0, <3>1, <3>3, InFlight DEF TypeOK, RecordOK
  <2>11. CASE PublishTierChanged(r)
    <3>1. RequestOK'
      <4>1. CASE q.art = NoArtefact
        BY <1>02, <2>11, <4>1, FinishStep DEF PublishTierChanged
      <4>2. CASE q.art # NoArtefact
        <5>1. request' = [request EXCEPT ![r] = Busy("verdict", q.acct, NoId, q.art, "tier_0", "tier_1", 0)]
          BY <2>11, <4>2 DEF PublishTierChanged
        <5>. QED
          BY <1>02, <2>01, <4>2, <5>1 DEF RequestOK, Busy, Stages, Tiers
      <4>. QED
        BY <4>1, <4>2
    <3>2. [acct |-> q.acct, at |-> q.at, from |-> q.seen, to |-> q.to]
             \in [acct : Accounts, at : Nat, from : Tiers, to : Tiers]
      BY <2>0, InFlight
    <3>3. changed' \subseteq [acct : Accounts, at : Nat, from : Tiers, to : Tiers]
      BY <2>11, <3>2 DEF PublishTierChanged, TypeOK
    <3>. QED
      BY <1>03, <2>11, <3>1, <3>3 DEF PublishTierChanged, TypeOK
  <2>. QED
    BY <1>3, <2>1, <2>2, <2>3, <2>5, <2>6, <2>7, <2>8, <2>9, <2>10, <2>11 DEF Continue
<1>4. ASSUME NEW r \in Requests, Abort(r) PROVE TypeOK'
  <2>1. RequestOK'
    BY <1>02, <1>4, FinishStep DEF Abort
  <2>2. Decided(r) => request[r].art \in Artefacts
    BY <1>02 DEF Decided, RequestOK
  <2>3. At(r, "announce") => request[r].acct \in Accounts /\ request[r].at \in Nat
    BY InFlight
  <2>. QED
    BY <1>03, <1>4, <2>1, <2>2, <2>3 DEF Abort, TypeOK
<1>5. CASE UNCHANGED vars
  BY <1>0, <1>02, <1>5 DEF vars, RequestOK
<1>. QED
  BY <1>1, <1>2, <1>3, <1>4, <1>5 DEF Next

\* Every variable keeps its type, and a row that exists keeps its account.
THEOREM TypeCorrect == Spec => []TypeOK
BY TypeInit, TypeStep, PTL DEF Spec

-----------------------------------------------------------------------------
(* The inductive invariant.  A verdict is decided by the one UPDATE or     *)
(* INSERT that makes the row verified or failed, so at most one handler is *)
(* Decided on an artefact; and the row lock keeps the tier a transaction   *)
(* read true until it commits.                                             *)

LEMMA InvInit == Init => IInv
<1>. SUFFICES ASSUME Init PROVE IInv
  OBVIOUS
<1>1. TypeOK
  BY TypeInit
<1>2. \A a \in Accounts : history[a] = <<FirstAssignment>> /\ Len(history[a]) = 1 /\ history[a][1] = FirstAssignment
  BY DEF Init
<1>3. NationalIdUnique /\ OneVerdictTold /\ RecordInv /\ HistoryInv
  BY <1>2 DEF Init, NationalIdUnique, OneVerdictTold, RecordInv, HistoryInv, NoRecord
<1>4. RowsExplain /\ OnEvidenceOnly
  BY <1>2 DEF Init, RowsExplain, OnEvidenceOnly, FirstAssignment
<1>5. DecidedInv /\ HandlerInv /\ LockInv /\ AnnounceInv
  BY DEF Init, DecidedInv, Decided, HandlerInv, LockInv, AnnounceInv, Idle, Busy
<1>. QED
  BY <1>1, <1>3, <1>4, <1>5 DEF IInv

\* What the invariant says of the tables survives a step that leaves them alone.
LEMMA TablesSame ==
    ASSUME IInv, UNCHANGED <<record, approved, rejected>>
    PROVE  NationalIdUnique' /\ OneVerdictTold' /\ RecordInv'
BY DEF IInv, NationalIdUnique, OneVerdictTold, RecordInv

LEMMA HistorySame ==
    ASSUME IInv, UNCHANGED <<tier, history, changed>>
    PROVE  RowsExplain' /\ HistoryInv'
BY DEF IInv, RowsExplain, HistoryInv

\* Evidence is never lost, so promotions stay backed.
LEMMA BackedGrows ==
    ASSUME \A k \in Artefacts : Verified(k) => record'[k] = record[k]
    PROVE  Backed \subseteq Backed'
BY DEF Backed

LEMMA PromotionsSame ==
    ASSUME IInv, UNCHANGED history, \A k \in Artefacts : Verified(k) => record'[k] = record[k]
    PROVE  OnEvidenceOnly'
BY BackedGrows DEF IInv, OnEvidenceOnly

\* Nobody has decided on an artefact that is absent or pending.
LEMMA Undecided ==
    ASSUME IInv, NEW k \in Artefacts, record[k].status \in {"absent", "pending"}, NEW s \in Requests
    PROVE  /\ Decided(s) => request[s].art # k
           /\ record[k].status = "absent" /\ request[s].art # NoArtefact => request[s].art # k
<1>1. Decided(s) => record[request[s].art].status \in {"verified", "failed"}
  BY DEF IInv, DecidedInv
<1>2. request[s].stage \in {"approve", "reject"} => record[request[s].art].status # "absent"
  BY DEF IInv, HandlerInv
<1>3. request[s].stage \in Stages
  BY DEF IInv, TypeOK, RequestOK
<1>4. request[s].art # NoArtefact => Decided(s) \/ request[s].stage \in {"approve", "reject"}
  BY <1>3 DEF IInv, HandlerInv, Decided, Stages
<1>. QED
  BY <1>1, <1>2, <1>4

\* A handler moves and touches no table: it may keep what it has decided, and
\* enters a transaction only when the row is free.
LEMMA QuietStep ==
    ASSUME IInv, NEW r \in Requests, NEW new,
           request' = [request EXCEPT ![r] = new],
           UNCHANGED <<record, tier, history, approved, rejected>>,
           Decided(r)' => /\ Decided(r) /\ new.art = request[r].art /\ new.acct = request[r].acct
                          /\ new.stage = "rejected" <=> At(r, "rejected"),
           new.stage \in {"idle", "existing", "claim", "lookup", "refuse", "insert"} =>
              new.art = NoArtefact,
           new.stage \in {"approve", "reject"} =>
              record[new.art].status # "absent" /\ record[new.art].acct = new.acct,
           new.art # NoArtefact => new.to = "tier_1",
           new.stage \in {"lock", "commit"} /\ new.art # NoArtefact => record[new.art].tier = "tier_1",
           new.stage = "commit" => new.seen = tier[new.acct] /\ ~Locked(new.acct),
           new.stage # "announce"
    PROVE  DecidedInv' /\ HandlerInv' /\ LockInv' /\ AnnounceInv'
<1>0. request'[r] = new /\ \A s \in Requests : s # r => request'[s] = request[s]
  BY DEF IInv, TypeOK, RequestOK
<1>1. \A s \in Requests : s # r => Decided(s)' = Decided(s)
  BY <1>0 DEF Decided
<1>2. DecidedInv'
  <2>. SUFFICES ASSUME NEW s \in Requests, Decided(s)'
                PROVE  LET k == request'[s].art IN
                       /\ record[k].status = IF request'[s].stage = "rejected" THEN "failed" ELSE "verified"
                       /\ record[k].acct = request'[s].acct
                       /\ approved[k] = 0 /\ rejected[k] = 0
                       /\ \A t \in Requests : Decided(t)' /\ request'[t].art = k => t = s
    BY DEF DecidedInv
  <2>1. \A t \in Requests : Decided(t)' => /\ Decided(t) /\ request'[t].art = request[t].art
                                           /\ request'[t].acct = request[t].acct
                                           /\ request'[t].stage = "rejected" <=> At(t, "rejected")
    BY <1>0, <1>1
  <2>. QED
    BY <2>1 DEF IInv, DecidedInv
<1>3. HandlerInv'
  BY <1>0 DEF IInv, HandlerInv
<1>4. LockInv'
  BY <1>0 DEF IInv, LockInv, Locked
<1>5. AnnounceInv'
  BY <1>0 DEF IInv, AnnounceInv
<1>. QED
  BY <1>2, <1>3, <1>4, <1>5

LEMMA FinishInv ==
    ASSUME IInv, NEW r \in Requests, Finish(r),
           UNCHANGED <<record, tier, history, approved, rejected>>
    PROVE  DecidedInv' /\ HandlerInv' /\ LockInv' /\ AnnounceInv'
<1>1. request' = [request EXCEPT ![r] = Idle] /\ Idle.stage = "idle" /\ Idle.art = NoArtefact
  BY DEF Finish, Idle, Busy
<1>2. ~Decided(r)'
  BY <1>1 DEF Decided, IInv, TypeOK, RequestOK
<1>. QED
  BY <1>1, <1>2, QuietStep

LEMMA ArriveInv ==
    ASSUME IInv, NEW r \in Requests, Arrive(r)
    PROVE  DecidedInv' /\ HandlerInv' /\ LockInv' /\ AnnounceInv'
<1>0. UNCHANGED <<record, tier, history, approved, rejected>>
  BY DEF Arrive, SubmitIprs, Review, OverrideTier
<1>1. ASSUME NEW a \in Accounts, NEW n \in NationalIds, SubmitIprs(r, a, n)
      PROVE  DecidedInv' /\ HandlerInv' /\ LockInv' /\ AnnounceInv'
  <2>. DEFINE new == Busy("existing", a, n, NoArtefact, tier[a], "tier_1", 0)
  <2>1. request' = [request EXCEPT ![r] = new] /\ new.stage = "existing" /\ new.art = NoArtefact
    BY <1>1 DEF SubmitIprs, Busy
  <2>2. ~Decided(r)'
    BY <2>1 DEF Decided, IInv, TypeOK, RequestOK
  <2>. HIDE DEF new
  <2>. QED
    BY <1>0, <2>1, <2>2, QuietStep
<1>2. ASSUME NEW k \in Artefacts, NEW verdict \in {"approve", "reject"}, Review(r, k, verdict)
      PROVE  DecidedInv' /\ HandlerInv' /\ LockInv' /\ AnnounceInv'
  <2>. DEFINE new == Busy(verdict, record[k].acct, NoId, k, "tier_0", "tier_1", 0)
  <2>1. /\ request' = [request EXCEPT ![r] = new]
        /\ new.stage = verdict /\ new.art = k /\ new.acct = record[k].acct /\ new.to = "tier_1"
        /\ record[k].status = "pending"
    BY <1>2 DEF Review, Busy
  <2>2. ~Decided(r)'
    BY <2>1 DEF Decided, IInv, TypeOK, RequestOK
  <2>. HIDE DEF new
  <2>. QED
    BY <1>0, <2>1, <2>2, QuietStep
<1>3. ASSUME NEW a \in Accounts, NEW t \in Tiers, OverrideTier(r, a, t)
      PROVE  DecidedInv' /\ HandlerInv' /\ LockInv' /\ AnnounceInv'
  <2>. DEFINE new == Busy("lock", a, NoId, NoArtefact, "tier_0", t, 0)
  <2>1. request' = [request EXCEPT ![r] = new] /\ new.stage = "lock" /\ new.art = NoArtefact
    BY <1>3 DEF OverrideTier, Busy
  <2>2. ~Decided(r)'
    BY <2>1 DEF Decided, IInv, TypeOK, RequestOK
  <2>. HIDE DEF new
  <2>. QED
    BY <1>0, <2>1, <2>2, QuietStep
<1>. QED
  BY <1>1, <1>2, <1>3 DEF Arrive

\* The steps of a submission before anything is written.
LEMMA ChecksInv ==
    ASSUME IInv, NEW r \in Requests, CheckExisting(r) \/ CheckClaim(r) \/ Lookup(r)
    PROVE  DecidedInv' /\ HandlerInv' /\ LockInv' /\ AnnounceInv'
<1>1. UNCHANGED <<record, tier, history, approved, rejected>> /\ request[r].art = NoArtefact
  BY DEF CheckExisting, CheckClaim, Lookup, IInv, HandlerInv
<1>2. ASSUME NEW s \in {"claim", "lookup", "refuse", "insert"}, Go(r, s)
      PROVE  DecidedInv' /\ HandlerInv' /\ LockInv' /\ AnnounceInv'
  <2>. DEFINE new == [request[r] EXCEPT !.stage = s]
  <2>1. request' = [request EXCEPT ![r] = new] /\ new.stage = s /\ new.art = NoArtefact
    BY <1>1, <1>2 DEF Go, IInv, TypeOK, RequestOK
  <2>2. ~Decided(r)'
    BY <2>1 DEF Decided, IInv, TypeOK, RequestOK
  <2>. HIDE DEF new
  <2>. QED
    BY <1>1, <2>1, <2>2, QuietStep
<1>. QED
  BY <1>1, <1>2, FinishInv DEF CheckExisting, CheckClaim, Lookup

LEMMA RereadInv ==
    ASSUME IInv, NEW r \in Requests, RereadAccount(r)
    PROVE  DecidedInv' /\ HandlerInv' /\ LockInv' /\ AnnounceInv'
<1>. DEFINE q == request[r]
            s == IF tier[q.acct] = "tier_0" /\ record[q.art].tier = "tier_1" THEN "lock" ELSE "verdict"
            new == [q EXCEPT !.stage = s]
<1>1. UNCHANGED <<record, tier, history, approved, rejected>> /\ At(r, "reread")
  BY DEF RereadAccount
<1>2. /\ s = "lock" \/ s = "verdict"
      /\ s = "lock" => record[q.art].tier = "tier_1"
  OBVIOUS
<1>3. request' = [request EXCEPT ![r] = [q EXCEPT !.stage = s]]
  BY DEF RereadAccount, Go
<1>. HIDE DEF s
<1>4. /\ request' = [request EXCEPT ![r] = new]
      /\ new.stage = s /\ new.art = q.art /\ new.acct = q.acct /\ new.to = q.to
  BY <1>3 DEF IInv, TypeOK, RequestOK
<1>5. Decided(r) /\ q.art # NoArtefact
  BY <1>1, InFlight, KycTierAssumption DEF Decided, IInv
<1>6. q.to = "tier_1"
  BY <1>5 DEF IInv, HandlerInv
<1>7. Decided(r)' => new.stage # "rejected" /\ ~At(r, "rejected")
  BY <1>1, <1>2, <1>4
<1>. HIDE DEF new
<1>. QED
  BY <1>1, <1>2, <1>4, <1>5, <1>6, <1>7, QuietStep

LEMMA LockInvStep ==
    ASSUME IInv, NEW r \in Requests, LockTier(r)
    PROVE  DecidedInv' /\ HandlerInv' /\ LockInv' /\ AnnounceInv'
<1>. DEFINE q == request[r]
            new == Busy("commit", q.acct, NoId, q.art, tier[q.acct], q.to, 0)
<1>1. /\ UNCHANGED <<record, tier, history, approved, rejected>>
      /\ At(r, "lock") /\ ~Locked(q.acct)
      /\ request' = [request EXCEPT ![r] = new]
  BY DEF LockTier, ReadTier
<1>2. /\ new.stage = "commit" /\ new.art = q.art /\ new.acct = q.acct /\ new.to = q.to
      /\ new.seen = tier[q.acct]
  BY DEF Busy
<1>. HIDE DEF new
<1>3. request'[r] = new
  BY <1>1 DEF IInv, TypeOK, RequestOK
<1>4. Decided(r)' => Decided(r)
  BY <1>1, <1>2, <1>3 DEF Decided
<1>5. q.art # NoArtefact => q.to = "tier_1" /\ record[q.art].tier = "tier_1"
  BY <1>1 DEF IInv, HandlerInv
<1>. QED
  BY <1>1, <1>2, <1>4, <1>5, QuietStep

\* A row that is absent or pending changes; one handler may move with it, and
\* then it alone has decided.
Unsettled(k)   == record[k].status \in {"absent", "pending"}
OnlyRow(k)     == \A l \in Artefacts : l # k => record'[l] = record[l]
OnlyHandler(r) == \A s \in Requests : s # r => request'[s] = request[s]

\* r has now decided on k.
Taken(r, k) ==
    /\ request'[r].stage \in {"reread", "lock", "verdict", "rejected"}
    /\ request'[r].art = k /\ request'[r].acct = record'[k].acct /\ request'[r].to = "tier_1"
    /\ record'[k].status = IF request'[r].stage = "rejected" THEN "failed" ELSE "verified"
    /\ request'[r].stage = "lock" => record'[k].tier = "tier_1"

LEMMA RowInv ==
    ASSUME IInv, NEW r \in Requests, NEW k \in Artefacts,
           Unsettled(k), OnlyRow(k), OnlyHandler(r),
           record[k].status = "pending" =>
               record'[k].acct = record[k].acct /\ record'[k].tier = record[k].tier,
           record'[k].status # "absent",
           UNCHANGED <<tier, history, approved, rejected>>,
           \/ request'[r] = request[r]
           \/ request'[r].stage = "idle" /\ request'[r].art = NoArtefact
           \/ Taken(r, k)
    PROVE  DecidedInv' /\ HandlerInv' /\ LockInv' /\ AnnounceInv'
<1>. DEFINE new == request'[r]
            row == record'[k]
<1>1. /\ request'[r] = new /\ \A s \in Requests : s # r => request'[s] = request[s]
      /\ record'[k] = row /\ \A l \in Artefacts : l # k => record'[l] = record[l]
      /\ record[k].status \in {"absent", "pending"}
      /\ \/ new = request[r]
         \/ new.stage = "idle" /\ new.art = NoArtefact
         \/ /\ new.stage \in {"reread", "lock", "verdict", "rejected"}
            /\ new.art = k /\ new.acct = row.acct /\ new.to = "tier_1"
            /\ row.status = IF new.stage = "rejected" THEN "failed" ELSE "verified"
            /\ new.stage = "lock" => row.tier = "tier_1"
      /\ row.status # "absent"
      /\ record[k].status = "pending" => row.acct = record[k].acct /\ row.tier = record[k].tier
  BY DEF Unsettled, OnlyRow, OnlyHandler, Taken
<1>. HIDE DEF new, row
<1>2. \A s \in Requests : Decided(s) => request[s].art # k
  BY <1>1, Undecided
<1>3. \A s \in Requests : s # r => Decided(s)' = Decided(s)
  BY <1>1 DEF Decided
<1>4. approved[k] = 0 /\ rejected[k] = 0
  BY <1>1 DEF IInv, RecordInv
<1>5. \A s \in Requests : request[s].art \in Artefacts \cup {NoArtefact}
  BY DEF IInv, TypeOK, RequestOK
<1>6. Decided(r)' => \/ new = request[r] /\ Decided(r)
                     \/ /\ new.stage \in {"reread", "lock", "verdict", "rejected"}
                        /\ new.art = k /\ new.acct = row.acct
                        /\ row.status = IF new.stage = "rejected" THEN "failed" ELSE "verified"
  BY <1>1 DEF Decided
<1>7. DecidedInv'
  <2>. SUFFICES ASSUME NEW s \in Requests, Decided(s)'
                PROVE  LET l == request'[s].art IN
                       /\ record'[l].status = IF request'[s].stage = "rejected" THEN "failed" ELSE "verified"
                       /\ record'[l].acct = request'[s].acct
                       /\ approved[l] = 0 /\ rejected[l] = 0
                       /\ \A t \in Requests : Decided(t)' /\ request'[t].art = l => t = s
    BY DEF DecidedInv
  <2>1. CASE request'[s] = request[s] /\ Decided(s)
    <3>1. request[s].art \in Artefacts /\ request[s].art # k
      BY <1>2, <1>5, <2>1 DEF Decided
    <3>2. \A t \in Requests : Decided(t)' /\ request'[t].art = request[s].art =>
             Decided(t) /\ request'[t] = request[t]
      BY <1>1, <1>3, <1>6, <3>1
    <3>. QED
      BY <1>1, <2>1, <3>1, <3>2 DEF IInv, DecidedInv
  <2>2. CASE ~(request'[s] = request[s] /\ Decided(s))
    <3>1. /\ s = r /\ new.art = k /\ new.acct = row.acct
          /\ row.status = IF new.stage = "rejected" THEN "failed" ELSE "verified"
      BY <1>1, <1>3, <1>6, <2>2
    <3>2. \A t \in Requests : Decided(t)' /\ request'[t].art = k => t = r
      BY <1>1, <1>2, <1>3
    <3>. QED
      BY <1>1, <1>4, <3>1, <3>2
  <2>. QED
    BY <2>1, <2>2
<1>8. HandlerInv'
  <2>. SUFFICES ASSUME NEW s \in Requests
                PROVE  LET q == request'[s] IN
                       /\ q.stage \in {"idle", "existing", "claim", "lookup", "refuse", "insert"} =>
                             q.art = NoArtefact
                       /\ q.stage \in {"approve", "reject"} =>
                             record'[q.art].status # "absent" /\ record'[q.art].acct = q.acct
                       /\ q.art # NoArtefact => q.to = "tier_1"
                       /\ q.stage \in {"lock", "commit"} /\ q.art # NoArtefact =>
                             record'[q.art].tier = "tier_1"
    BY DEF HandlerInv
  <2>1. CASE request'[s] = request[s]
    <3>1. request[s].stage \in {"approve", "reject"} => request[s].art \in Artefacts
      BY DEF IInv, TypeOK, RequestOK
    <3>2. request[s].stage \in {"lock", "commit"} /\ request[s].art # NoArtefact => request[s].art # k
      BY <1>2 DEF Decided
    <3>. QED
      BY <1>1, <1>5, <2>1, <3>1, <3>2 DEF IInv, HandlerInv
  <2>2. CASE request'[s] # request[s]
    BY <1>1, <2>2
  <2>. QED
    BY <2>1, <2>2
<1>9. LockInv' /\ AnnounceInv'
  <2>1. \A s \in Requests : request'[s].stage \in {"commit", "announce"} => request'[s] = request[s]
    BY <1>1
  <2>2. LockInv'
    BY <2>1 DEF IInv, LockInv
  <2>3. AnnounceInv'
    BY <2>1 DEF IInv, AnnounceInv
  <2>. QED
    BY <2>2, <2>3
<1>. QED
  BY <1>7, <1>8, <1>9

\* The same step, seen from the tables.
LEMMA RowTables ==
    ASSUME IInv, NEW k \in Artefacts, Unsettled(k), OnlyRow(k),
           UNCHANGED <<history, approved, rejected>>,
           record'[k].status \in {"absent", "pending"} => record'[k].nid = NoId,
           record'[k].status = "verified" /\ record'[k].nid # NoId => ~Claimed(record'[k].nid)
    PROVE  NationalIdUnique' /\ OneVerdictTold' /\ OnEvidenceOnly' /\ RecordInv'
<1>. DEFINE row == record'[k]
<1>1. /\ record'[k] = row /\ \A l \in Artefacts : l # k => record'[l] = record[l]
      /\ record[k].status \in {"absent", "pending"}
      /\ row.status \in {"absent", "pending"} => row.nid = NoId
      /\ row.status = "verified" /\ row.nid # NoId => ~Claimed(row.nid)
  BY DEF Unsettled, OnlyRow
<1>. HIDE DEF row
<1>2. approved[k] = 0 /\ rejected[k] = 0 /\ ~Verified(k)
  BY <1>1 DEF IInv, RecordInv
<1>3. NationalIdUnique'
  BY <1>1, <1>2 DEF IInv, NationalIdUnique, Claimed
<1>4. OneVerdictTold'
  BY <1>1, <1>2 DEF IInv, OneVerdictTold
<1>5. OnEvidenceOnly'
  BY <1>1, <1>2, PromotionsSame
<1>6. RecordInv'
  BY <1>1, <1>2 DEF IInv, RecordInv
<1>. QED
  BY <1>3, <1>4, <1>5, <1>6

LEMMA AwaitReviewInv ==
    ASSUME IInv, NEW k \in Artefacts, NEW a \in Accounts, NEW t \in {"tier_1", "tier_2"},
           AwaitReview(k, a, t), NEW r \in Requests
    PROVE  /\ NationalIdUnique' /\ OneVerdictTold' /\ OnEvidenceOnly' /\ RecordInv'
           /\ DecidedInv' /\ HandlerInv' /\ LockInv' /\ AnnounceInv'
<1>. DEFINE row == [status |-> "pending", acct |-> a, kind |-> "document", tier |-> t, nid |-> NoId]
<1>1. /\ record[k].status = "absent" /\ record' = [record EXCEPT ![k] = row]
      /\ UNCHANGED <<tier, history, request, approved, rejected>>
      /\ row.status = "pending" /\ row.nid = NoId
  BY DEF AwaitReview, Unused
<1>2. record'[k] = row /\ Unsettled(k) /\ OnlyRow(k) /\ OnlyHandler(r) /\ request'[r] = request[r]
  BY <1>1 DEF IInv, TypeOK, RequestOK, RecordOK, Unsettled, OnlyRow, OnlyHandler
<1>. HIDE DEF row
<1>3. NationalIdUnique' /\ OneVerdictTold' /\ OnEvidenceOnly' /\ RecordInv'
  BY <1>1, <1>2, RowTables
<1>4. DecidedInv' /\ HandlerInv' /\ LockInv' /\ AnnounceInv'
  BY <1>1, <1>2, RowInv
<1>. QED
  BY <1>3, <1>4

LEMMA InsertFailedInv ==
    ASSUME IInv, NEW r \in Requests, NEW k \in Artefacts, InsertFailed(r, k)
    PROVE  /\ NationalIdUnique' /\ OneVerdictTold' /\ OnEvidenceOnly' /\ RecordInv'
           /\ DecidedInv' /\ HandlerInv' /\ LockInv' /\ AnnounceInv'
<1>. DEFINE row == IprsRecord(request[r].acct, request[r].nid, "failed")
<1>1. /\ record[k].status = "absent" /\ record' = [record EXCEPT ![k] = row]
      /\ UNCHANGED <<tier, history, approved, rejected>>
      /\ row.status = "failed" /\ row.nid = request[r].nid
  BY DEF InsertFailed, Unused, IprsRecord
<1>2. /\ record'[k] = row /\ Unsettled(k) /\ OnlyRow(k) /\ OnlyHandler(r)
      /\ request'[r].stage = "idle" /\ request'[r].art = NoArtefact
  BY <1>1 DEF InsertFailed, Finish, Idle, Busy, IInv, TypeOK, RequestOK, RecordOK,
              Unsettled, OnlyRow, OnlyHandler
<1>. HIDE DEF row
<1>3. NationalIdUnique' /\ OneVerdictTold' /\ OnEvidenceOnly' /\ RecordInv'
  BY <1>1, <1>2, RowTables
<1>4. DecidedInv' /\ HandlerInv' /\ LockInv' /\ AnnounceInv'
  BY <1>1, <1>2, RowInv
<1>. QED
  BY <1>3, <1>4

LEMMA InsertVerifiedInv ==
    ASSUME IInv, NEW r \in Requests, NEW k \in Artefacts, InsertVerified(r, k)
    PROVE  /\ NationalIdUnique' /\ OneVerdictTold' /\ OnEvidenceOnly' /\ RecordInv'
           /\ DecidedInv' /\ HandlerInv' /\ LockInv' /\ AnnounceInv'
<1>. DEFINE q == request[r]
            row == IprsRecord(q.acct, q.nid, "verified")
            s == IF q.seen = "tier_0" THEN "lock" ELSE "verdict"
            new == Busy(s, q.acct, NoId, k, "tier_0", "tier_1", 0)
<1>1. CASE Claimed(q.nid)
  <2>1. Finish(r) /\ UNCHANGED <<record, tier, history, changed, approved, rejected>>
    BY <1>1 DEF InsertVerified
  <2>. QED
    BY <2>1, FinishInv, TablesSame, PromotionsSame
<1>2. CASE ~Claimed(q.nid)
  <2>1. /\ record[k].status = "absent" /\ record' = [record EXCEPT ![k] = row]
        /\ UNCHANGED <<tier, history, approved, rejected>>
        /\ request' = [request EXCEPT ![r] = new]
    BY <1>2 DEF InsertVerified, Unused
  <2>2. /\ row.status = "verified" /\ row.nid = q.nid /\ row.acct = q.acct /\ row.tier = "tier_1"
        /\ s = "lock" \/ s = "verdict"
    BY DEF IprsRecord
  <2>. HIDE DEF s
  <2>3. new.stage = s /\ new.art = k /\ new.acct = q.acct /\ new.to = "tier_1"
    BY DEF Busy
  <2>. HIDE DEF row, new
  <2>31. record'[k] = row /\ request'[r] = new /\ Unsettled(k) /\ OnlyRow(k) /\ OnlyHandler(r)
    BY <2>1 DEF IInv, TypeOK, RequestOK, RecordOK, Unsettled, OnlyRow, OnlyHandler
  <2>32. Taken(r, k)
    BY <2>2, <2>3, <2>31 DEF Taken
  <2>4. NationalIdUnique' /\ OneVerdictTold' /\ OnEvidenceOnly' /\ RecordInv'
    BY <1>2, <2>1, <2>2, <2>31, RowTables
  <2>5. DecidedInv' /\ HandlerInv' /\ LockInv' /\ AnnounceInv'
    BY <2>1, <2>2, <2>31, <2>32, RowInv
  <2>. QED
    BY <2>4, <2>5
<1>. QED
  BY <1>1, <1>2

\* markVerified and markFailed.
LEMMA MarkInv ==
    ASSUME IInv, NEW r \in Requests, MarkVerified(r) \/ MarkFailed(r)
    PROVE  /\ NationalIdUnique' /\ OneVerdictTold' /\ OnEvidenceOnly' /\ RecordInv'
           /\ DecidedInv' /\ HandlerInv' /\ LockInv' /\ AnnounceInv'
<1>. DEFINE q == request[r]
            k == q.art
<1>1. /\ q.stage \in {"approve", "reject"} /\ UNCHANGED <<tier, history, changed, approved, rejected>>
  BY DEF MarkVerified, MarkFailed
<1>2. k \in Artefacts /\ record[k] \in Record /\ record[k].acct = q.acct /\ q.to = "tier_1"
  BY <1>1, InFlight, KycTierAssumption DEF IInv, TypeOK, RecordOK, HandlerInv
<1>3. ASSUME NEW status \in {"verified", "failed"}, NEW s \in {"reread", "rejected"},
             status = "failed" <=> s = "rejected",
             record[k].status = "pending",
             record' = [record EXCEPT ![k] = [record[k] EXCEPT !.status = status]],
             Go(r, s)
      PROVE  /\ NationalIdUnique' /\ OneVerdictTold' /\ OnEvidenceOnly' /\ RecordInv'
             /\ DecidedInv' /\ HandlerInv' /\ LockInv' /\ AnnounceInv'
  <2>. DEFINE row == [record[k] EXCEPT !.status = status]
              new == [q EXCEPT !.stage = s]
  <2>1. /\ row.status = status /\ row.acct = record[k].acct /\ row.tier = record[k].tier
        /\ row.nid = record[k].nid
    BY <1>2 DEF Record
  <2>2. record[k].nid = NoId
    BY <1>2, <1>3 DEF IInv, RecordInv
  <2>3. request' = [request EXCEPT ![r] = new]
    BY <1>3 DEF Go
  <2>4. new.stage = s /\ new.art = k /\ new.acct = q.acct /\ new.to = q.to
    BY DEF IInv, TypeOK, RequestOK
  <2>5. record' = [record EXCEPT ![k] = row]
    BY <1>3
  <2>. HIDE DEF row, new
  <2>51. record'[k] = row /\ request'[r] = new /\ Unsettled(k) /\ OnlyRow(k) /\ OnlyHandler(r)
    BY <1>2, <1>3, <2>3, <2>5 DEF IInv, TypeOK, RequestOK, RecordOK, Unsettled, OnlyRow, OnlyHandler
  <2>52. Taken(r, k)
    BY <1>2, <1>3, <2>1, <2>4, <2>51 DEF Taken
  <2>. HIDE DEF k
  <2>6. NationalIdUnique' /\ OneVerdictTold' /\ OnEvidenceOnly' /\ RecordInv'
    BY <1>1, <1>2, <1>3, <2>1, <2>2, <2>51, RowTables
  <2>7. DecidedInv' /\ HandlerInv' /\ LockInv' /\ AnnounceInv'
    BY <1>1, <1>2, <1>3, <2>1, <2>51, <2>52, RowInv
  <2>. QED
    BY <2>6, <2>7
<1>4. ASSUME Finish(r), UNCHANGED record
      PROVE  /\ NationalIdUnique' /\ OneVerdictTold' /\ OnEvidenceOnly' /\ RecordInv'
             /\ DecidedInv' /\ HandlerInv' /\ LockInv' /\ AnnounceInv'
  BY <1>1, <1>4, FinishInv, TablesSame, PromotionsSame
<1>. QED
  BY <1>3, <1>4 DEF MarkVerified, MarkFailed

\* The transaction's three writes: nobody else is in a transaction on the
\* account, so what it read as the old tier is the last row it closes.
LEMMA CommitInv ==
    ASSUME IInv, NEW r \in Requests, CommitTier(r)
    PROVE  /\ RowsExplain' /\ OnEvidenceOnly' /\ HistoryInv'
           /\ DecidedInv' /\ HandlerInv' /\ LockInv' /\ AnnounceInv'
<1>. DEFINE q == request[r]
            h == history[q.acct]
<1>0. TypeOK
  BY DEF IInv
<1>1. At(r, "commit") /\ q.acct \in Accounts /\ h \in Seq(Assignment)
  BY <1>0, InFlight DEF CommitTier
<1>2. PICK rows \in Seq(Assignment) :
          /\ Len(rows) = Len(h) + 1
          /\ rows[Len(rows)] = [tier |-> q.to, why |-> Why(r), open |-> TRUE]
          /\ \A i \in 1 .. Len(h) : rows[i].tier = h[i].tier /\ rows[i].why = h[i].why /\ ~rows[i].open
          /\ tier' = [tier EXCEPT ![q.acct] = q.to]
          /\ history' = [history EXCEPT ![q.acct] = rows]
          /\ request' = [request EXCEPT ![r] =
                            Busy("announce", q.acct, NoId, q.art, q.seen, q.to, Len(rows))]
          /\ UNCHANGED <<record, changed, approved, rejected>>
  BY <1>0, CommitFacts
<1>3. Len(h) \in Nat /\ Len(h) >= 1
  BY <1>1 DEF IInv, HistoryInv
<1>4. /\ history'[q.acct] = rows /\ tier'[q.acct] = q.to
      /\ \A a \in Accounts : a # q.acct => history'[a] = history[a] /\ tier'[a] = tier[a]
  BY <1>0, <1>1, <1>2 DEF TypeOK
<1>5. /\ request'[r].stage = "announce" /\ request'[r].acct = q.acct /\ request'[r].art = q.art
      /\ request'[r].seen = q.seen /\ request'[r].to = q.to /\ request'[r].at = Len(h) + 1
      /\ \A s \in Requests : s # r => request'[s] = request[s]
  BY <1>0, <1>2 DEF TypeOK, RequestOK, Busy
<1>6. h[Len(h)].tier = q.seen
  BY <1>1 DEF IInv, RowsExplain, LockInv
<1>7. /\ rows[Len(h) + 1].tier = q.to /\ rows[Len(h) + 1].open
      /\ rows[Len(h)].tier = q.seen /\ Len(h) \in 1 .. Len(h)
  BY <1>2, <1>3, <1>6
<1>8. DOMAIN rows = 1 .. Len(h) + 1
  BY <1>2
<1>9. \A a \in Accounts : DOMAIN history[a] = 1 .. Len(history[a]) /\ Len(history[a]) \in Nat
  BY <1>0 DEF TypeOK
<1>. HIDE DEF q, h
<1>10. RowsExplain'
  <2>1. ASSUME NEW a \in Accounts
        PROVE  /\ history'[a][Len(history'[a])].tier = tier'[a]
               /\ \A i \in DOMAIN history'[a] : history'[a][i].open <=> i = Len(history'[a])
    <3>1. CASE a = q.acct
      <4>1. \A i \in 1 .. Len(h) + 1 : i \in 1 .. Len(h) \/ i = Len(h) + 1
        BY <1>3
      <4>. QED
        BY <1>2, <1>3, <1>4, <1>7, <1>8, <3>1, <4>1
    <3>2. CASE a # q.acct
      BY <1>4, <3>2 DEF IInv, RowsExplain
    <3>. QED
      BY <3>1, <3>2
  <2>2. ASSUME NEW e \in changed
        PROVE  /\ e.at \in 2 .. Len(history'[e.acct])
               /\ history'[e.acct][e.at].tier = e.to
               /\ history'[e.acct][e.at - 1].tier = e.from
    <3>1. /\ e.acct \in Accounts /\ e.at \in 2 .. Len(history[e.acct])
          /\ history[e.acct][e.at].tier = e.to
          /\ history[e.acct][e.at - 1].tier = e.from
      BY <1>0 DEF TypeOK, IInv, RowsExplain
    <3>2. CASE e.acct = q.acct
      <4>1. e.at \in 1 .. Len(h) /\ e.at - 1 \in 1 .. Len(h)
        BY <1>3, <3>1, <3>2 DEF h
      <4>2. e.at \in 2 .. Len(rows)
        BY <1>2, <1>3, <3>1, <3>2 DEF h
      <4>. QED
        BY <1>2, <1>4, <3>1, <3>2, <4>1, <4>2, SMTT(60) DEF h
    <3>3. CASE e.acct # q.acct
      BY <1>4, <3>1, <3>3
    <3>. QED
      BY <3>2, <3>3
  <2>. QED
    BY <1>2, <2>1, <2>2 DEF RowsExplain
<1>11. HistoryInv'
  BY <1>2, <1>3, <1>4 DEF IInv, HistoryInv
<1>12. q.art # NoArtefact => q.acct \in Backed
  <2>1. q.art # NoArtefact => /\ q.art \in Artefacts /\ Verified(q.art)
                              /\ record[q.art].acct = q.acct /\ record[q.art].tier = "tier_1"
    BY <1>0, <1>1, InFlight DEF IInv, DecidedInv, HandlerInv, Decided, q
  <2>. QED
    BY <2>1 DEF Backed
<1>13. OnEvidenceOnly'
  <2>1. Backed' = Backed
    BY <1>2 DEF Backed
  <2>. SUFFICES ASSUME NEW a \in Accounts, NEW i \in DOMAIN history'[a], history'[a][i].why = "promotion"
                PROVE  a \in Backed
    BY <2>1 DEF OnEvidenceOnly
  <2>2. CASE a # q.acct
    BY <1>4, <2>2 DEF IInv, OnEvidenceOnly
  <2>3. CASE a = q.acct /\ i \in 1 .. Len(h)
    <3>1. i \in DOMAIN history[a] /\ history[a][i].why = "promotion"
      BY <1>2, <1>4, <1>9, <2>3 DEF h
    <3>. QED
      BY <3>1 DEF IInv, OnEvidenceOnly
  <2>4. CASE a = q.acct /\ i \notin 1 .. Len(h)
    <3>1. i = Len(rows)
      BY <1>2, <1>3, <1>4, <1>8, <2>4
    <3>2. Why(r) = "promotion"
      BY <1>2, <1>4, <2>4, <3>1
    <3>. QED
      BY <1>12, <2>4, <3>2 DEF Why, q
  <2>. QED
    BY <2>2, <2>3, <2>4
<1>14. \A s \in Requests : Decided(s)' = Decided(s)
  BY <1>1, <1>5 DEF Decided, q
<1>15. DecidedInv'
  BY <1>1, <1>2, <1>5, <1>14 DEF IInv, DecidedInv, q
<1>16. HandlerInv'
  BY <1>1, <1>2, <1>5, SMTT(60) DEF IInv, HandlerInv, q
<1>17. LockInv'
  <2>1. \A s \in Requests : At(s, "commit")' =>
           At(s, "commit") /\ request'[s] = request[s] /\ request[s].acct # q.acct /\ request[s].acct \in Accounts
    BY <1>0, <1>1, <1>5, InFlight DEF IInv, LockInv, q
  <2>. QED
    BY <1>4, <2>1 DEF IInv, LockInv
<1>18. AnnounceInv'
  <2>. SUFFICES ASSUME NEW s \in Requests, request'[s].stage = "announce"
                PROVE  LET p == request'[s] IN
                       /\ p.at \in 2 .. Len(history'[p.acct])
                       /\ history'[p.acct][p.at].tier = p.to
                       /\ history'[p.acct][p.at - 1].tier = p.seen
    BY DEF AnnounceInv
  <2>1. CASE s = r
    BY <1>2, <1>3, <1>4, <1>5, <1>7, <2>1
  <2>2. CASE s # r
    <3>. DEFINE p == request[s]
    <3>1. /\ request'[s] = p /\ p.acct \in Accounts /\ p.at \in 2 .. Len(history[p.acct])
          /\ history[p.acct][p.at].tier = p.to
          /\ history[p.acct][p.at - 1].tier = p.seen
      BY <1>0, <1>5, <2>2, InFlight DEF IInv, AnnounceInv
    <3>. HIDE DEF p
    <3>2. CASE p.acct = q.acct
      <4>1. p.at \in 1 .. Len(h) /\ p.at - 1 \in 1 .. Len(h) /\ p.at \in 2 .. Len(rows)
        BY <1>2, <1>3, <3>1, <3>2 DEF h
      <4>2. h[p.at].tier = p.to /\ h[p.at - 1].tier = p.seen
        BY <3>1, <3>2 DEF h
      <4>3. rows[p.at].tier = p.to /\ rows[p.at - 1].tier = p.seen
        BY <1>2, <4>1, <4>2
      <4>. QED
        BY <1>4, <3>1, <3>2, <4>1, <4>3
    <3>3. CASE p.acct # q.acct
      BY <1>4, <3>1, <3>3
    <3>. QED
      BY <3>2, <3>3
  <2>. QED
    BY <2>1, <2>2
<1>. QED
  BY <1>10, <1>11, <1>13, <1>15, <1>16, <1>17, <1>18

\* TIER_CHANGED tells of rows that are there to stay.
LEMMA AnnounceStep ==
    ASSUME IInv, NEW r \in Requests, PublishTierChanged(r)
    PROVE  RowsExplain' /\ DecidedInv' /\ HandlerInv' /\ LockInv' /\ AnnounceInv'
<1>. DEFINE q == request[r]
            e == [acct |-> q.acct, at |-> q.at, from |-> q.seen, to |-> q.to]
<1>1. /\ UNCHANGED <<record, tier, history, approved, rejected>> /\ At(r, "announce")
      /\ changed' = changed \cup {e}
  BY DEF PublishTierChanged
<1>2. /\ e.at \in 2 .. Len(history[e.acct]) /\ history[e.acct][e.at].tier = e.to
      /\ history[e.acct][e.at - 1].tier = e.from
  BY <1>1 DEF IInv, AnnounceInv
<1>. HIDE DEF e
<1>3. RowsExplain'
  BY <1>1, <1>2 DEF IInv, RowsExplain
<1>4. CASE q.art = NoArtefact
  BY <1>1, <1>3, <1>4, FinishInv DEF PublishTierChanged
<1>5. CASE q.art # NoArtefact
  <2>. DEFINE new == Busy("verdict", q.acct, NoId, q.art, "tier_0", "tier_1", 0)
  <2>1. request' = [request EXCEPT ![r] = new]
    BY <1>5 DEF PublishTierChanged
  <2>2. new.stage = "verdict" /\ new.art = q.art /\ new.acct = q.acct /\ new.to = "tier_1"
    BY DEF Busy
  <2>3. Decided(r) /\ ~At(r, "rejected")
    BY <1>1, <1>5 DEF Decided
  <2>. HIDE DEF new
  <2>. QED
    BY <1>1, <1>3, <2>1, <2>2, <2>3, QuietStep
<1>. QED
  BY <1>3, <1>4, <1>5

\* The verdict is announced by the one handler that decided it, once.
LEMMA VerdictInv ==
    ASSUME IInv, NEW r \in Requests, PublishApproved(r) \/ PublishRejected(r)
    PROVE  /\ OneVerdictTold' /\ RecordInv'
           /\ DecidedInv' /\ HandlerInv' /\ LockInv' /\ AnnounceInv'
<1>. DEFINE k == request[r].art
<1>1. /\ UNCHANGED <<record, tier, history, changed>>
      /\ request' = [request EXCEPT ![r] = Idle] /\ Idle.stage = "idle" /\ Idle.art = NoArtefact
      /\ request[r].stage \in {"verdict", "rejected"}
      /\ \/ /\ At(r, "verdict") /\ approved' = [approved EXCEPT ![k] = @ + 1] /\ rejected' = rejected
         \/ /\ At(r, "rejected") /\ rejected' = [rejected EXCEPT ![k] = @ + 1] /\ approved' = approved
  BY DEF PublishApproved, PublishRejected, Finish, Idle, Busy
<1>2. k \in Artefacts /\ Decided(r)
  BY <1>1, InFlight, KycTierAssumption DEF IInv, Decided
<1>3. /\ record[k].status = IF At(r, "rejected") THEN "failed" ELSE "verified"
      /\ approved[k] = 0 /\ rejected[k] = 0
      /\ \A s \in Requests : Decided(s) /\ request[s].art = k => s = r
  BY <1>2 DEF IInv, DecidedInv
<1>4. /\ ~Decided(r)' /\ \A s \in Requests : s # r => request'[s] = request[s]
      /\ request'[r].stage = "idle" /\ request'[r].art = NoArtefact
  BY <1>1 DEF IInv, TypeOK, RequestOK, Decided
<1>5. /\ \A l \in Artefacts : l # k => approved'[l] = approved[l] /\ rejected'[l] = rejected[l]
      /\ \/ At(r, "verdict") /\ approved'[k] = 1 /\ rejected'[k] = 0
         \/ At(r, "rejected") /\ approved'[k] = 0 /\ rejected'[k] = 1
  BY <1>1, <1>2, <1>3 DEF IInv, TypeOK
<1>. HIDE DEF k
<1>6. OneVerdictTold'
  BY <1>1, <1>2, <1>3, <1>5 DEF IInv, OneVerdictTold
<1>7. RecordInv'
  BY <1>1, <1>2, <1>3, <1>5 DEF IInv, RecordInv
<1>8. \A s \in Requests : Decided(s)' => s # r /\ Decided(s) /\ request'[s] = request[s]
                                         /\ request[s].art \in Artefacts /\ request[s].art # k
  BY <1>3, <1>4 DEF Decided, IInv, TypeOK, RequestOK
<1>9. DecidedInv'
  BY <1>1, <1>4, <1>5, <1>8 DEF IInv, DecidedInv
<1>10. HandlerInv'
  BY <1>1, <1>4 DEF IInv, HandlerInv
<1>11. LockInv' /\ AnnounceInv'
  BY <1>1, <1>4 DEF IInv, LockInv, AnnounceInv
<1>. QED
  BY <1>6, <1>7, <1>9, <1>10, <1>11

\* The invariant survives every step.
LEMMA InvStep == IInv /\ [Next]_vars => IInv'
<1>. SUFFICES ASSUME IInv, [Next]_vars PROVE IInv'
  OBVIOUS
<1>0. TypeOK'
  BY TypeStep DEF IInv
<1>1. ASSUME UNCHANGED <<tier, history, changed>>,
             NationalIdUnique', OneVerdictTold', OnEvidenceOnly', RecordInv',
             DecidedInv', HandlerInv', LockInv', AnnounceInv'
      PROVE  IInv'
  BY <1>0, <1>1, HistorySame DEF IInv
<1>2. ASSUME UNCHANGED <<record, tier, history, changed, approved, rejected>>,
             DecidedInv', HandlerInv', LockInv', AnnounceInv'
      PROVE  IInv'
  BY <1>1, <1>2, TablesSame, PromotionsSame
<1>3. ASSUME NEW k \in Artefacts, NEW a \in Accounts, NEW t \in {"tier_1", "tier_2"}, AwaitReview(k, a, t)
      PROVE  IInv'
  <2>1. UNCHANGED <<tier, history, changed>>
    BY <1>3 DEF AwaitReview
  <2>2. CASE Requests # {}
    BY <1>1, <1>3, <2>1, <2>2, AwaitReviewInv
  <2>3. CASE Requests = {}
    <3>1. DecidedInv' /\ HandlerInv' /\ LockInv' /\ AnnounceInv'
      BY <2>3 DEF DecidedInv, HandlerInv, LockInv, AnnounceInv
    <3>. DEFINE row == [status |-> "pending", acct |-> a, kind |-> "document", tier |-> t, nid |-> NoId]
    <3>2. /\ record[k].status = "absent" /\ record' = [record EXCEPT ![k] = row]
          /\ UNCHANGED <<history, approved, rejected>> /\ row.status = "pending" /\ row.nid = NoId
      BY <1>3 DEF AwaitReview, Unused
    <3>. HIDE DEF row
    <3>3. record'[k] = row /\ Unsettled(k) /\ OnlyRow(k)
      BY <3>2 DEF IInv, TypeOK, RecordOK, Unsettled, OnlyRow
    <3>4. NationalIdUnique' /\ OneVerdictTold' /\ OnEvidenceOnly' /\ RecordInv'
      BY <3>2, <3>3, RowTables
    <3>. QED
      BY <1>1, <2>1, <3>1, <3>4
  <2>. QED
    BY <2>2, <2>3
<1>4. ASSUME NEW r \in Requests, Arrive(r) PROVE IInv'
  BY <1>2, <1>4, ArriveInv DEF Arrive, SubmitIprs, Review, OverrideTier
<1>5. ASSUME NEW r \in Requests, Continue(r) PROVE IInv'
  <2>1. CASE CheckExisting(r) \/ CheckClaim(r) \/ Lookup(r)
    BY <1>2, <2>1, ChecksInv DEF CheckExisting, CheckClaim, Lookup
  <2>2. ASSUME NEW k \in Artefacts, InsertFailed(r, k) PROVE IInv'
    BY <1>1, <2>2, InsertFailedInv DEF InsertFailed
  <2>3. ASSUME NEW k \in Artefacts, InsertVerified(r, k) PROVE IInv'
    BY <1>1, <2>3, InsertVerifiedInv DEF InsertVerified
  <2>4. CASE MarkVerified(r) \/ MarkFailed(r)
    BY <1>1, <2>4, MarkInv DEF MarkVerified, MarkFailed
  <2>5. CASE RereadAccount(r)
    BY <1>2, <2>5, RereadInv DEF RereadAccount
  <2>6. CASE PublishRejected(r) \/ PublishApproved(r)
    <3>1. UNCHANGED <<record, tier, history, changed>>
      BY <2>6 DEF PublishRejected, PublishApproved
    <3>2. NationalIdUnique' /\ OnEvidenceOnly'
      BY <3>1, PromotionsSame DEF IInv, NationalIdUnique
    <3>. QED
      BY <1>1, <2>6, <3>1, <3>2, VerdictInv
  <2>7. CASE LockTier(r)
    BY <1>2, <2>7, LockInvStep DEF LockTier, ReadTier
  <2>8. CASE CommitTier(r)
    BY <1>0, <2>8, CommitInv, TablesSame DEF CommitTier, IInv
  <2>9. CASE PublishTierChanged(r)
    <3>1. UNCHANGED <<record, tier, history, approved, rejected>>
      BY <2>9 DEF PublishTierChanged
    <3>2. NationalIdUnique' /\ OneVerdictTold' /\ RecordInv' /\ OnEvidenceOnly' /\ HistoryInv'
      BY <3>1, TablesSame, PromotionsSame DEF IInv, HistoryInv
    <3>. QED
      BY <1>0, <2>9, <3>2, AnnounceStep DEF IInv
  <2>. QED
    BY <1>5, <2>1, <2>2, <2>3, <2>4, <2>5, <2>6, <2>7, <2>8, <2>9 DEF Continue
<1>6. ASSUME NEW r \in Requests, Abort(r) PROVE IInv'
  BY <1>2, <1>6, FinishInv DEF Abort
<1>7. CASE UNCHANGED vars
  <2>1. UNCHANGED <<record, tier, history, request, changed, approved, rejected, dropped, untold>>
    BY <1>7 DEF vars
  <2>2. DecidedInv' /\ HandlerInv' /\ LockInv' /\ AnnounceInv'
    BY <2>1 DEF IInv, DecidedInv, Decided, HandlerInv, LockInv, AnnounceInv
  <2>. QED
    BY <1>2, <2>1, <2>2
<1>. QED
  BY <1>3, <1>4, <1>5, <1>6, <1>7 DEF Next

THEOREM Inductive == Spec => []IInv
BY InvInit, InvStep, PTL DEF Spec

-----------------------------------------------------------------------------
(* Nothing is kept back: what is recorded and not yet told has a handler    *)
(* that is to tell it, and only the death of that handler takes it away.    *)

LEMMA KeptInit == Init => KeptInv
<1>. SUFFICES ASSUME Init PROVE KeptInv
  OBVIOUS
<1>1. \A a \in Accounts : Len(history[a]) = 1 /\ tier[a] = "tier_0"
  BY DEF Init
<1>2. \A k \in Artefacts : ~Verified(k) /\ record[k].status = "absent"
  BY DEF Init, NoRecord
<1>3. \A r \in Requests : request[r].stage = "idle" /\ ~Decided(r)
  BY DEF Init, Idle, Busy, Decided
<1>4. NoVerdictKeptBack /\ EvidenceCounts /\ DroppedInv
  BY <1>2, <1>3 DEF Init, NoVerdictKeptBack, EvidenceCounts, DroppedInv, Settled
<1>5. TierSeenInv
  BY <1>1, <1>3 DEF TierSeenInv
<1>6. NoChangeKeptBack
  <2>1. \A a \in Accounts : 2 .. Len(history[a]) = {}
    BY <1>1
  <2>. QED
    BY <2>1 DEF NoChangeKeptBack
<1>. QED
  BY <1>4, <1>5, <1>6 DEF KeptInv

\* A handler moves and keeps what it has decided, or has nothing to keep.
LEMMA QuietKept ==
    ASSUME KeptInv, NEW r \in Requests, OnlyHandler(r),
           UNCHANGED <<record, tier, history, changed, approved, rejected, dropped, untold>>,
           Decided(r)' <=> Decided(r),
           Decided(r) => request'[r].art = request[r].art,
           ~At(r, "announce"),
           request'[r].stage \in {"existing", "claim", "lookup", "insert"} /\ request'[r].seen # "tier_0" =>
              Len(history[request'[r].acct]) > 1,
           \A k \in Artefacts :
              /\ request[r].art = k /\ request[r].stage \in {"reread", "lock", "commit"}
              /\ record[k].tier = "tier_1" /\ Len(history[record[k].acct]) = 1
              => request'[r].art = k /\ request'[r].stage \in {"reread", "lock", "commit"}
    PROVE  KeptInv'
<1>1. \A s \in Requests : s # r => request'[s] = request[s] /\ (Decided(s)' <=> Decided(s))
  BY DEF OnlyHandler, Decided
<1>2. \A s \in Requests : (Decided(s)' <=> Decided(s)) /\ (Decided(s) => request'[s].art = request[s].art)
  BY <1>1
<1>3. \A k : Settled(k)' <=> Settled(k)
  BY DEF Settled
<1>4. NoVerdictKeptBack'
  BY <1>2, <1>3 DEF KeptInv, NoVerdictKeptBack
<1>5. EvidenceCounts'
  <2>. SUFFICES ASSUME NEW k \in Artefacts, Verified(k), record[k].tier = "tier_1",
                       Len(history[record[k].acct]) = 1, k \notin dropped
                PROVE  Promoting(k)'
    BY DEF EvidenceCounts
  <2>1. PICK s \in Requests : request[s].art = k /\ request[s].stage \in {"reread", "lock", "commit"}
    BY DEF KeptInv, EvidenceCounts, Promoting
  <2>2. request'[s].art = k /\ request'[s].stage \in {"reread", "lock", "commit"}
    BY <1>1, <2>1
  <2>. QED
    BY <2>2 DEF Promoting
<1>6. NoChangeKeptBack'
  BY <1>1 DEF KeptInv, NoChangeKeptBack
<1>7. TierSeenInv'
  BY <1>1 DEF KeptInv, TierSeenInv
<1>8. DroppedInv'
  BY <1>2 DEF KeptInv, DroppedInv, Settled
<1>. QED
  BY <1>4, <1>5, <1>6, <1>7, <1>8 DEF KeptInv

LEMMA FinishKept ==
    ASSUME IInv, KeptInv, NEW r \in Requests, Finish(r), ~Decided(r), ~At(r, "announce"),
           UNCHANGED <<record, tier, history, changed, approved, rejected, dropped, untold>>
    PROVE  KeptInv'
<1>1. request'[r].stage = "idle" /\ OnlyHandler(r)
  BY DEF Finish, Idle, Busy, OnlyHandler, IInv, TypeOK, RequestOK
<1>2. ~Decided(r)'
  BY <1>1 DEF Decided
<1>3. request[r].art \in Artefacts => request[r].stage \notin {"reread", "lock", "commit"}
  BY KycTierAssumption DEF Decided
<1>. QED
  BY <1>1, <1>2, <1>3, QuietKept

\* A submission is under way until it has inserted its row: it has decided nothing.
LEMMA ChecksKept ==
    ASSUME IInv, KeptInv, NEW r \in Requests, CheckExisting(r) \/ CheckClaim(r) \/ Lookup(r)
    PROVE  KeptInv'
<1>. DEFINE q == request[r]
<1>1. /\ q.stage \in {"existing", "claim", "lookup"} /\ ~Decided(r) /\ ~At(r, "announce")
      /\ UNCHANGED <<record, tier, history, changed, approved, rejected, dropped, untold>>
      /\ q.seen # "tier_0" => Len(history[q.acct]) > 1
  BY DEF CheckExisting, CheckClaim, Lookup, Decided, KeptInv, TierSeenInv
<1>2. ASSUME NEW s \in {"claim", "lookup", "refuse", "insert"}, Go(r, s) PROVE KeptInv'
  <2>1. /\ request'[r].stage = s /\ request'[r].seen = q.seen /\ request'[r].acct = q.acct
        /\ OnlyHandler(r)
    BY <1>2 DEF Go, IInv, TypeOK, RequestOK, OnlyHandler
  <2>2. ~Decided(r)'
    BY <2>1 DEF Decided
  <2>. QED
    BY <1>1, <2>1, <2>2, QuietKept
<1>. QED
  BY <1>1, <1>2, FinishKept DEF CheckExisting, CheckClaim, Lookup

LEMMA ArriveKept ==
    ASSUME IInv, KeptInv, NEW r \in Requests, Arrive(r)
    PROVE  KeptInv'
<1>1. /\ At(r, "idle") /\ ~Decided(r)
      /\ UNCHANGED <<record, tier, history, changed, approved, rejected, dropped, untold>>
  BY DEF Arrive, SubmitIprs, Review, OverrideTier, Decided
<1>2. OnlyHandler(r)
  BY DEF Arrive, SubmitIprs, Review, OverrideTier, OnlyHandler, IInv, TypeOK, RequestOK
<1>3. ASSUME NEW a \in Accounts, NEW n \in NationalIds, SubmitIprs(r, a, n) PROVE KeptInv'
  <2>1. request'[r].stage = "existing" /\ request'[r].seen = tier[a] /\ request'[r].acct = a
    BY <1>3 DEF SubmitIprs, Busy, IInv, TypeOK, RequestOK
  <2>2. ~Decided(r)' /\ (tier[a] # "tier_0" => Len(history[a]) > 1)
    BY <2>1 DEF Decided, KeptInv, TierSeenInv
  <2>. QED
    BY <1>1, <1>2, <2>1, <2>2, QuietKept
<1>4. ASSUME NEW k \in Artefacts, NEW verdict \in {"approve", "reject"}, Review(r, k, verdict) PROVE KeptInv'
  <2>1. request'[r].stage = verdict
    BY <1>4 DEF Review, Busy, IInv, TypeOK, RequestOK
  <2>2. ~Decided(r)'
    BY <2>1 DEF Decided
  <2>. QED
    BY <1>1, <1>2, <2>1, <2>2, QuietKept
<1>5. ASSUME NEW a \in Accounts, NEW t \in Tiers, OverrideTier(r, a, t) PROVE KeptInv'
  <2>1. request'[r].stage = "lock" /\ request'[r].art = NoArtefact
    BY <1>5 DEF OverrideTier, Busy, IInv, TypeOK, RequestOK
  <2>2. ~Decided(r)'
    BY <2>1 DEF Decided
  <2>. QED
    BY <1>1, <1>2, <2>1, <2>2, QuietKept
<1>. QED
  BY <1>3, <1>4, <1>5 DEF Arrive

\* An account that is still at tier_0 is promoted for a tier-1 artefact.
LEMMA RereadKept ==
    ASSUME IInv, KeptInv, NEW r \in Requests, RereadAccount(r)
    PROVE  KeptInv'
<1>1. /\ At(r, "reread") /\ Decided(r) /\ request[r].art \in Artefacts
      /\ UNCHANGED <<record, tier, history, changed, approved, rejected, dropped, untold>>
  BY InFlight, KycTierAssumption DEF RereadAccount, Decided, IInv
<1>2. PICK s : /\ s = IF tier[request[r].acct] = "tier_0" /\ record[request[r].art].tier = "tier_1"
                      THEN "lock" ELSE "verdict"
               /\ Go(r, s)
  BY DEF RereadAccount
<1>3. request'[r].stage = s /\ request'[r].art = request[r].art /\ OnlyHandler(r)
  BY <1>2 DEF Go, IInv, TypeOK, RequestOK, OnlyHandler
<1>4. Decided(r)' /\ s \in {"lock", "verdict"}
  BY <1>1, <1>2, <1>3 DEF Decided
<1>5. record[request[r].art].acct = request[r].acct /\ request[r].acct \in Accounts
  BY <1>1, InFlight DEF IInv, DecidedInv
<1>6. Len(history[request[r].acct]) = 1 => tier[request[r].acct] = "tier_0"
  <2>1. PICK a \in Accounts : a = request[r].acct
    BY <1>5
  <2>2. Len(history[a]) \in Nat
    BY DEF IInv, TypeOK
  <2>3. tier[a] # "tier_0" => Len(history[a]) > 1
    BY DEF KeptInv, TierSeenInv
  <2>. QED
    BY <2>1, <2>2, <2>3
<1>7. Len(history[request[r].acct]) = 1 /\ record[request[r].art].tier = "tier_1" => s = "lock"
  BY <1>2, <1>6
<1>. QED
  BY <1>1, <1>3, <1>4, <1>5, <1>7, QuietKept

LEMMA LockKept ==
    ASSUME IInv, KeptInv, NEW r \in Requests, LockTier(r)
    PROVE  KeptInv'
<1>1. /\ At(r, "lock")
      /\ UNCHANGED <<record, tier, history, changed, approved, rejected, dropped, untold>>
      /\ request'[r].stage = "commit" /\ request'[r].art = request[r].art
      /\ OnlyHandler(r)
  BY DEF LockTier, ReadTier, Busy, IInv, TypeOK, RequestOK, OnlyHandler
<1>2. Decided(r)' <=> Decided(r)
  BY <1>1 DEF Decided
<1>. QED
  BY <1>1, <1>2, QuietKept

\* A row is inserted or gets its verdict.  If that is to be announced, r does
\* it, after the promotion if one is due; r is nobody when no handler moves.
LEMMA RowKept ==
    ASSUME IInv, KeptInv, NEW r, NEW k \in Artefacts,
           Unsettled(k), OnlyRow(k), OnlyHandler(r),
           r \in Requests => ~Decided(r) /\ ~At(r, "announce"),
           UNCHANGED <<tier, history, changed, approved, rejected, dropped, untold>>,
           record'[k].status = "pending" => record'[k].kind = "document",
           \/ request'[r] = request[r] /\ ~Settled(k)'
           \/ request'[r].stage = "idle" /\ ~Settled(k)'
           \/ /\ r \in Requests /\ Taken(r, k) /\ Settled(k)'
              /\ Verified(k)' /\ record'[k].tier = "tier_1" /\ Len(history[record'[k].acct]) = 1 =>
                    request'[r].stage \in {"reread", "lock"}
    PROVE  KeptInv'
<1>1. /\ \A l \in Artefacts : l # k => record'[l] = record[l]
      /\ \A s \in Requests : s # r => request'[s] = request[s]
  BY DEF OnlyRow, OnlyHandler
<1>2. \A s \in Requests : s # r => (Decided(s)' <=> Decided(s))
  BY <1>1 DEF Decided
<1>3. \A l \in Artefacts : l # k => (Settled(l)' <=> Settled(l)) /\ (Verified(l)' <=> Verified(l))
  BY <1>1 DEF Settled
<1>4. \A s \in Requests : Decided(s) => s # r /\ request[s].art # k
  BY Undecided DEF Unsettled
<1>5. approved[k] = 0 /\ rejected[k] = 0 /\ ~Settled(k) /\ k \notin dropped
  BY DEF IInv, RecordInv, Unsettled, KeptInv, DroppedInv, Settled
<1>6. Settled(k)' => /\ r \in Requests /\ Decided(r)' /\ request'[r].art = k
  BY KycTierAssumption DEF Taken, Decided
<1>7. NoVerdictKeptBack'
  <2>. SUFFICES ASSUME NEW l \in Artefacts, Settled(l)'
                PROVE  \/ approved[l] + rejected[l] = 1 /\ l \notin dropped
                       \/ /\ approved[l] + rejected[l] = 0
                          /\ l \in dropped \/ \E s \in Requests : Decided(s)' /\ request'[s].art = l
    BY DEF NoVerdictKeptBack
  <2>1. CASE l = k
    BY <1>5, <1>6, <2>1
  <2>2. CASE l # k
    BY <1>1, <1>2, <1>3, <1>4, <2>2 DEF KeptInv, NoVerdictKeptBack
  <2>. QED
    BY <2>1, <2>2
<1>8. EvidenceCounts'
  <2>. SUFFICES ASSUME NEW l \in Artefacts, Verified(l)', record'[l].tier = "tier_1",
                       Len(history[record'[l].acct]) = 1, l \notin dropped
                PROVE  Promoting(l)'
    BY DEF EvidenceCounts
  <2>1. CASE l = k
    <3>1. Settled(k)'
      BY <2>1 DEF Settled
    <3>2. request'[r].stage \in {"reread", "lock"}
      BY <2>1, <3>1
    <3>. QED
      BY <1>6, <2>1, <3>1, <3>2 DEF Promoting
  <2>2. CASE l # k
    <3>1. PICK s \in Requests : request[s].art = l /\ request[s].stage \in {"reread", "lock", "commit"}
      BY <1>1, <2>2 DEF KeptInv, EvidenceCounts, Promoting
    <3>2. s # r
      BY <1>4, <3>1, KycTierAssumption DEF Decided
    <3>3. request'[s] = request[s]
      BY <1>1, <3>2
    <3>. QED
      BY <3>1, <3>3 DEF Promoting
  <2>. QED
    BY <2>1, <2>2
<1>9. NoChangeKeptBack'
  BY <1>1 DEF KeptInv, NoChangeKeptBack
<1>10. TierSeenInv'
  <2>1. \A s \in Requests : request'[s].stage \in {"existing", "claim", "lookup", "insert"} =>
           request'[s] = request[s]
    BY <1>1 DEF Taken
  <2>. QED
    BY <2>1 DEF KeptInv, TierSeenInv
<1>11. DroppedInv'
  <2>1. \A l \in Artefacts : record'[l].status = "pending" => record'[l].kind = "document"
    BY <1>1 DEF KeptInv, DroppedInv
  <2>2. \A l \in dropped : l \in Artefacts /\ l # k /\ Settled(l)' /\ approved[l] = 0 /\ rejected[l] = 0
    BY <1>3, <1>5 DEF IInv, TypeOK, KeptInv, DroppedInv
  <2>3. ASSUME NEW s \in Requests, Decided(s)'
        PROVE  (request[s].art \notin dropped)' /\ Settled(request[s].art)'
    <3>1. CASE s # r \/ request'[r] = request[r]
      <4>1. Decided(s) /\ request'[s] = request[s]
        BY <1>1, <1>2, <2>3, <3>1 DEF Decided
      <4>2. request[s].art \in Artefacts /\ request[s].art # k
        BY <1>4, <4>1 DEF Decided, IInv, TypeOK, RequestOK
      <4>3. Settled(request[s].art) /\ request[s].art \notin dropped
        BY <4>1 DEF KeptInv, DroppedInv
      <4>. QED
        BY <1>1, <4>1, <4>2, <4>3 DEF Settled
    <3>2. CASE s = r /\ request'[r] # request[r]
      <4>1. Settled(k)' /\ Taken(r, k)
        BY <2>3, <3>2 DEF Decided
      <4>. QED
        BY <1>5, <3>2, <4>1 DEF Taken
    <3>. QED
      BY <3>1, <3>2
  <2>. QED
    BY <2>1, <2>2, <2>3 DEF DroppedInv
<1>. QED
  BY <1>7, <1>8, <1>9, <1>10, <1>11 DEF KeptInv

LEMMA AwaitReviewKept ==
    ASSUME IInv, KeptInv, NEW k \in Artefacts, NEW a \in Accounts, NEW t \in {"tier_1", "tier_2"},
           AwaitReview(k, a, t)
    PROVE  KeptInv'
<1>1. /\ Unsettled(k) /\ OnlyRow(k) /\ record'[k].status = "pending" /\ record'[k].kind = "document"
      /\ UNCHANGED <<tier, history, request, changed, approved, rejected, dropped, untold>>
  BY DEF AwaitReview, Unused, Unsettled, OnlyRow, IInv, TypeOK, RecordOK
<1>2. PICK r : r \notin Requests
  BY NoSetContainsEverything
<1>3. OnlyHandler(r) /\ request'[r] = request[r] /\ ~Settled(k)'
  BY <1>1 DEF OnlyHandler, Settled
<1>. QED
  BY <1>1, <1>2, <1>3, RowKept

LEMMA InsertFailedKept ==
    ASSUME IInv, KeptInv, NEW r \in Requests, NEW k \in Artefacts, InsertFailed(r, k)
    PROVE  KeptInv'
<1>1. /\ At(r, "refuse") /\ ~Decided(r) /\ Unsettled(k) /\ OnlyRow(k)
      /\ UNCHANGED <<tier, history, changed, approved, rejected, dropped, untold>>
      /\ record'[k].status = "failed" /\ record'[k].kind = "iprs_lookup"
  BY DEF InsertFailed, Unused, IprsRecord, Unsettled, OnlyRow, Decided, IInv, TypeOK, RecordOK
<1>2. OnlyHandler(r) /\ request'[r].stage = "idle"
  BY DEF InsertFailed, Finish, Idle, Busy, OnlyHandler, IInv, TypeOK, RequestOK
<1>3. ~Settled(k)'
  BY <1>1 DEF Settled
<1>. QED
  BY <1>1, <1>2, <1>3, RowKept

\* Who found the account at tier_0 promotes it; who did not, found one that has
\* been assigned a tier before.
LEMMA InsertVerifiedKept ==
    ASSUME IInv, KeptInv, NEW r \in Requests, NEW k \in Artefacts, InsertVerified(r, k)
    PROVE  KeptInv'
<1>. DEFINE q == request[r]
<1>1. /\ At(r, "insert") /\ ~Decided(r)
      /\ UNCHANGED <<tier, history, changed, approved, rejected, dropped, untold>>
      /\ q.seen # "tier_0" => Len(history[q.acct]) > 1
      /\ history[q.acct] \in Seq(Assignment)
  BY InFlight DEF InsertVerified, Decided, KeptInv, TierSeenInv, IInv
<1>2. CASE Finish(r) /\ UNCHANGED record
  BY <1>1, <1>2, FinishKept
<1>3. CASE /\ Unused(k)
           /\ record' = [record EXCEPT ![k] = IprsRecord(q.acct, q.nid, "verified")]
           /\ request' = [request EXCEPT ![r] =
                             Busy(IF q.seen = "tier_0" THEN "lock" ELSE "verdict",
                                  q.acct, NoId, k, "tier_0", "tier_1", 0)]
  <2>1. /\ Unsettled(k) /\ OnlyRow(k) /\ Verified(k)' /\ Settled(k)'
        /\ record'[k].acct = q.acct /\ record'[k].tier = "tier_1"
    BY <1>3 DEF Unused, Unsettled, OnlyRow, IprsRecord, Settled, IInv, TypeOK, RecordOK
  <2>2. /\ OnlyHandler(r)
        /\ request'[r].stage = IF q.seen = "tier_0" THEN "lock" ELSE "verdict"
        /\ request'[r].art = k /\ request'[r].acct = q.acct /\ request'[r].to = "tier_1"
    BY <1>3 DEF Busy, OnlyHandler, IInv, TypeOK, RequestOK
  <2>3. Taken(r, k)
    BY <2>1, <2>2 DEF Taken
  <2>4. Len(history[record'[k].acct]) = 1 => request'[r].stage = "lock"
    BY <1>1, <2>1, <2>2
  <2>5. record'[k].status # "pending"
    BY <2>1
  <2>. QED
    BY <1>1, <2>1, <2>2, <2>3, <2>4, <2>5, RowKept
<1>. QED
  BY <1>2, <1>3 DEF InsertVerified

LEMMA MarkKept ==
    ASSUME IInv, KeptInv, NEW r \in Requests, MarkVerified(r) \/ MarkFailed(r)
    PROVE  KeptInv'
<1>1. PICK k \in Artefacts : k = request[r].art
  BY InFlight DEF MarkVerified, MarkFailed, IInv
<1>2. /\ request[r].stage \in {"approve", "reject"} /\ ~Decided(r)
      /\ UNCHANGED <<tier, history, changed, approved, rejected, dropped, untold>>
      /\ record[k] \in Record /\ record[k].acct = request[r].acct
  BY <1>1 DEF MarkVerified, MarkFailed, Decided, IInv, TypeOK, RecordOK, HandlerInv
<1>3. CASE Finish(r) /\ UNCHANGED record
  BY <1>2, <1>3, FinishKept
<1>4. ASSUME NEW status \in {"verified", "failed"}, NEW s \in {"reread", "rejected"},
             status = "failed" <=> s = "rejected",
             record[k].status = "pending",
             record' = [record EXCEPT ![k] = [record[k] EXCEPT !.status = status]],
             Go(r, s)
      PROVE  KeptInv'
  <2>1. /\ Unsettled(k) /\ OnlyRow(k) /\ record'[k].status = status
        /\ record'[k].acct = record[k].acct /\ record'[k].kind = record[k].kind
    BY <1>2, <1>4 DEF Unsettled, OnlyRow, Record, IInv, TypeOK, RecordOK
  <2>2. /\ OnlyHandler(r) /\ request'[r].stage = s /\ request'[r].art = k
        /\ request'[r].acct = request[r].acct /\ request'[r].to = request[r].to
    BY <1>1, <1>4 DEF Go, OnlyHandler, IInv, TypeOK, RequestOK
  <2>3. request[r].to = "tier_1"
    BY <1>1, KycTierAssumption DEF IInv, HandlerInv
  <2>4. record[k].kind = "document"
    BY <1>4 DEF KeptInv, DroppedInv
  <2>5. Settled(k)'
    BY <1>4, <2>1, <2>4 DEF Settled
  <2>6. Taken(r, k)
    BY <1>2, <1>4, <2>1, <2>2, <2>3 DEF Taken
  <2>7. Verified(k)' => request'[r].stage = "reread"
    BY <1>4, <2>1, <2>2
  <2>8. record'[k].status # "pending"
    BY <2>1
  <2>. QED
    BY <1>2, <2>1, <2>2, <2>5, <2>6, <2>7, <2>8, RowKept
<1>. QED
  BY <1>1, <1>3, <1>4 DEF MarkVerified, MarkFailed

\* The verdict is told.
LEMMA PublishKept ==
    ASSUME IInv, KeptInv, NEW r \in Requests, PublishApproved(r) \/ PublishRejected(r)
    PROVE  KeptInv'
<1>1. PICK k : k = request[r].art
  OBVIOUS
<1>2. /\ request[r].stage \in {"verdict", "rejected"} /\ k \in Artefacts /\ Decided(r)
      /\ UNCHANGED <<record, tier, history, changed, dropped, untold>>
  BY <1>1, InFlight, KycTierAssumption DEF PublishApproved, PublishRejected, Decided, IInv
<1>3. /\ approved[k] = 0 /\ rejected[k] = 0 /\ k \notin dropped
      /\ \A s \in Requests : Decided(s) /\ request[s].art = k => s = r
  BY <1>1, <1>2 DEF IInv, DecidedInv, KeptInv, DroppedInv
<1>4. /\ approved'[k] + rejected'[k] = 1
      /\ \A l \in Artefacts : l # k => approved'[l] = approved[l] /\ rejected'[l] = rejected[l]
  BY <1>1, <1>2, <1>3 DEF PublishApproved, PublishRejected, IInv, TypeOK
<1>5. /\ request'[r].stage = "idle" /\ \A s \in Requests : s # r => request'[s] = request[s]
  BY DEF PublishApproved, PublishRejected, Finish, Idle, Busy, IInv, TypeOK, RequestOK
<1>6. ~Decided(r)' /\ \A s \in Requests : s # r => (Decided(s)' <=> Decided(s))
  BY <1>5 DEF Decided
<1>7. \A l : Settled(l)' <=> Settled(l)
  BY <1>2 DEF Settled
<1>8. NoVerdictKeptBack'
  BY <1>1, <1>2, <1>4, <1>3, <1>5, <1>6, <1>7 DEF KeptInv, NoVerdictKeptBack
<1>9. EvidenceCounts'
  <2>. SUFFICES ASSUME NEW l \in Artefacts, Verified(l), record[l].tier = "tier_1",
                       Len(history[record[l].acct]) = 1, l \notin dropped
                PROVE  Promoting(l)'
    BY <1>2 DEF EvidenceCounts
  <2>1. PICK s \in Requests : request[s].art = l /\ request[s].stage \in {"reread", "lock", "commit"}
    BY DEF KeptInv, EvidenceCounts, Promoting
  <2>2. request'[s] = request[s]
    BY <1>2, <1>5, <2>1
  <2>. QED
    BY <2>1, <2>2 DEF Promoting
<1>10. NoChangeKeptBack'
  <2>1. \A s \in Requests : At(s, "announce") => request'[s] = request[s]
    BY <1>2, <1>5
  <2>. QED
    BY <1>2, <2>1 DEF KeptInv, NoChangeKeptBack
<1>11. TierSeenInv'
  BY <1>2, <1>5 DEF KeptInv, TierSeenInv
<1>12. DroppedInv'
  <2>1. \A l \in dropped : l \in Artefacts /\ l # k
    BY <1>3 DEF IInv, TypeOK
  <2>. QED
    BY <1>2, <1>4, <1>5, <1>6, <2>1 DEF KeptInv, DroppedInv, Settled
<1>. QED
  BY <1>8, <1>9, <1>10, <1>11, <1>12 DEF KeptInv

\* The change is told, and the verdict still to be told.
LEMMA AnnounceKept ==
    ASSUME IInv, KeptInv, NEW r \in Requests, PublishTierChanged(r)
    PROVE  KeptInv'
<1>. DEFINE q == request[r]
            e == [acct |-> q.acct, at |-> q.at, from |-> q.seen, to |-> q.to]
<1>1. /\ At(r, "announce") /\ changed' = changed \cup {e}
      /\ UNCHANGED <<record, tier, history, approved, rejected, dropped, untold>>
  BY DEF PublishTierChanged
<1>2. /\ \A s \in Requests : s # r => request'[s] = request[s]
      /\ q.art = NoArtefact => request'[r].stage = "idle"
      /\ q.art # NoArtefact => request'[r].stage = "verdict" /\ request'[r].art = q.art
  BY DEF PublishTierChanged, Finish, Idle, Busy, IInv, TypeOK, RequestOK
<1>3. \A s \in Requests : (Decided(s)' <=> Decided(s)) /\ (Decided(s) => request'[s].art = request[s].art)
  BY <1>1, <1>2 DEF Decided
<1>4. \A l : Settled(l)' <=> Settled(l)
  BY <1>1 DEF Settled
<1>5. NoVerdictKeptBack'
  BY <1>1, <1>3, <1>4 DEF KeptInv, NoVerdictKeptBack
<1>6. EvidenceCounts'
  <2>. SUFFICES ASSUME NEW l \in Artefacts, Verified(l), record[l].tier = "tier_1",
                       Len(history[record[l].acct]) = 1, l \notin dropped
                PROVE  Promoting(l)'
    BY <1>1 DEF EvidenceCounts
  <2>1. PICK s \in Requests : request[s].art = l /\ request[s].stage \in {"reread", "lock", "commit"}
    BY DEF KeptInv, EvidenceCounts, Promoting
  <2>2. request'[s] = request[s]
    BY <1>1, <1>2, <2>1
  <2>. QED
    BY <2>1, <2>2 DEF Promoting
<1>7. NoChangeKeptBack'
  <2>. SUFFICES ASSUME NEW a \in Accounts, NEW i \in 2 .. Len(history[a]), <<a, i>> \notin untold,
                       ~\E x \in changed' : x.acct = a /\ x.at = i
                PROVE  \E s \in Requests : At(s, "announce")' /\ request'[s].acct = a /\ request'[s].at = i
    BY <1>1 DEF NoChangeKeptBack
  <2>1. PICK s \in Requests : At(s, "announce") /\ request[s].acct = a /\ request[s].at = i
    BY <1>1 DEF KeptInv, NoChangeKeptBack
  <2>2. e \in changed' /\ e.acct = q.acct /\ e.at = q.at
    BY <1>1
  <2>3. s # r
    BY <2>1, <2>2
  <2>. QED
    BY <1>2, <2>1, <2>3
<1>8. TierSeenInv'
  BY <1>1, <1>2 DEF KeptInv, TierSeenInv
<1>9. DroppedInv'
  BY <1>1, <1>3 DEF KeptInv, DroppedInv, Settled
<1>. QED
  BY <1>5, <1>6, <1>7, <1>8, <1>9 DEF KeptInv

\* One more row, which r is to tell of; the account has left its first tier.
LEMMA CommitKept ==
    ASSUME IInv, KeptInv, NEW r \in Requests, CommitTier(r)
    PROVE  KeptInv'
<1>0. At(r, "commit") /\ request[r].acct \in Accounts /\ TypeOK
  BY InFlight DEF CommitTier, IInv
<1>1. PICK c \in Accounts : c = request[r].acct
  BY <1>0
<1>2. PICK rows \in Seq(Assignment) :
          /\ Len(rows) = Len(history[c]) + 1
          /\ tier' = [tier EXCEPT ![c] = request[r].to]
          /\ history' = [history EXCEPT ![c] = rows]
          /\ request' = [request EXCEPT ![r] =
                            Busy("announce", c, NoId, request[r].art, request[r].seen, request[r].to, Len(rows))]
          /\ UNCHANGED <<record, changed, approved, rejected, dropped, untold>>
  BY <1>0, <1>1, CommitFacts
<1>3. \A a \in Accounts : Len(history[a]) \in Nat /\ Len(history[a]) >= 1
  BY <1>0 DEF TypeOK, IInv, HistoryInv
<1>4. /\ Len(history'[c]) = Len(history[c]) + 1 /\ Len(history'[c]) > 1
      /\ \A a \in Accounts : a # c => history'[a] = history[a] /\ tier'[a] = tier[a]
  BY <1>0, <1>2, <1>3 DEF TypeOK
<1>5. /\ request'[r].stage = "announce" /\ request'[r].acct = c /\ request'[r].at = Len(history[c]) + 1
      /\ request'[r].art = request[r].art
      /\ \A s \in Requests : s # r => request'[s] = request[s]
  BY <1>0, <1>2 DEF TypeOK, RequestOK, Busy
<1>6. \A s \in Requests : (Decided(s)' <=> Decided(s)) /\ (Decided(s) => request'[s].art = request[s].art)
  BY <1>0, <1>5 DEF Decided
<1>7. \A l : Settled(l)' <=> Settled(l)
  BY <1>2 DEF Settled
<1>8. NoVerdictKeptBack'
  BY <1>2, <1>6, <1>7 DEF KeptInv, NoVerdictKeptBack
<1>9. EvidenceCounts'
  <2>. SUFFICES ASSUME NEW l \in Artefacts, Verified(l), record[l].tier = "tier_1",
                       Len(history'[record[l].acct]) = 1, l \notin dropped
                PROVE  Promoting(l)'
    BY <1>2 DEF EvidenceCounts
  <2>0. Len(history'[c]) # 1
    BY <1>1, <1>3, <1>4
  <2>1. record[l].acct \in Accounts /\ record[l].acct # c
    BY <1>0, <2>0 DEF TypeOK, RecordOK
  <2>2. PICK s \in Requests : request[s].art = l /\ request[s].stage \in {"reread", "lock", "commit"}
    BY <1>4, <2>1 DEF KeptInv, EvidenceCounts, Promoting
  <2>3. record[l].acct = request[s].acct
    BY <2>2, KycTierAssumption DEF IInv, DecidedInv, Decided
  <2>4. request'[s] = request[s]
    BY <1>1, <1>5, <2>1, <2>3
  <2>. QED
    BY <2>2, <2>4 DEF Promoting
<1>10. NoChangeKeptBack'
  <2>. SUFFICES ASSUME NEW a \in Accounts, NEW i \in 2 .. Len(history'[a]), <<a, i>> \notin untold,
                       ~\E x \in changed : x.acct = a /\ x.at = i
                PROVE  \E s \in Requests : At(s, "announce")' /\ request'[s].acct = a /\ request'[s].at = i
    BY <1>2 DEF NoChangeKeptBack
  <2>1. CASE a = c /\ i = Len(history[c]) + 1
    BY <1>5, <2>1
  <2>2. CASE ~(a = c /\ i = Len(history[c]) + 1)
    <3>1. i \in 2 .. Len(history[a])
      BY <1>3, <1>4, <2>2
    <3>2. PICK s \in Requests : At(s, "announce") /\ request[s].acct = a /\ request[s].at = i
      BY <3>1 DEF KeptInv, NoChangeKeptBack
    <3>3. request'[s] = request[s]
      BY <1>0, <1>5, <3>2
    <3>. QED
      BY <3>2, <3>3
  <2>. QED
    BY <2>1, <2>2
<1>11. TierSeenInv'
  <2>1. ASSUME NEW a \in Accounts, tier'[a] # "tier_0" PROVE Len(history'[a]) > 1
    BY <1>4, <2>1 DEF KeptInv, TierSeenInv
  <2>2. ASSUME NEW s \in Requests, request'[s].stage \in {"existing", "claim", "lookup", "insert"},
               request'[s].seen # "tier_0"
        PROVE  Len(history'[request'[s].acct]) > 1
    <3>1. request'[s] = request[s]
      BY <1>5, <2>2
    <3>2. request[s].acct \in Accounts /\ Len(history[request[s].acct]) > 1
      BY <1>0, <2>2, <3>1, InFlight DEF KeptInv, TierSeenInv
    <3>. QED
      BY <1>4, <3>1, <3>2
  <2>. QED
    BY <2>1, <2>2 DEF TierSeenInv
<1>12. DroppedInv'
  BY <1>2, <1>6 DEF KeptInv, DroppedInv, Settled
<1>. QED
  BY <1>8, <1>9, <1>10, <1>11, <1>12 DEF KeptInv

\* Who dies takes with it what it had to tell.
LEMMA AbortKept ==
    ASSUME IInv, KeptInv, NEW r \in Requests, Abort(r)
    PROVE  KeptInv'
<1>1. PICK k : k = request[r].art
  OBVIOUS
<1>2. /\ UNCHANGED <<record, tier, history, changed, approved, rejected>>
      /\ dropped' = (IF Decided(r) THEN dropped \cup {k} ELSE dropped)
      /\ untold' = (IF At(r, "announce") THEN untold \cup {<<request[r].acct, request[r].at>>} ELSE untold)
      /\ request'[r].stage = "idle" /\ \A s \in Requests : s # r => request'[s] = request[s]
  BY <1>1 DEF Abort, Finish, Idle, Busy, IInv, TypeOK, RequestOK
<1>3. ~Decided(r)' /\ \A s \in Requests : s # r => (Decided(s)' <=> Decided(s))
  BY <1>2 DEF Decided
<1>4. Decided(r) => /\ approved[k] = 0 /\ rejected[k] = 0 /\ Settled(k)
                    /\ \A s \in Requests : Decided(s) /\ request[s].art = k => s = r
  BY <1>1 DEF IInv, DecidedInv, KeptInv, DroppedInv
<1>5. \A l : Settled(l)' <=> Settled(l)
  BY <1>2 DEF Settled
<1>6. NoVerdictKeptBack'
  BY <1>1, <1>2, <1>3, <1>4, <1>5 DEF KeptInv, NoVerdictKeptBack
<1>7. EvidenceCounts'
  <2>. SUFFICES ASSUME NEW l \in Artefacts, Verified(l), record[l].tier = "tier_1",
                       Len(history[record[l].acct]) = 1, l \notin dropped'
                PROVE  Promoting(l)'
    BY <1>2 DEF EvidenceCounts
  <2>1. PICK s \in Requests : request[s].art = l /\ request[s].stage \in {"reread", "lock", "commit"}
    BY <1>2 DEF KeptInv, EvidenceCounts, Promoting
  <2>2. s # r
    BY <1>1, <1>2, <2>1, KycTierAssumption DEF Decided
  <2>. QED
    BY <1>2, <2>1, <2>2 DEF Promoting
<1>8. NoChangeKeptBack'
  <2>. SUFFICES ASSUME NEW a \in Accounts, NEW i \in 2 .. Len(history[a]), <<a, i>> \notin untold',
                       ~\E x \in changed : x.acct = a /\ x.at = i
                PROVE  \E s \in Requests : At(s, "announce")' /\ request'[s].acct = a /\ request'[s].at = i
    BY <1>2 DEF NoChangeKeptBack
  <2>1. PICK s \in Requests : At(s, "announce") /\ request[s].acct = a /\ request[s].at = i
    BY <1>2 DEF KeptInv, NoChangeKeptBack
  <2>2. s # r
    BY <1>2, <2>1
  <2>. QED
    BY <1>2, <2>1, <2>2
<1>9. TierSeenInv'
  BY <1>2 DEF KeptInv, TierSeenInv
<1>10. DroppedInv'
  <2>1. \A l \in dropped' : Settled(l)' /\ approved[l] = 0 /\ rejected[l] = 0
    BY <1>2, <1>4, <1>5 DEF KeptInv, DroppedInv
  <2>2. ASSUME NEW s \in Requests, Decided(s)'
        PROVE  (request[s].art \notin dropped)' /\ Settled(request[s].art)'
    <3>1. s # r /\ Decided(s) /\ request'[s] = request[s]
      BY <1>2, <1>3, <2>2
    <3>2. request[s].art \notin dropped /\ Settled(request[s].art) /\ (Decided(r) => request[s].art # k)
      BY <1>4, <3>1 DEF KeptInv, DroppedInv
    <3>. QED
      BY <1>2, <3>1, <3>2 DEF Settled
  <2>. QED
    BY <1>2, <2>1, <2>2 DEF KeptInv, DroppedInv
<1>. QED
  BY <1>6, <1>7, <1>8, <1>9, <1>10 DEF KeptInv

LEMMA KeptStep == IInv /\ KeptInv /\ [Next]_vars => KeptInv'
<1>. SUFFICES ASSUME IInv, KeptInv, [Next]_vars PROVE KeptInv'
  OBVIOUS
<1>1. ASSUME NEW r \in Requests, Continue(r) PROVE KeptInv'
  BY <1>1, ChecksKept, InsertFailedKept, InsertVerifiedKept, MarkKept, RereadKept, PublishKept,
     LockKept, CommitKept, AnnounceKept DEF Continue
<1>2. CASE UNCHANGED vars
  <2>1. UNCHANGED <<record, tier, history, request, changed, approved, rejected, dropped, untold>>
    BY <1>2 DEF vars
  <2>2. NoVerdictKeptBack' /\ EvidenceCounts' /\ NoChangeKeptBack'
    BY <2>1 DEF KeptInv, NoVerdictKeptBack, EvidenceCounts, NoChangeKeptBack, Promoting, Decided, Settled
  <2>3. TierSeenInv' /\ DroppedInv'
    BY <2>1 DEF KeptInv, TierSeenInv, DroppedInv, Decided, Settled
  <2>. QED
    BY <2>2, <2>3 DEF KeptInv
<1>. QED
  BY <1>1, <1>2, AwaitReviewKept, ArriveKept, AbortKept DEF Next

LEMMA NothingKeptBack == Spec => []KeptInv
BY Inductive, KeptInit, KeptStep, PTL DEF Spec

-----------------------------------------------------------------------------
(* What the invariant gives.                                               *)

\* A national ID vouches for one artefact, whatever passed the checks together.
THEOREM OneClaimPerId == Spec => []NationalIdUnique
<1>1. IInv => NationalIdUnique
  BY DEF IInv
<1>. QED
  BY <1>1, Inductive, PTL

\* At most one verdict is announced, and it is the recorded one.
THEOREM OneVerdict == Spec => []VerdictsMatchRecords
<1>1. IInv /\ KeptInv => VerdictsMatchRecords
  BY DEF IInv, KeptInv, VerdictsMatchRecords
<1>. QED
  BY <1>1, Inductive, NothingKeptBack, PTL

\* Promotions rest on verified tier-1 evidence.
THEOREM PromotionsRestOnEvidence == Spec => []PromotionsFollowEvidence
<1>1. IInv /\ KeptInv => PromotionsFollowEvidence
  BY DEF IInv, KeptInv, PromotionsFollowEvidence
<1>. QED
  BY <1>1, Inductive, NothingKeptBack, PTL

\* tier, tier_history and TIER_CHANGED tell one story.
THEOREM HistoryIsTheTier == Spec => []HistoryExplains
<1>1. IInv /\ KeptInv => HistoryExplains
  BY DEF IInv, KeptInv, HistoryExplains
<1>. QED
  BY <1>1, Inductive, NothingKeptBack, PTL

\* Only an absent or pending row is ever written.
LEMMA VerdictKept ==
    IInv /\ [Next]_vars =>
        \A k \in Artefacts : record[k].status \in {"verified", "failed"} => record'[k] = record[k]
<1>. SUFFICES ASSUME IInv, [Next]_vars, NEW l \in Artefacts, record[l].status \in {"verified", "failed"},
                     record' # record
              PROVE  record'[l] = record[l]
  OBVIOUS
<1>1. ASSUME NEW k \in Artefacts, NEW row, record[k].status \in {"absent", "pending"},
             record' = [record EXCEPT ![k] = row]
      PROVE  record'[l] = record[l]
  BY <1>1 DEF IInv, TypeOK, RecordOK
<1>2. ASSUME NEW k \in Artefacts, NEW a \in Accounts, NEW t \in {"tier_1", "tier_2"}, AwaitReview(k, a, t)
      PROVE  record'[l] = record[l]
  BY <1>1, <1>2 DEF AwaitReview, Unused
<1>3. ASSUME NEW r \in Requests, Continue(r) PROVE record'[l] = record[l]
  <2>1. ASSUME NEW k \in Artefacts, InsertFailed(r, k) \/ InsertVerified(r, k) PROVE record'[l] = record[l]
    BY <1>1, <2>1 DEF InsertFailed, InsertVerified, Unused
  <2>2. CASE MarkVerified(r) \/ MarkFailed(r)
    <3>1. request[r].art \in Artefacts
      BY <2>2, InFlight DEF MarkVerified, MarkFailed, IInv
    <3>. QED
      BY <1>1, <2>2, <3>1 DEF MarkVerified, MarkFailed
  <2>. QED
    BY <1>3, <2>1, <2>2 DEF Continue, CheckExisting, CheckClaim, Lookup, RereadAccount, PublishRejected,
                            PublishApproved, LockTier, ReadTier, CommitTier, PublishTierChanged
<1>. QED
  BY <1>2, <1>3 DEF Next, Arrive, SubmitIprs, Review, OverrideTier, Abort, vars

\* No later step revises a verdict.
THEOREM VerdictNeverRevised == Spec => VerdictIsFinal
BY VerdictKept, Inductive, PTL DEF Spec, VerdictIsFinal

\* Only the INSERT of a verified lookup identifies an account.
LEMMA IdentifiedStep ==
    IInv /\ KeptInv /\ [Next]_vars =>
        [\E a \in Accounts \ Identified : Identified' = Identified \cup {a}]_Identified
<1>. SUFFICES ASSUME IInv, KeptInv, [Next]_vars, Identified' # Identified
              PROVE  \E a \in Accounts \ Identified : Identified' = Identified \cup {a}
  OBVIOUS
<1>1. ASSUME NEW k \in Artefacts, OnlyRow(k),
             ~(Verified(k)' /\ record'[k].kind = "iprs_lookup") /\ ~Verified(k)
      PROVE  Identified' = Identified
  BY <1>1 DEF OnlyRow, Identified, HasVerifiedIprs
<1>2. ASSUME NEW r \in Requests, NEW k \in Artefacts, InsertVerified(r, k)
      PROVE  \E a \in Accounts \ Identified : Identified' = Identified \cup {a}
  <2>1. record' # record
    BY DEF Identified, HasVerifiedIprs
  <2>2. /\ ~Verified(k) /\ OnlyRow(k) /\ Verified(k)' /\ record'[k].kind = "iprs_lookup"
        /\ record'[k].acct = request[r].acct /\ request[r].acct \in Accounts
    BY <1>2, <2>1, InFlight DEF InsertVerified, Unused, IprsRecord, OnlyRow, IInv, TypeOK, RecordOK
  <2>3. PICK a \in Accounts : a = record'[k].acct
    BY <2>2
  <2>4. \A b \in Accounts : HasVerifiedIprs(b)' <=> HasVerifiedIprs(b) \/ b = a
    BY <2>2, <2>3 DEF OnlyRow, HasVerifiedIprs
  <2>5. Identified' = Identified \cup {a}
    BY <2>4 DEF Identified
  <2>. QED
    BY <2>5
<1>3. ASSUME NEW r \in Requests, Continue(r)
      PROVE  \E a \in Accounts \ Identified : Identified' = Identified \cup {a}
  <2>0. record' # record
    BY DEF Identified, HasVerifiedIprs
  <2>1. ASSUME NEW k \in Artefacts, InsertFailed(r, k) PROVE FALSE
    <3>1. ~Verified(k) /\ OnlyRow(k) /\ ~Verified(k)'
      BY <2>1 DEF InsertFailed, Unused, IprsRecord, OnlyRow, IInv, TypeOK, RecordOK
    <3>. QED
      BY <1>1, <3>1
  <2>2. CASE MarkVerified(r) \/ MarkFailed(r)
    <3>1. PICK k \in Artefacts : k = request[r].art
      BY <2>2, InFlight DEF MarkVerified, MarkFailed, IInv
    <3>2. record[k].status = "pending" /\ record[k].kind = "document" /\ record[k] \in Record
      BY <2>0, <2>2, <3>1 DEF MarkVerified, MarkFailed, KeptInv, DroppedInv, IInv, TypeOK, RecordOK
    <3>3. /\ OnlyRow(k) /\ ~Verified(k) /\ record'[k].kind = "document"
      BY <2>0, <2>2, <3>1, <3>2 DEF MarkVerified, MarkFailed, OnlyRow, IInv, TypeOK, RecordOK, Record
    <3>. QED
      BY <1>1, <3>3
  <2>. QED
    BY <1>2, <1>3, <2>0, <2>1, <2>2 DEF Continue, CheckExisting, CheckClaim, Lookup, RereadAccount,
       PublishRejected, PublishApproved, LockTier, ReadTier, CommitTier, PublishTierChanged
<1>4. ASSUME NEW k \in Artefacts, NEW a \in Accounts, NEW t \in {"tier_1", "tier_2"}, AwaitReview(k, a, t)
      PROVE  FALSE
  <2>1. ~Verified(k) /\ OnlyRow(k) /\ ~Verified(k)'
    BY <1>4 DEF AwaitReview, Unused, OnlyRow, IInv, TypeOK, RecordOK
  <2>. QED
    BY <1>1, <2>1
<1>5. record' # record
  BY DEF Identified, HasVerifiedIprs
<1>. QED
  BY <1>3, <1>4, <1>5 DEF Next, Arrive, SubmitIprs, Review, OverrideTier, Abort, vars

\* Accounts are identified singly, and for good.
THEOREM IdentifiedForGood == Spec => IdentifiedOneByOne
BY IdentifiedStep, Inductive, NothingKeptBack, PTL DEF Spec, IdentifiedOneByOne

-----------------------------------------------------------------------------
(* KycTier implements AssuranceRegister: the INSERT of a verified lookup   *)
(* identifies, markVerified accepts, and COMMIT promotes or overrides.     *)

LEMMA RegisterInit == Init => Register!Init
<1>. SUFFICES ASSUME Init PROVE Register!Init
  OBVIOUS
<1>1. Claims = {} /\ Backed = {}
  BY DEF Init, Claims, Backed, NoRecord
<1>2. Assigned(<<FirstAssignment>>) = <<[tier |-> "tier_0", why |-> "default"]>>
  BY DEF Assigned, FirstAssignment
<1>3. \A a \in Accounts : history[a] = <<FirstAssignment>>
  BY DEF Init
<1>4. [a \in Accounts |-> Assigned(history[a])]
         = [a \in Accounts |-> <<[tier |-> "tier_0", why |-> "default"]>>]
  BY <1>2, <1>3, Zenon
<1>. QED
  BY <1>1, <1>4 DEF Register!Init

\* What a row that turns verified adds; one that does not adds nothing.
LEMMA Added ==
    ASSUME NEW k \in Artefacts, ~Verified(k), OnlyRow(k)
    PROVE  /\ ~Verified(k)' => Claims' = Claims /\ Backed' = Backed
           /\ Verified(k)' /\ record'[k].nid = NoId => Claims' = Claims
           /\ Verified(k)' /\ record'[k].nid # NoId =>
                 Claims' = Claims \cup {<<record'[k].acct, record'[k].nid>>}
           /\ Verified(k)' /\ record'[k].tier = "tier_1" => Backed' = Backed \cup {record'[k].acct}
           /\ Verified(k)' /\ record'[k].tier # "tier_1" => Backed' = Backed
<1>1. \A l \in Artefacts : l # k => record'[l] = record[l]
  BY DEF OnlyRow
<1>2. \A x : x \in Backed' <=> \E l \in Artefacts : Verified(l)' /\ record'[l].tier = "tier_1" /\ x = record'[l].acct
  BY DEF Backed
<1>3. \A x : x \in Backed <=> \E l \in Artefacts : Verified(l) /\ record[l].tier = "tier_1" /\ x = record[l].acct
  BY DEF Backed
<1>4. \A x : x \in Claims' <=> \E l \in Artefacts :
                 Verified(l)' /\ record'[l].nid # NoId /\ x = <<record'[l].acct, record'[l].nid>>
  BY DEF Claims
<1>5. \A x : x \in Claims <=> \E l \in Artefacts :
                 Verified(l) /\ record[l].nid # NoId /\ x = <<record[l].acct, record[l].nid>>
  BY DEF Claims
<1>6. ~Verified(k)' \/ record'[k].tier # "tier_1" => \A x : x \in Backed' <=> x \in Backed
  BY <1>1, <1>2, <1>3
<1>7. Verified(k)' /\ record'[k].tier = "tier_1" =>
         \A x : x \in Backed' <=> x \in Backed \/ x = record'[k].acct
  BY <1>1, <1>2, <1>3
<1>8. ~Verified(k)' \/ record'[k].nid = NoId => \A x : x \in Claims' <=> x \in Claims
  BY <1>1, <1>4, <1>5
<1>9. Verified(k)' /\ record'[k].nid # NoId =>
         \A x : x \in Claims' <=> x \in Claims \/ x = <<record'[k].acct, record'[k].nid>>
  BY <1>1, <1>4, <1>5
<1>. QED
  BY <1>6, <1>7, <1>8, <1>9

\* One more row of tier_history is one more assignment.
LEMMA AssignedMore ==
    ASSUME NEW h \in Seq(Assignment), NEW rows \in Seq(Assignment), Len(rows) = Len(h) + 1,
           \A i \in 1 .. Len(h) : rows[i].tier = h[i].tier /\ rows[i].why = h[i].why
    PROVE  Assigned(rows) = Append(Assigned(h), [tier |-> rows[Len(rows)].tier, why |-> rows[Len(rows)].why])
<1>. DEFINE to == rows[Len(rows)].tier
            why == rows[Len(rows)].why
<1>. DEFINE old == Assigned(h)
            new == Assigned(rows)
            e == [tier |-> to, why |-> why]
            S == {[tier |-> h[i].tier, why |-> h[i].why] : i \in 1 .. Len(h)} \cup {e}
<1>0. Len(h) \in Nat /\ DOMAIN h = 1 .. Len(h) /\ DOMAIN rows = 1 .. Len(h) + 1
  OBVIOUS
<1>1. old = [i \in 1 .. Len(h) |-> [tier |-> h[i].tier, why |-> h[i].why]]
  BY <1>0, Zenon DEF Assigned
<1>2. new = [i \in 1 .. Len(h) + 1 |-> [tier |-> rows[i].tier, why |-> rows[i].why]]
  BY <1>0, Zenon DEF Assigned
<1>3. \A i \in 1 .. Len(h) + 1 : i \in 1 .. Len(h) \/ i = Len(h) + 1
  BY <1>0
<1>. HIDE DEF old, new
<1>4. new = [i \in 1 .. Len(h) + 1 |-> IF i \in 1 .. Len(h) THEN old[i] ELSE e]
  BY <1>0, <1>1, <1>2, <1>3
<1>5. old \in [1 .. Len(h) -> S]
  BY <1>0, <1>1
<1>. HIDE DEF S
<1>6. old \in Seq(S) /\ Len(old) = Len(h)
  BY <1>0, <1>5
<1>7. Append(old, e) = [i \in 1 .. Len(h) + 1 |-> IF i \in 1 .. Len(h) THEN old[i] ELSE e]
  BY <1>0, <1>6
<1>. QED
  BY <1>4, <1>7 DEF old, new

LEMMA RegisterStep == IInv /\ [Next]_vars => [Register!Next]_Register!registerVars
<1>. SUFFICES ASSUME IInv, [Next]_vars
              PROVE  Register!Next \/ UNCHANGED Register!registerVars
  OBVIOUS
<1>0. TypeOK
  BY DEF IInv
<1>1. ASSUME UNCHANGED history, UNCHANGED <<Claims, Backed>> PROVE UNCHANGED Register!registerVars
  BY <1>1 DEF Register!registerVars
<1>2. ASSUME UNCHANGED <<record, history>> PROVE UNCHANGED Register!registerVars
  BY <1>1, <1>2 DEF Claims, Backed
<1>3. ASSUME NEW k \in Artefacts, ~Verified(k), OnlyRow(k), UNCHANGED history, ~Verified(k)'
      PROVE  UNCHANGED Register!registerVars
  BY <1>1, <1>3, Added
<1>4. ASSUME NEW k \in Artefacts, NEW a \in Accounts, NEW t \in {"tier_1", "tier_2"}, AwaitReview(k, a, t)
      PROVE  UNCHANGED Register!registerVars
  <2>1. UNCHANGED history /\ ~Verified(k) /\ OnlyRow(k) /\ ~Verified(k)'
    BY <1>0, <1>4 DEF AwaitReview, Unused, TypeOK, RecordOK, OnlyRow
  <2>. QED
    BY <1>3, <2>1
<1>5. ASSUME NEW r \in Requests, Continue(r) PROVE Register!Next \/ UNCHANGED Register!registerVars
  <2>. DEFINE q == request[r]
              a == q.acct
  <2>1. ASSUME NEW k \in Artefacts, InsertFailed(r, k) PROVE UNCHANGED Register!registerVars
    <3>1. UNCHANGED history /\ ~Verified(k) /\ OnlyRow(k) /\ ~Verified(k)'
      BY <1>0, <2>1 DEF InsertFailed, Unused, IprsRecord, TypeOK, RecordOK, OnlyRow
    <3>. QED
      BY <1>3, <3>1
  <2>2. ASSUME NEW k \in Artefacts, InsertVerified(r, k)
        PROVE  Register!Next \/ UNCHANGED Register!registerVars
    <3>1. CASE UNCHANGED record
      BY <1>2, <2>2, <3>1 DEF InsertVerified
    <3>2. CASE record' # record
      <4>1. /\ ~Verified(k) /\ OnlyRow(k) /\ UNCHANGED history /\ ~Claimed(q.nid)
            /\ Verified(k)' /\ record'[k].acct = a /\ record'[k].nid = q.nid
            /\ record'[k].tier = "tier_1"
        BY <1>0, <2>2, <3>2 DEF InsertVerified, Unused, IprsRecord, TypeOK, RecordOK, OnlyRow
      <4>2. a \in Accounts /\ q.nid \in NationalIds /\ q.nid # NoId
        BY <1>0, <2>2, InFlight, KycTierAssumption DEF InsertVerified
      <4>3. Claims' = Claims \cup {<<a, q.nid>>} /\ Backed' = Backed \cup {a}
        BY <4>1, <4>2, Added
      <4>4. Register!Unclaimed(q.nid)
        BY <4>1 DEF Register!Unclaimed, Claims, Claimed
      <4>5. Register!Identify(a, q.nid)
        BY <4>1, <4>3, <4>4 DEF Register!Identify
      <4>. QED
        BY <4>2, <4>5 DEF Register!Next
    <3>. QED
      BY <3>1, <3>2
  <2>3. ASSUME NEW k \in Artefacts, k = q.art, MarkVerified(r)
        PROVE  Register!Next \/ UNCHANGED Register!registerVars
    <3>1. CASE UNCHANGED record
      BY <1>2, <2>3, <3>1 DEF MarkVerified
    <3>2. CASE record' # record
      <4>1. record[k] \in Record /\ record[k].status = "pending"
        BY <1>0, <2>3, <3>2 DEF MarkVerified, TypeOK, RecordOK
      <4>2. record[k].nid = NoId /\ record[k].acct \in Accounts
        BY <1>0, <4>1 DEF IInv, RecordInv, TypeOK, RecordOK
      <4>3. record' = [record EXCEPT ![k] = [record[k] EXCEPT !.status = "verified"]] /\ UNCHANGED history
        BY <2>3, <3>2 DEF MarkVerified
      <4>4. /\ ~Verified(k) /\ OnlyRow(k) /\ Verified(k)' /\ record'[k].acct = record[k].acct
            /\ record'[k].nid = NoId /\ record'[k].tier = record[k].tier
        BY <1>0, <4>1, <4>2, <4>3 DEF TypeOK, RecordOK, Record, OnlyRow
      <4>5. CASE record[k].tier = "tier_1"
        <5>1. Claims' = Claims /\ Backed' = Backed \cup {record[k].acct}
          BY <4>1, <4>4, <4>5, Added
        <5>2. Register!Accept(record[k].acct)
          BY <4>3, <5>1 DEF Register!Accept
        <5>. QED
          BY <4>2, <5>2 DEF Register!Next
      <4>6. CASE record[k].tier # "tier_1"
        BY <1>1, <4>1, <4>3, <4>4, <4>6, Added
      <4>. QED
        BY <4>5, <4>6
    <3>. QED
      BY <3>1, <3>2
  <2>4. ASSUME NEW k \in Artefacts, k = q.art, MarkFailed(r)
        PROVE  Register!Next \/ UNCHANGED Register!registerVars
    <3>1. CASE UNCHANGED record
      BY <1>2, <2>4, <3>1 DEF MarkFailed
    <3>2. CASE record' # record
      <4>1. record[k] \in Record /\ record[k].status = "pending"
        BY <1>0, <2>4, <3>2 DEF MarkFailed, TypeOK, RecordOK
      <4>2. record' = [record EXCEPT ![k] = [record[k] EXCEPT !.status = "failed"]] /\ UNCHANGED history
        BY <2>4, <3>2 DEF MarkFailed
      <4>3. ~Verified(k) /\ OnlyRow(k) /\ ~Verified(k)'
        BY <1>0, <4>1, <4>2 DEF TypeOK, RecordOK, Record, OnlyRow
      <4>. QED
        BY <1>3, <4>1, <4>2, <4>3
    <3>. QED
      BY <3>1, <3>2
  <2>5. CASE CommitTier(r)
    <3>1. PICK rows \in Seq(Assignment) :
              /\ Len(rows) = Len(history[a]) + 1
              /\ rows[Len(rows)] = [tier |-> q.to, why |-> Why(r), open |-> TRUE]
              /\ \A i \in 1 .. Len(history[a]) : /\ rows[i].tier = history[a][i].tier
                                                 /\ rows[i].why = history[a][i].why
              /\ history' = [history EXCEPT ![a] = rows]
              /\ UNCHANGED record
      BY <1>0, <2>5, CommitFacts
    <3>2. a \in Accounts /\ q.to \in Tiers /\ history[a] \in Seq(Assignment) /\ At(r, "commit")
      BY <1>0, <2>5, InFlight DEF CommitTier
    <3>3. rows[Len(rows)].tier = q.to /\ rows[Len(rows)].why = Why(r)
      BY <3>1
    <3>4. Assigned(rows) = Append(Assigned(history[a]), [tier |-> q.to, why |-> Why(r)])
      BY <3>1, <3>2, <3>3, AssignedMore
    <3>. DEFINE given == [b \in Accounts |-> Assigned(history[b])]
    <3>5. given' = [given EXCEPT ![a] = Append(@, [tier |-> q.to, why |-> Why(r)])]
      <4>1. \A b \in Accounts : history'[b] = IF b = a THEN rows ELSE history[b]
        BY <1>0, <3>1 DEF TypeOK
      <4>2. \A b \in Accounts : Assigned(history'[b]) = IF b = a THEN Assigned(rows) ELSE Assigned(history[b])
        BY <4>1, Zenon
      <4>3. given' = [b \in Accounts |-> Assigned(history'[b])]
        BY DEF Assigned
      <4>. QED
        BY <3>2, <3>4, <4>2, <4>3
    <3>6. Register!Assign(a, q.to, Why(r))
      BY <3>5 DEF Register!Assign
    <3>7. Claims' = Claims /\ Backed' = Backed
      BY <3>1 DEF Claims, Backed
    <3>8. CASE Why(r) = "override"
      BY <3>2, <3>6, <3>7, <3>8 DEF Register!Override, Register!Next
    <3>9. CASE Why(r) # "override"
      <4>1. q.art # NoArtefact /\ Why(r) = "promotion"
        BY <3>9 DEF Why
      <4>2. /\ q.art \in Artefacts /\ Verified(q.art) /\ record[q.art].acct = a
            /\ record[q.art].tier = "tier_1" /\ q.to = "tier_1"
        BY <1>0, <3>2, <4>1, InFlight DEF IInv, DecidedInv, HandlerInv, Decided
      <4>3. a \in Backed
        BY <4>2 DEF Backed
      <4>4. Register!Promote(a)
        BY <3>6, <3>7, <4>1, <4>2, <4>3 DEF Register!Promote
      <4>. QED
        BY <3>2, <4>4 DEF Register!Next
    <3>. QED
      BY <3>8, <3>9
  <2>6. MarkVerified(r) \/ MarkFailed(r) => q.art \in Artefacts
    BY <1>0, InFlight DEF MarkVerified, MarkFailed
  <2>. QED
    BY <1>2, <1>5, <2>1, <2>2, <2>3, <2>4, <2>5, <2>6
       DEF Continue, CheckExisting, CheckClaim, Lookup, RereadAccount, PublishRejected,
           PublishApproved, LockTier, ReadTier, PublishTierChanged
<1>. QED
  BY <1>2, <1>4, <1>5 DEF Next, Arrive, SubmitIprs, Review, OverrideTier, Abort, vars

\* Every behaviour of the handlers is one of the register.
THEOREM RegisterRefinement == Spec => ImplementsRegister
BY RegisterInit, RegisterStep, Inductive, PTL DEF Spec, ImplementsRegister, Register!Spec
=============================================================================
