------------------------------ MODULE Evidence ------------------------------
(***************************************************************************)
(* Rider KYC and KYB: POST /v1/kyc/rider/submit of routes/riderKyc.ts and  *)
(* POST /v1/kyb/initiate of routes/kyb.ts, over repositories/riderKyc.ts,  *)
(* repositories/kyb.ts and setRiderClass of repositories/customers.ts.     *)
(*                                                                         *)
(* Both routes settle a submission at once: the verdicts are collected, a  *)
(* row that never changes again is inserted in one transaction, with       *)
(* partial unique indexes to keep the evidence of others out, and what     *)
(* follows from it is done in statements of their own.  The rows are       *)
(* modelled by the form they are made of; their state is derived from it.  *)
(***************************************************************************)
EXTENDS Naturals, FiniteSets

CONSTANTS Accounts,
          Licences, Bikes,        \* hashes of what a rider submits
          Registrations, Pins,    \* hashes of what a business submits
          Ids,                    \* submission ids of both kinds that can be generated
          Requests,               \* handlers that can be in flight together
          NoForm, NoId

ASSUME EvidenceAssumption == NoId \notin Ids

\* insured: the form has insurance.  okRest: the M-Pesa probe, and the
\* insurance if there is any, are accepted.
RiderForm == [acct : Accounts, licence : Licences, bike : Bikes,
              okLicence : BOOLEAN, okBike : BOOLEAN, okRest : BOOLEAN, insured : BOOLEAN]

\* vetted: the directors that were found to have a verified IPRS lookup.
KybForm == [reg : Registrations, pin : Pins, directors : SUBSET Accounts \ {{}},
            vetted : SUBSET Accounts, okBrs : BOOLEAN]

ASSUME NoFormAssumption == NoForm \notin RiderForm /\ NoForm \notin KybForm

VARIABLES rider,      \* rider_kyc_submissions rows, with their artefacts
          kyb,        \* kyb_records rows, with their directors
          class,      \* platform_accounts.rider_class
          vetted,     \* accounts with a verified iprs_lookup
          request,    \* handlers in flight
          told,       \* history: events published per submission
          ended,      \* history: submissions refused, or whose handler died
          latest,     \* history: the verified rider submission of an account that was inserted last
          crossed     \* history: those inserted while an earlier one had yet to set the class

vars == <<rider, kyb, class, vetted, request, told, ended, latest, crossed>>

order == <<latest, crossed>>

RiderStages == {"insert", "class", "publish"}
KybStages   == {"directors", "announce"}

Busy(stage, id, form, left) == [stage |-> stage, id |-> id, form |-> form, left |-> left]

Idle == Busy("idle", NoId, NoForm, {})

TypeOK ==
    /\ rider \in [Ids -> RiderForm \cup {NoForm}]
    /\ kyb \in [Ids -> KybForm \cup {NoForm}]
    /\ class \in [Accounts -> {"none", "rider_tier_1", "rider_tier_2"}]
    /\ vetted \in SUBSET Accounts
    /\ told \in [Ids -> Nat]
    /\ ended \in SUBSET Ids
    /\ latest \in [Accounts -> Ids \cup {NoId}]
    /\ crossed \in SUBSET Ids
    /\ \A r \in Requests : request[r].stage \in RiderStages => request[r].form \in RiderForm
    /\ \A r \in Requests : request[r].stage \in KybStages => request[r].form \in KybForm
    /\ request \in [Requests -> [stage : {"idle"} \cup RiderStages \cup KybStages,
                                 id : Ids \cup {NoId}, form : RiderForm \cup KybForm \cup {NoForm},
                                 left : SUBSET Accounts]]
    /\ \A r \in Requests : request[r].stage # "idle" => request[r].id \in Ids

Init ==
    /\ rider = [s \in Ids |-> NoForm]
    /\ kyb = [s \in Ids |-> NoForm]
    /\ class = [a \in Accounts |-> "none"]
    /\ vetted = {}
    /\ request = [r \in Requests |-> Idle]
    /\ told = [s \in Ids |-> 0]
    /\ ended = {} /\ crossed = {}
    /\ latest = [a \in Accounts |-> NoId]

At(r, s)  == request[r].stage = s
Set(r, q) == request' = [request EXCEPT ![r] = q]
Go(r, s)  == Set(r, Busy(s, request[r].id, request[r].form, {}))
Finish(r) == Set(r, Idle)

\* generateUlid: an id that nobody has.
Fresh(s) == /\ rider[s] = NoForm /\ kyb[s] = NoForm /\ s \notin ended
            /\ \A r \in Requests : request[r].id # s

-----------------------------------------------------------------------------
(* Rider KYC.                                                              *)

Verified(f) == f.okLicence /\ f.okBike /\ f.okRest

\* rider_class of a submission.
Class(f) == IF ~Verified(f) THEN "none" ELSE IF f.insured THEN "rider_tier_2" ELSE "rider_tier_1"

\* The request, with the verdicts of the verifiers, which read nothing here.
SubmitRider(r, s, f) ==
    /\ At(r, "idle")
    /\ Fresh(s)
    /\ Set(r, Busy("insert", s, f, {}))
    /\ UNCHANGED <<rider, kyb, class, vetted, told, ended, order>>

\* Artefacts that rider_kyc_artefacts_licence_uniq and _bike_uniq collide with:
\* verified ones, whatever became of their submission.
LicenceHolders(f) == {t \in Ids : /\ f.okLicence /\ rider[t] # NoForm
                                  /\ rider[t].okLicence /\ rider[t].licence = f.licence}
BikeHolders(f)    == {t \in Ids : /\ f.okBike /\ rider[t] # NoForm
                                  /\ rider[t].okBike /\ rider[t].bike = f.bike}

Holders(f) == LicenceHolders(f) \cup BikeHolders(f)

\* s is inserted with f: the latest of its account, if it is verified.
Follow(s, f) ==
    IF ~Verified(f) THEN UNCHANGED order
    ELSE /\ latest' = [latest EXCEPT ![f.acct] = s]
         /\ crossed' = crossed \cup
                {t \in {s} : \E r \in Requests : At(r, "class") /\ request[r].form.acct = f.acct}

\* Mutant: the class is not set.
InsertRiderNoClass(r) ==
    /\ At(r, "insert")
    /\ Holders(request[r].form) = {}
    /\ rider' = [rider EXCEPT ![request[r].id] = request[r].form]
    /\ Go(r, "publish")
    /\ Follow(request[r].id, request[r].form)
    /\ UNCHANGED <<kyb, class, vetted, told, ended>>

\* Mutant: without rider_kyc_artefacts_bike_uniq.
InsertRiderSharedBike(r) ==
    /\ At(r, "insert")
    /\ LicenceHolders(request[r].form) = {}
    /\ rider' = [rider EXCEPT ![request[r].id] = request[r].form]
    /\ Go(r, IF Verified(request[r].form) THEN "class" ELSE "publish")
    /\ Follow(request[r].id, request[r].form)
    /\ UNCHANGED <<kyb, class, vetted, told, ended>>

\* riderKycRepo.create: the submission and its artefacts in one transaction.
InsertRider(r) ==
    /\ At(r, "insert")
    /\ Holders(request[r].form) = {}
    /\ rider' = [rider EXCEPT ![request[r].id] = request[r].form]
    /\ Go(r, IF Verified(request[r].form) THEN "class" ELSE "publish")
    /\ Follow(request[r].id, request[r].form)
    /\ UNCHANGED <<kyb, class, vetted, told, ended>>

\* Mutant: the route goes on after the collision.
RefuseRiderGoesOn(r) ==
    /\ At(r, "insert")
    /\ Holders(request[r].form) # {}
    /\ Go(r, "publish")
    /\ UNCHANGED <<rider, kyb, class, vetted, told, ended, order>>

\* cross_account_collision: the transaction is rolled back, 409.
RefuseRider(r) ==
    /\ At(r, "insert")
    /\ Holders(request[r].form) # {}
    /\ ended' = ended \cup {request[r].id}
    /\ Finish(r)
    /\ UNCHANGED <<rider, kyb, class, vetted, told, order>>

\* Mutant: an account that has a class keeps it.
SetRiderClassOnce(r) ==
    /\ At(r, "class")
    /\ class' = IF class[request[r].form.acct] = "none"
                THEN [class EXCEPT ![request[r].form.acct] = Class(request[r].form)] ELSE class
    /\ Go(r, "publish")
    /\ UNCHANGED <<rider, kyb, vetted, told, ended, order>>

\* setRiderClass, outside of the transaction and whatever the class is.
SetRiderClass(r) ==
    /\ At(r, "class")
    /\ class' = [class EXCEPT ![request[r].form.acct] = Class(request[r].form)]
    /\ Go(r, "publish")
    /\ UNCHANGED <<rider, kyb, vetted, told, ended, order>>

\* rider.kyc_verified or rider.kyc_rejected, the audit row, 201.
PublishRider(r) ==
    /\ At(r, "publish")
    /\ told' = [told EXCEPT ![request[r].id] = @ + 1]
    /\ Finish(r)
    /\ UNCHANGED <<rider, kyb, class, vetted, ended, order>>

-----------------------------------------------------------------------------
(* KYB.                                                                    *)

\* The state of a record.
KybState(f) == IF ~f.okBrs THEN "rejected"
               ELSE IF f.directors \subseteq f.vetted THEN "verified" ELSE "pending_info"

InitiateKyb(r, s, f) ==
    /\ At(r, "idle")
    /\ Fresh(s)
    /\ f.vetted = {}
    /\ Set(r, Busy("directors", s, f, f.directors))
    /\ UNCHANGED <<rider, kyb, class, vetted, told, ended, order>>

\* An IPRS lookup of a director is verified (module KycTier); it stays so.
Vet(a) == a \notin vetted /\ vetted' = vetted \cup {a} /\ UNCHANGED <<rider, kyb, class, request, told, ended, order>>

\* kycRecordsRepo.listByAccount of one director; Promise.all has them in any order.
ReadDirector(r, d) ==
    /\ At(r, "directors")
    /\ d \in request[r].left
    /\ Set(r, Busy("directors", request[r].id,
                   [request[r].form EXCEPT !.vetted = @ \cup ({d} \cap vetted)], request[r].left \ {d}))
    /\ UNCHANGED <<rider, kyb, class, vetted, told, ended, order>>

\* What kyb_records_biz_reg_uniq and _kra_pin_uniq collide with.
KybHolders(f) == {t \in Ids : /\ KybState(f) = "verified" /\ kyb[t] # NoForm
                              /\ KybState(kyb[t]) = "verified"
                              /\ kyb[t].reg = f.reg \/ kyb[t].pin = f.pin}

\* kybRepo.create: the record and its directors in one transaction.
InsertKyb(r) ==
    /\ At(r, "directors") /\ request[r].left = {}
    /\ KybHolders(request[r].form) = {}
    /\ kyb' = [kyb EXCEPT ![request[r].id] = request[r].form]
    /\ Go(r, "announce")
    /\ UNCHANGED <<rider, class, vetted, told, ended, order>>

\* cross_account_collision, 409.
RefuseKyb(r) ==
    /\ At(r, "directors") /\ request[r].left = {}
    /\ KybHolders(request[r].form) # {}
    /\ ended' = ended \cup {request[r].id}
    /\ Finish(r)
    /\ UNCHANGED <<rider, kyb, class, vetted, told, order>>

\* KYB_VERIFIED, KYB_REJECTED or KYB_PENDING_INFO, the audit row, 201.
PublishKyb(r) ==
    /\ At(r, "announce")
    /\ told' = [told EXCEPT ![request[r].id] = @ + 1]
    /\ Finish(r)
    /\ UNCHANGED <<rider, kyb, class, vetted, ended, order>>

-----------------------------------------------------------------------------
\* The process dies, or a statement throws: 500.
Abort(r) ==
    /\ ~At(r, "idle")
    /\ ended' = ended \cup {request[r].id}
    /\ Finish(r)
    /\ UNCHANGED <<rider, kyb, class, vetted, told, order>>

Next ==
    \/ \E a \in Accounts : Vet(a)
    \/ \E r \in Requests :
          \/ \E s \in Ids, f \in RiderForm : SubmitRider(r, s, f)
          \/ InsertRider(r) \/ RefuseRider(r) \/ SetRiderClass(r) \/ PublishRider(r)
          \/ \E s \in Ids, f \in KybForm : InitiateKyb(r, s, f)
          \/ \E d \in Accounts : ReadDirector(r, d)
          \/ InsertKyb(r) \/ RefuseKyb(r) \/ PublishKyb(r)
          \/ Abort(r)

Spec == Init /\ [][Next]_vars

-----------------------------------------------------------------------------
(* Properties.                                                             *)

\* Whatever submissions overlap: no licence and no bike is verified in two
\* submissions, no registration and no KRA PIN in two verified businesses.
EvidenceUnique ==
    \A s \in Ids :
        /\ rider[s] # NoForm => Holders(rider[s]) \subseteq {s}
        /\ kyb[s] # NoForm => KybHolders(kyb[s]) \subseteq {s}

\* A rider class is that of a verified submission of this account, and of the
\* one that was inserted last unless its handler has yet to set it, died, or met
\* an earlier one that had yet to: then either may write the class last.
ClassFollowsLatest ==
    \A a \in Accounts :
        /\ class[a] # "none" =>
              \E s \in Ids : rider[s] # NoForm /\ rider[s].acct = a /\ Class(rider[s]) = class[a]
        /\ latest[a] \notin ended \cup crossed \cup {NoId} =>
              \/ class[a] = Class(rider[latest[a]])
              \/ \E r \in Requests : At(r, "class") /\ request[r].id = latest[a]

\* A verified rider has a class, unless the handler of the submission has yet
\* to set it or died before it could: routes/riderKyc.ts accepts that much.
ClassLostOnlyByCrash ==
    \A s \in Ids : rider[s] # NoForm /\ Verified(rider[s]) /\ class[rider[s].acct] = "none" =>
        s \in ended \/ \E r \in Requests : At(r, "class") /\ request[r].id = s

\* A verified business has no director without a verified IPRS lookup, although
\* they are read one by one and before the insert.
VerifiedMeansVetted ==
    \A s \in Ids : kyb[s] # NoForm /\ KybState(kyb[s]) = "verified" => kyb[s].directors \subseteq vetted

\* Each event tells of a row that was inserted, once; and each row is told of,
\* unless its handler has yet to do so or died.
EventsTellRows ==
    \A s \in Ids :
        /\ told[s] <= 1
        /\ told[s] = 1 => rider[s] # NoForm \/ kyb[s] # NoForm
        /\ (rider[s] # NoForm \/ kyb[s] # NoForm) /\ told[s] = 0 =>
              s \in ended \/ \E r \in Requests : request[r].id = s

=============================================================================
