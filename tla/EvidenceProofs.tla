--------------------------- MODULE EvidenceProofs ---------------------------
(***************************************************************************)
(* Theorems about Evidence, for any accounts, evidence and handlers.       *)
(* What carries them is that a submission id belongs to one handler until  *)
(* that handler is done: nobody else inserts, announces or ends it.        *)
(***************************************************************************)
EXTENDS Evidence, TLAPS

Absent(s) == rider[s] = NoForm /\ kyb[s] = NoForm

\* What a handler at each stage has done so far.
RequestOK(r) ==
    LET q == request[r] IN
    /\ q.stage = "idle" => q.id = NoId
    /\ q.stage # "idle" => told[q.id] = 0
    /\ q.stage \in {"insert", "directors"} => Absent(q.id)
    /\ q.stage \in {"class", "publish"} => rider[q.id] = q.form
    /\ q.stage = "class" => Verified(q.form)
    /\ q.stage = "directors" => q.form.vetted \subseteq vetted
    /\ q.stage = "announce" => kyb[q.id] = q.form

OwnIds == \A q, r \in Requests : q # r /\ request[q].id = request[r].id => request[q].id = NoId

\* What was found of the directors of a business is still so.
FoundStands == \A s \in Ids : kyb[s] # NoForm => kyb[s].vetted \subseteq vetted

Handlers == (\A r \in Requests : RequestOK(r)) /\ OwnIds /\ FoundStands

ClassBacked ==
    \A a \in Accounts : class[a] # "none" =>
        \E s \in Ids : rider[s] # NoForm /\ rider[s].acct = a /\ Class(rider[s]) = class[a]

\* A handler is about to set the class of s.
Pending(s) == \E r \in Requests : At(r, "class") /\ request[r].id = s

\* Who is about to set a class has the latest submission, or the latest has met it.
LatestInv ==
    /\ \A a \in Accounts : latest[a] # NoId =>
          /\ rider[latest[a]] # NoForm /\ rider[latest[a]].acct = a
          /\ \/ latest[a] \in ended \cup crossed
             \/ class[a] = Class(rider[latest[a]])
             \/ Pending(latest[a])
    /\ \A r \in Requests : At(r, "class") =>
          /\ latest[request[r].form.acct] # NoId
          /\ latest[request[r].form.acct] \in {request[r].id} \cup crossed

IInv == /\ TypeOK /\ EvidenceUnique /\ ClassBacked /\ ClassLostOnlyByCrash /\ EventsTellRows
        /\ Handlers /\ LatestInv

USE EvidenceAssumption, NoFormAssumption DEF At, Set, Go, Finish, Busy, Idle

Handler == [stage : {"idle"} \cup RiderStages \cup KybStages, id : Ids \cup {NoId},
            form : RiderForm \cup KybForm \cup {NoForm}, left : SUBSET Accounts]

HandlerOK(q) == /\ q \in Handler
                /\ q.stage \in RiderStages => q.form \in RiderForm
                /\ q.stage \in KybStages => q.form \in KybForm
                /\ q.stage # "idle" => q.id \in Ids

\* The variables but request are typed after a step, and so is a handler's new state.
LEMMA TypeKept ==
    ASSUME TypeOK, NEW r \in Requests, NEW q, HandlerOK(q), request' = [request EXCEPT ![r] = q],
           rider' \in [Ids -> RiderForm \cup {NoForm}], kyb' \in [Ids -> KybForm \cup {NoForm}],
           class' \in [Accounts -> {"none", "rider_tier_1", "rider_tier_2"}],
           vetted' \in SUBSET Accounts, told' \in [Ids -> Nat], ended' \in SUBSET Ids,
           latest' \in [Accounts -> Ids \cup {NoId}], crossed' \in SUBSET Ids
    PROVE  TypeOK'
<1>1. request \in [Requests -> Handler] /\ request' \in [Requests -> Handler]
  BY DEF TypeOK, Handler, HandlerOK
<1>2. \A s \in Requests : request'[s] = IF s = r THEN q ELSE request[s]
  BY <1>1
<1> QED  BY <1>1, <1>2 DEF TypeOK, Handler, HandlerOK

LEMMA TypeStep == TypeOK /\ [Next]_vars => TypeOK'
<1> SUFFICES ASSUME TypeOK, [Next]_vars PROVE TypeOK'  OBVIOUS
<1>0. \A r \in Requests : HandlerOK(request[r])
  BY DEF TypeOK, HandlerOK, Handler
<1>i. HandlerOK(Idle)
  BY DEF HandlerOK, Handler, RiderStages, KybStages
<1>1. ASSUME NEW a \in Accounts, Vet(a) PROVE TypeOK'
  BY <1>1 DEF Vet, TypeOK, order
<1>2. ASSUME NEW r \in Requests, NEW s \in Ids, NEW f \in RiderForm, SubmitRider(r, s, f) PROVE TypeOK'
  <2>1. HandlerOK(Busy("insert", s, f, {}))
    BY DEF HandlerOK, Handler, RiderStages, KybStages
  <2> QED  BY <1>2, <2>1, TypeKept DEF SubmitRider, TypeOK, order
<1>3. ASSUME NEW r \in Requests, InsertRider(r) PROVE TypeOK'
  <2> DEFINE t == IF Verified(request[r].form) THEN "class" ELSE "publish"
  <2>1. HandlerOK(request[r]) /\ request[r].stage = "insert"
    BY <1>0, <1>3 DEF InsertRider
  <2>2. HandlerOK(Busy(t, request[r].id, request[r].form, {})) /\ request[r].form \in RiderForm
    BY <2>1 DEF HandlerOK, Handler, RiderStages, KybStages
  <2>3. request' = [request EXCEPT ![r] = Busy(t, request[r].id, request[r].form, {})]
    BY <1>3 DEF InsertRider
  <2> HIDE DEF t
  <2>4. latest' \in [Accounts -> Ids \cup {NoId}] /\ crossed' \in SUBSET Ids
    BY <1>3, <2>1, <2>2 DEF InsertRider, Follow, TypeOK, order, HandlerOK, RiderForm
  <2> QED  BY <1>3, <2>2, <2>3, <2>4, TypeKept DEF InsertRider, TypeOK
<1>4. ASSUME NEW r \in Requests, RefuseRider(r) \/ RefuseKyb(r) \/ Abort(r) PROVE TypeOK'
  <2>1. request[r].id \in Ids
    BY <1>0, <1>4 DEF RefuseRider, RefuseKyb, Abort, HandlerOK
  <2> QED  BY <1>4, <1>i, <2>1, TypeKept DEF RefuseRider, RefuseKyb, Abort, TypeOK, order
<1>5. ASSUME NEW r \in Requests, SetRiderClass(r) PROVE TypeOK'
  <2>1. HandlerOK(Busy("publish", request[r].id, request[r].form, {}))
    BY <1>0, <1>5 DEF SetRiderClass, HandlerOK, Handler, RiderStages, KybStages
  <2>2. class' \in [Accounts -> {"none", "rider_tier_1", "rider_tier_2"}]
    BY <1>5 DEF SetRiderClass, Class, TypeOK
  <2> QED  BY <1>5, <2>1, <2>2, TypeKept DEF SetRiderClass, TypeOK, order
<1>6. ASSUME NEW r \in Requests, PublishRider(r) \/ PublishKyb(r) PROVE TypeOK'
  <2>1. told' \in [Ids -> Nat]
    BY <1>6 DEF PublishRider, PublishKyb, TypeOK
  <2> QED  BY <1>6, <1>i, <2>1, TypeKept, ZenonT(60) DEF PublishRider, PublishKyb, TypeOK, order
<1>7. ASSUME NEW r \in Requests, NEW s \in Ids, NEW f \in KybForm, InitiateKyb(r, s, f) PROVE TypeOK'
  <2>1. HandlerOK(Busy("directors", s, f, f.directors))
    BY DEF HandlerOK, Handler, RiderStages, KybStages, KybForm
  <2> QED  BY <1>7, <2>1, TypeKept DEF InitiateKyb, TypeOK, order
<1>8. ASSUME NEW r \in Requests, NEW d \in Accounts, ReadDirector(r, d) PROVE TypeOK'
  <2> DEFINE f == [request[r].form EXCEPT !.vetted = @ \cup ({d} \cap vetted)]
             q == Busy("directors", request[r].id, f, request[r].left \ {d})
  <2>1. HandlerOK(request[r]) /\ request[r].stage = "directors"
    BY <1>0, <1>8 DEF ReadDirector
  <2>2. request[r].form \in KybForm /\ request[r].id \in Ids /\ request[r].left \in SUBSET Accounts
    BY <2>1 DEF HandlerOK, Handler, KybStages
  <2>3. f \in KybForm
    BY <2>2 DEF KybForm
  <2>4. HandlerOK(q)
    BY <2>2, <2>3 DEF HandlerOK, Handler, RiderStages, KybStages
  <2>5. request' = [request EXCEPT ![r] = q]
    BY <1>8 DEF ReadDirector
  <2> HIDE DEF q
  <2> QED  BY <1>8, <2>4, <2>5, TypeKept DEF ReadDirector, TypeOK, order
<1>9. ASSUME NEW r \in Requests, InsertKyb(r) PROVE TypeOK'
  <2>1. HandlerOK(request[r]) /\ request[r].stage = "directors"
    BY <1>0, <1>9 DEF InsertKyb
  <2>2. HandlerOK(Busy("announce", request[r].id, request[r].form, {})) /\ request[r].form \in KybForm
    BY <2>1 DEF HandlerOK, Handler, RiderStages, KybStages
  <2> QED  BY <1>9, <2>2, TypeKept DEF InsertKyb, TypeOK, order
<1>10. CASE UNCHANGED vars
  BY <1>10 DEF vars, TypeOK
<1> QED  BY <1>1, <1>2, <1>3, <1>4, <1>5, <1>6, <1>7, <1>8, <1>9, <1>10 DEF Next

-----------------------------------------------------------------------------
(* Who owns what.                                                          *)

\* A step of r alone: its id stays or is given up, and nobody else's row is touched.
OwnStep(r) ==
    /\ \A q \in Requests : q # r => request'[q] = request[q]
    /\ request'[r].id \in {request[r].id, NoId}
    /\ \A s \in Ids : s # request[r].id => rider'[s] = rider[s] /\ kyb'[s] = kyb[s] /\ told'[s] = told[s]
    /\ vetted \subseteq vetted'

LEMMA OwnStepOK ==
    ASSUME IInv, NEW r \in Requests, OwnStep(r)
    PROVE  OwnIds' /\ \A q \in Requests : q # r => RequestOK(q)'
<1>1. OwnIds'
  BY DEF IInv, Handlers, OwnIds, OwnStep
<1>2. ASSUME NEW q \in Requests, q # r PROVE RequestOK(q)'
  <2>1. request'[q] = request[q] /\ RequestOK(q)
    BY <1>2 DEF IInv, Handlers, OwnStep
  <2>2. CASE request[q].stage = "idle"
    BY <2>1, <2>2 DEF RequestOK, RiderStages, KybStages
  <2>3. CASE request[q].stage # "idle"
    <3>1. request[q].id \in Ids /\ request[q].id # request[r].id
      BY <1>2, <2>3 DEF IInv, TypeOK, Handlers, OwnIds
    <3> QED  BY <2>1, <3>1 DEF RequestOK, Absent, OwnStep
  <2> QED  BY <2>2, <2>3
<1> QED  BY <1>1, <1>2

LEMMA HandlersStep == IInv /\ TypeOK' /\ [Next]_vars => Handlers'
<1> SUFFICES ASSUME IInv, TypeOK', [Next]_vars PROVE Handlers'  OBVIOUS
<1>0. \A r \in Requests : HandlerOK(request[r]) /\ RequestOK(r)
  BY DEF IInv, TypeOK, Handlers, HandlerOK, Handler
<1>1. ASSUME NEW a \in Accounts, Vet(a) PROVE Handlers'
  BY <1>1 DEF Vet, IInv, Handlers, RequestOK, OwnIds, FoundStands, Absent
<1>2. ASSUME NEW r \in Requests, NEW s \in Ids, Fresh(s), request[r].stage = "idle",
             UNCHANGED <<rider, kyb, class, vetted, told, ended>>,
             NEW q, request' = [request EXCEPT ![r] = q], q.id = s, q.stage \in {"insert", "directors"},
             q.stage = "directors" => q.form.vetted = {}
      PROVE  Handlers'
  <2>1. \A p \in Requests : request'[p] = IF p = r THEN q ELSE request[p]
    BY <1>2 DEF IInv, TypeOK
  <2>2. Absent(s) /\ told[s] = 0
    <3>1. told[s] \in Nat
      BY DEF IInv, TypeOK
    <3>2. told[s] <= 1 /\ (told[s] = 1 => ~Absent(s))
      BY DEF IInv, EventsTellRows, Absent
    <3>3. Absent(s)
      BY <1>2 DEF Fresh, Absent
    <3> QED  BY <3>1, <3>2, <3>3
  <2>3. RequestOK(r)'
    BY <1>2, <2>1, <2>2 DEF RequestOK, Absent
  <2>4. \A p \in Requests : p # r => RequestOK(p)'
    BY <1>0, <1>2, <2>1 DEF RequestOK, Absent
  <2>5. OwnIds'
    BY <1>2, <2>1 DEF IInv, Handlers, OwnIds, Fresh
  <2> QED  BY <1>2, <2>3, <2>4, <2>5 DEF Handlers, IInv, FoundStands
<1>3. ASSUME NEW r \in Requests, InsertRider(r) PROVE Handlers'
  <2> DEFINE id == request[r].id
             f  == request[r].form
  <2>1. id \in Ids /\ f \in RiderForm /\ told[id] = 0
    BY <1>0, <1>3 DEF InsertRider, HandlerOK, RequestOK, RiderStages
  <2>2. /\ rider' = [rider EXCEPT ![id] = f]
        /\ request'[r] = Busy(IF Verified(f) THEN "class" ELSE "publish", id, f, {})
    BY <1>3 DEF InsertRider, IInv, TypeOK
  <2>3. OwnStep(r)
    BY <1>3, <2>2 DEF OwnStep, InsertRider, IInv, TypeOK
  <2>4. RequestOK(r)'
    BY <1>3, <2>1, <2>2 DEF RequestOK, InsertRider, IInv, TypeOK
  <2> QED  BY <1>3, <2>3, <2>4, OwnStepOK DEF Handlers, IInv, FoundStands, InsertRider
<1>4. ASSUME NEW r \in Requests, RefuseRider(r) \/ RefuseKyb(r) \/ Abort(r) PROVE Handlers'
  <2>1. OwnStep(r) /\ request'[r] = Idle
    BY <1>4 DEF OwnStep, RefuseRider, RefuseKyb, Abort, IInv, TypeOK
  <2>2. RequestOK(r)'
    BY <2>1 DEF RequestOK
  <2> QED  BY <1>4, <2>1, <2>2, OwnStepOK DEF Handlers, IInv, FoundStands, RefuseRider, RefuseKyb, Abort
<1>5. ASSUME NEW r \in Requests, SetRiderClass(r) PROVE Handlers'
  <2>1. OwnStep(r) /\ request'[r] = Busy("publish", request[r].id, request[r].form, {})
    BY <1>5 DEF OwnStep, SetRiderClass, IInv, TypeOK
  <2>2. RequestOK(r)'
    BY <1>0, <1>5, <2>1 DEF RequestOK, SetRiderClass
  <2> QED  BY <1>5, <2>1, <2>2, OwnStepOK DEF Handlers, IInv, FoundStands, SetRiderClass
<1>6. ASSUME NEW r \in Requests, PublishRider(r) \/ PublishKyb(r) PROVE Handlers'
  <2>1. OwnStep(r) /\ request'[r] = Idle
    BY <1>6 DEF OwnStep, PublishRider, PublishKyb, IInv, TypeOK
  <2>2. RequestOK(r)'
    BY <2>1 DEF RequestOK
  <2> QED  BY <1>6, <2>1, <2>2, OwnStepOK DEF Handlers, IInv, FoundStands, PublishRider, PublishKyb
<1>7. ASSUME NEW r \in Requests, NEW d \in Accounts, ReadDirector(r, d) PROVE Handlers'
  <2> DEFINE f == [request[r].form EXCEPT !.vetted = @ \cup ({d} \cap vetted)]
  <2>1. OwnStep(r) /\ request'[r] = Busy("directors", request[r].id, f, request[r].left \ {d})
    BY <1>7 DEF OwnStep, ReadDirector, IInv, TypeOK
  <2>2. request[r].form \in KybForm /\ request[r].form.vetted \subseteq vetted
    BY <1>0, <1>7 DEF ReadDirector, HandlerOK, RequestOK, KybStages
  <2>3. f.vetted \subseteq vetted
    BY <2>2 DEF KybForm
  <2>4. RequestOK(r)'
    BY <1>0, <1>7, <2>1, <2>3 DEF RequestOK, ReadDirector, Absent
  <2> QED  BY <1>7, <2>1, <2>4, OwnStepOK DEF Handlers, IInv, FoundStands, ReadDirector
<1>8. ASSUME NEW r \in Requests, InsertKyb(r) PROVE Handlers'
  <2> DEFINE id == request[r].id
             f  == request[r].form
  <2>1. id \in Ids /\ f \in KybForm /\ told[id] = 0 /\ f.vetted \subseteq vetted
    BY <1>0, <1>8 DEF InsertKyb, HandlerOK, RequestOK, KybStages
  <2>2. kyb' = [kyb EXCEPT ![id] = f] /\ request'[r] = Busy("announce", id, f, {})
    BY <1>8 DEF InsertKyb, IInv, TypeOK
  <2>3. OwnStep(r)
    BY <1>8, <2>2 DEF OwnStep, InsertKyb, IInv, TypeOK
  <2>4. RequestOK(r)'
    BY <1>8, <2>1, <2>2 DEF RequestOK, InsertKyb, IInv, TypeOK
  <2>5. FoundStands'
    BY <1>8, <2>1, <2>2 DEF InsertKyb, IInv, Handlers, FoundStands, TypeOK
  <2> QED  BY <2>3, <2>4, <2>5, OwnStepOK DEF Handlers
<1>9. CASE UNCHANGED vars
  BY <1>9 DEF vars, IInv, Handlers, RequestOK, OwnIds, FoundStands, Absent
<1>10. ASSUME NEW r \in Requests, NEW s \in Ids, NEW f \in RiderForm, SubmitRider(r, s, f) PROVE Handlers'
  BY <1>2, <1>10 DEF SubmitRider
<1>11. ASSUME NEW r \in Requests, NEW s \in Ids, NEW f \in KybForm, InitiateKyb(r, s, f) PROVE Handlers'
  BY <1>2, <1>11 DEF InitiateKyb
<1> QED  BY <1>1, <1>3, <1>4, <1>5, <1>6, <1>7, <1>8, <1>9, <1>10, <1>11 DEF Next

-----------------------------------------------------------------------------
(* The properties.                                                         *)

Same == UNCHANGED <<rider, kyb>>

\* The two inserts, as the properties see them.
RiderRow(r) ==
    LET q == request[r] IN
    /\ q.stage = "insert" /\ q.id \in Ids /\ q.form \in RiderForm /\ Absent(q.id)
    /\ Holders(q.form) = {}
    /\ rider' = [rider EXCEPT ![q.id] = q.form] /\ kyb' = kyb

KybRow(r) ==
    LET q == request[r] IN
    /\ q.stage = "directors" /\ q.id \in Ids /\ q.form \in KybForm /\ Absent(q.id)
    /\ KybHolders(q.form) = {}
    /\ kyb' = [kyb EXCEPT ![q.id] = q.form] /\ rider' = rider

LEMMA Rows ==
    ASSUME IInv, [Next]_vars
    PROVE  \/ Same
           \/ \E r \in Requests : InsertRider(r) /\ RiderRow(r)
           \/ \E r \in Requests : InsertKyb(r) /\ KybRow(r)
<1>0. \A r \in Requests : HandlerOK(request[r]) /\ RequestOK(r)
  BY DEF IInv, TypeOK, Handlers, HandlerOK, Handler
<1>1. ASSUME NEW r \in Requests, InsertRider(r) PROVE RiderRow(r)
  BY <1>0, <1>1 DEF InsertRider, RiderRow, HandlerOK, RequestOK, RiderStages
<1>2. ASSUME NEW r \in Requests, InsertKyb(r) PROVE KybRow(r)
  BY <1>0, <1>2 DEF InsertKyb, KybRow, HandlerOK, RequestOK, KybStages
<1>3. Same \/ (\E r \in Requests : InsertRider(r)) \/ (\E r \in Requests : InsertKyb(r))
  BY DEF Next, vars, Same, Vet, SubmitRider, RefuseRider, SetRiderClass, PublishRider,
         InitiateKyb, ReadDirector, RefuseKyb, PublishKyb, Abort
<1> QED  BY <1>1, <1>2, <1>3

LEMMA UniqueStep == IInv /\ [Next]_vars => EvidenceUnique'
<1> SUFFICES ASSUME IInv, [Next]_vars PROVE EvidenceUnique'  OBVIOUS
<1>0. EvidenceUnique /\ rider \in [Ids -> RiderForm \cup {NoForm}] /\ kyb \in [Ids -> KybForm \cup {NoForm}]
  BY DEF IInv, TypeOK
<1>1. CASE Same
  BY <1>0, <1>1 DEF Same, EvidenceUnique, Holders, LicenceHolders, BikeHolders, KybHolders
<1>2. ASSUME NEW r \in Requests, RiderRow(r) PROVE EvidenceUnique'
  <2> DEFINE id == request[r].id
             f  == request[r].form
  <2>1. \A s \in Ids : rider'[s] = (IF s = id THEN f ELSE rider[s]) /\ kyb'[s] = kyb[s]
    BY <1>0, <1>2 DEF RiderRow
  <2>2. rider[id] = NoForm /\ Holders(f) = {} /\ id \in Ids
    BY <1>2 DEF RiderRow, Absent
  <2> HIDE DEF id, f
  <2>3. ASSUME NEW s \in Ids, rider'[s] # NoForm,
               NEW t \in Ids, rider'[t] # NoForm, s # t
        PROVE  /\ ~(rider'[s].okLicence /\ rider'[t].okLicence /\ rider'[t].licence = rider'[s].licence)
               /\ ~(rider'[s].okBike /\ rider'[t].okBike /\ rider'[t].bike = rider'[s].bike)
    BY <1>0, <2>1, <2>2, <2>3 DEF EvidenceUnique, Holders, LicenceHolders, BikeHolders
  <2>4. \A s \in Ids : rider'[s] # NoForm => Holders(rider[s])' \subseteq {s}
    BY <2>3 DEF Holders, LicenceHolders, BikeHolders
  <2>5. \A s \in Ids : kyb'[s] # NoForm => KybHolders(kyb[s])' \subseteq {s}
    BY <1>0, <2>1 DEF EvidenceUnique, KybHolders, KybState
  <2> QED  BY <2>4, <2>5 DEF EvidenceUnique
<1>3. ASSUME NEW r \in Requests, KybRow(r) PROVE EvidenceUnique'
  <2> DEFINE id == request[r].id
             f  == request[r].form
  <2>1. \A s \in Ids : kyb'[s] = (IF s = id THEN f ELSE kyb[s]) /\ rider'[s] = rider[s]
    BY <1>0, <1>3 DEF KybRow
  <2>2. kyb[id] = NoForm /\ KybHolders(f) = {} /\ id \in Ids
    BY <1>3 DEF KybRow, Absent
  <2> HIDE DEF id, f
  <2>3. ASSUME NEW s \in Ids, kyb'[s] # NoForm, KybState(kyb'[s]) = "verified",
               NEW t \in Ids, kyb'[t] # NoForm, KybState(kyb'[t]) = "verified", s # t
        PROVE  kyb'[t].reg # kyb'[s].reg /\ kyb'[t].pin # kyb'[s].pin
    BY <1>0, <2>1, <2>2, <2>3 DEF EvidenceUnique, KybHolders
  <2>4. \A s \in Ids : kyb'[s] # NoForm => KybHolders(kyb[s])' \subseteq {s}
    BY <2>3 DEF KybHolders, KybState
  <2>5. \A s \in Ids : rider'[s] # NoForm => Holders(rider[s])' \subseteq {s}
    BY <1>0, <2>1 DEF EvidenceUnique, Holders, LicenceHolders, BikeHolders
  <2> QED  BY <2>4, <2>5 DEF EvidenceUnique
<1> QED  BY <1>1, <1>2, <1>3, Rows

\* A row, once there, stays as it is.
LEMMA RowsStay ==
    ASSUME IInv, [Next]_vars, NEW s \in Ids
    PROVE  /\ rider[s] # NoForm => rider'[s] = rider[s]
           /\ kyb[s] # NoForm => kyb'[s] = kyb[s]
<1>1. rider \in [Ids -> RiderForm \cup {NoForm}] /\ kyb \in [Ids -> KybForm \cup {NoForm}]
  BY DEF IInv, TypeOK
<1> QED  BY <1>1, Rows DEF Same, RiderRow, KybRow, Absent

LEMMA BackedStep == IInv /\ [Next]_vars => ClassBacked'
<1> SUFFICES ASSUME IInv, [Next]_vars, NEW a \in Accounts, class'[a] # "none"
             PROVE  \E s \in Ids : rider'[s] # NoForm /\ rider'[s].acct = a /\ Class(rider'[s]) = class'[a]
  BY DEF ClassBacked, Class, Verified
<1>1. CASE class'[a] = class[a]
  <2>1. PICK s \in Ids : rider[s] # NoForm /\ rider[s].acct = a /\ Class(rider[s]) = class[a]
    BY <1>1 DEF IInv, ClassBacked
  <2> QED  BY <1>1, <2>1, RowsStay
<1>2. ASSUME NEW r \in Requests, SetRiderClass(r), class'[a] # class[a]
      PROVE  \E s \in Ids : rider'[s] # NoForm /\ rider'[s].acct = a /\ Class(rider'[s]) = class'[a]
  <2> DEFINE id == request[r].id
             f  == request[r].form
  <2>1. id \in Ids /\ f \in RiderForm /\ rider[id] = f
    BY <1>2 DEF SetRiderClass, IInv, TypeOK, Handlers, RequestOK, RiderStages
  <2>2. class' = [class EXCEPT ![f.acct] = Class(f)] /\ rider' = rider
    BY <1>2 DEF SetRiderClass
  <2>3. f.acct = a /\ class'[a] = Class(f)
    BY <1>2, <2>2 DEF IInv, TypeOK
  <2> QED  BY <2>1, <2>2, <2>3
<1>3. class' = class \/ \E r \in Requests : SetRiderClass(r)
  BY DEF Next, vars, Vet, SubmitRider, InsertRider, RefuseRider, PublishRider,
         InitiateKyb, ReadDirector, InsertKyb, RefuseKyb, PublishKyb, Abort
<1> QED  BY <1>1, <1>2, <1>3

\* Nothing that q does in a step is about a class, unless it dies before it sets one.
Elsewhere(q) ==
    \/ request'[q] = request[q]
    \/ /\ request'[q].stage # "class"
       /\ request[q].stage = "class" => request[q].id \in ended'

LEMMA LatestStep == IInv /\ [Next]_vars => LatestInv'
<1> SUFFICES ASSUME IInv, [Next]_vars PROVE LatestInv'  OBVIOUS
<1>0. /\ request \in [Requests -> Handler] /\ class \in [Accounts -> {"none", "rider_tier_1", "rider_tier_2"}]
      /\ latest \in [Accounts -> Ids \cup {NoId}] /\ rider \in [Ids -> RiderForm \cup {NoForm}]
      /\ \A r \in Requests : HandlerOK(request[r]) /\ RequestOK(r)
      /\ LatestInv
  BY DEF IInv, TypeOK, Handler, Handlers, HandlerOK
<1>1. \A s \in Ids : rider[s] # NoForm => rider'[s] = rider[s]
  BY RowsStay
<1>2. ASSUME NEW r \in Requests, InsertRider(r) PROVE LatestInv'
  <2>p. PICK id, f : id = request[r].id /\ f = request[r].form
    OBVIOUS
  <2>1. id \in Ids /\ f \in RiderForm /\ f.acct \in Accounts /\ rider[id] = NoForm
    BY <1>0, <1>2, <2>p DEF InsertRider, HandlerOK, RequestOK, RiderStages, Absent, RiderForm
  <2>2. /\ rider' = [rider EXCEPT ![id] = f] /\ class' = class /\ ended' = ended
        /\ \A q \in Requests : q # r => request'[q] = request[q]
        /\ request'[r].id = id /\ request'[r].form = f
        /\ request'[r].stage = IF Verified(f) THEN "class" ELSE "publish"
        /\ request[r].stage = "insert" /\ crossed \subseteq crossed'
        /\ Follow(id, f)
    BY <1>0, <1>2, <2>p DEF InsertRider, Follow, order
  <2>3. \A a \in Accounts : latest[a] # NoId => latest[a] # id /\ latest[a] \in Ids
    BY <1>0, <2>1 DEF LatestInv
  <2>4. \A s \in Ids : Pending(s) => Pending(s)'
    BY <2>2 DEF Pending
  <2>5. CASE ~Verified(f)
    <3>1. latest' = latest /\ crossed' = crossed
      BY <2>2, <2>5 DEF Follow, order
    <3>2. \A q \in Requests : At(q, "class")' => request'[q] = request[q] /\ At(q, "class")
      BY <2>2, <2>5
    <3> QED  BY <1>0, <1>1, <2>2, <2>3, <2>4, <3>1, <3>2 DEF LatestInv
  <2>6. CASE Verified(f)
    <3>1. /\ latest' = [latest EXCEPT ![f.acct] = id]
          /\ \A q \in Requests : At(q, "class") /\ request[q].form.acct = f.acct => id \in crossed'
      BY <2>2, <2>6 DEF Follow
    <3>2. rider'[id] = f /\ Pending(id)'
      BY <1>0, <2>1, <2>2, <2>6 DEF Pending
    <3>3. ASSUME NEW a \in Accounts, latest'[a] # NoId
          PROVE  /\ rider'[latest'[a]] # NoForm /\ rider'[latest'[a]].acct = a
                 /\ \/ latest'[a] \in ended' \cup crossed'
                    \/ class'[a] = Class(rider'[latest'[a]])
                    \/ Pending(latest[a])'
      <4>1. CASE a = f.acct
        <5>1. latest'[a] = id
          BY <1>0, <3>1, <4>1
        <5> QED  BY <2>1, <3>2, <4>1, <5>1 DEF Pending
      <4>2. CASE a # f.acct
        <5>1. latest'[a] = latest[a]
          BY <1>0, <3>1, <4>2
        <5>2. rider'[latest[a]] = rider[latest[a]] /\ latest[a] \in Ids
          BY <2>2, <2>3, <3>3, <5>1
        <5> QED  BY <1>0, <2>2, <2>4, <3>3, <5>1, <5>2 DEF LatestInv, Pending
      <4> QED  BY <4>1, <4>2
    <3>4. ASSUME NEW q \in Requests, At(q, "class")'
          PROVE  /\ latest'[request'[q].form.acct] # NoId
                 /\ latest'[request'[q].form.acct] \in {request'[q].id} \cup crossed'
      <4>1. CASE q = r
        BY <1>0, <2>1, <2>2, <3>1, <4>1
      <4>2. CASE q # r
        <5>1. request'[q] = request[q] /\ At(q, "class")
          BY <2>2, <3>4, <4>2
        <5>2. request[q].form.acct \in Accounts
          BY <1>0, <5>1 DEF HandlerOK, RiderStages, RiderForm
        <5> QED  BY <1>0, <2>1, <2>2, <3>1, <5>1, <5>2 DEF LatestInv
      <4> QED  BY <4>1, <4>2
    <3> QED  BY <3>3, <3>4 DEF LatestInv
  <2> QED  BY <2>5, <2>6
<1>3. ASSUME NEW r \in Requests, SetRiderClass(r) PROVE LatestInv'
  <2> DEFINE id == request[r].id
             f  == request[r].form
  <2>1. id \in Ids /\ f \in RiderForm /\ f.acct \in Accounts /\ rider[id] = f
    BY <1>0, <1>3 DEF SetRiderClass, HandlerOK, RequestOK, RiderStages, RiderForm
  <2>2. /\ rider' = rider /\ ended' = ended /\ latest' = latest /\ crossed' = crossed
        /\ class' = [class EXCEPT ![f.acct] = Class(f)]
        /\ \A q \in Requests : q # r => request'[q] = request[q]
        /\ request'[r].stage = "publish" /\ request[r].stage = "class"
    BY <1>0, <1>3 DEF SetRiderClass, order
  <2>3. latest[f.acct] \in {id} \cup crossed
    BY <1>0, <2>2 DEF LatestInv
  <2>4. \A s \in Ids : Pending(s) /\ s # id => Pending(s)'
    BY <2>2 DEF Pending
  <2> HIDE DEF id, f
  <2>5. ASSUME NEW a \in Accounts, latest[a] # NoId
        PROVE  \/ latest[a] \in ended \cup crossed
               \/ class'[a] = Class(rider[latest[a]])
               \/ Pending(latest[a])'
    <3>1. CASE a = f.acct
      BY <1>0, <2>1, <2>2, <2>3, <3>1
    <3>2. CASE a # f.acct
      <4>1. class'[a] = class[a] /\ rider[latest[a]].acct = a /\ latest[a] \in Ids
        BY <1>0, <2>2, <2>5, <3>2 DEF LatestInv
      <4>2. latest[a] # id
        BY <2>1, <3>2, <4>1
      <4>3. Pending(latest[a]) => Pending(latest[a])'
        BY <2>2, <2>4, <4>1, <4>2 DEF Pending
      <4> QED  BY <1>0, <2>5, <4>1, <4>3 DEF LatestInv
    <3> QED  BY <3>1, <3>2
  <2>6. \A q \in Requests : At(q, "class")' => request'[q] = request[q] /\ At(q, "class")
    BY <2>2
  <2> QED  BY <1>0, <2>2, <2>5, <2>6 DEF LatestInv, Pending
<1>4. ASSUME rider' = rider, class' = class, order' = order, ended \subseteq ended',
             \A q \in Requests : Elsewhere(q)
      PROVE  LatestInv'
  <2>1. latest' = latest /\ crossed' = crossed
    BY <1>4 DEF order
  <2>2. \A s \in Ids : Pending(s) => Pending(s)' \/ s \in ended'
    BY <1>4 DEF Pending, Elsewhere
  <2>3. \A q \in Requests : At(q, "class")' => request'[q] = request[q] /\ At(q, "class")
    BY <1>4 DEF Elsewhere
  <2>4. \A a \in Accounts : latest[a] # NoId => latest[a] \in Ids
    BY <1>0
  <2> QED  BY <1>0, <1>4, <2>1, <2>2, <2>3, <2>4 DEF LatestInv, Pending
<1>5. ASSUME ~\E r \in Requests : InsertRider(r) \/ SetRiderClass(r)
      PROVE  /\ rider' = rider /\ class' = class /\ order' = order /\ ended \subseteq ended'
             /\ \A q \in Requests : Elsewhere(q)
  <2>1. rider' = rider /\ class' = class /\ order' = order /\ ended \subseteq ended'
    BY <1>5 DEF Next, vars, order, Vet, SubmitRider, RefuseRider, PublishRider,
           InitiateKyb, ReadDirector, InsertKyb, RefuseKyb, PublishKyb, Abort
  <2>2. ASSUME NEW q \in Requests, request'[q] # request[q]
        PROVE  Elsewhere(q)
    BY <1>0, <1>5, <2>2, SMTT(60) DEF Elsewhere, Next, vars, Vet, SubmitRider, RefuseRider, PublishRider,
           InitiateKyb, ReadDirector, InsertKyb, RefuseKyb, PublishKyb, Abort
  <2> QED  BY <2>1, <2>2 DEF Elsewhere
<1> QED  BY <1>2, <1>3, <1>4, <1>5

LEMMA LostStep == IInv /\ [Next]_vars => ClassLostOnlyByCrash'
<1> SUFFICES ASSUME IInv, [Next]_vars, NEW s \in Ids, rider'[s] # NoForm, Verified(rider'[s]),
                    class'[rider'[s].acct] = "none", s \notin ended'
             PROVE  Pending(s)'
  BY DEF ClassLostOnlyByCrash, Pending, Verified
<1>0. request \in [Requests -> Handler] /\ class \in [Accounts -> {"none", "rider_tier_1", "rider_tier_2"}]
  BY DEF IInv, TypeOK, Handler
<1>1. CASE rider[s] # NoForm /\ class'[rider[s].acct] = class[rider[s].acct]
  <2>1. rider'[s] = rider[s]
    BY <1>1, RowsStay
  <2>2. s \notin ended
    BY DEF Next, vars, Vet, SubmitRider, InsertRider, RefuseRider, SetRiderClass, PublishRider,
           InitiateKyb, ReadDirector, InsertKyb, RefuseKyb, PublishKyb, Abort
  <2>3. PICK r \in Requests : request[r].stage = "class" /\ request[r].id = s
    BY <1>1, <2>1, <2>2 DEF IInv, ClassLostOnlyByCrash
  <2>4. CASE request'[r] = request[r]
    BY <2>3, <2>4 DEF Pending
  <2>5. CASE SetRiderClass(r)
    <3>1. rider[s] = request[r].form /\ rider[s] \in RiderForm
      BY <2>3 DEF IInv, TypeOK, Handlers, RequestOK, RiderStages
    <3>2. class'[rider[s].acct] = Class(rider[s])
      BY <1>0, <2>5, <3>1 DEF SetRiderClass, RiderForm
    <3> QED  BY <2>1, <3>2 DEF Class
  <2>6. CASE Abort(r)
    BY <2>3, <2>6 DEF Abort
  <2>7. request'[r] = request[r] \/ SetRiderClass(r) \/ Abort(r)
    BY <1>0, <2>3, SMTT(60) DEF Next, vars, Vet, SubmitRider, InsertRider, RefuseRider, SetRiderClass, PublishRider,
         InitiateKyb, ReadDirector, InsertKyb, RefuseKyb, PublishKyb, Abort
  <2> QED  BY <2>4, <2>5, <2>6, <2>7
<1>2. CASE rider[s] = NoForm
  <2>1. PICK r \in Requests : InsertRider(r) /\ RiderRow(r)
    BY <1>2, Rows DEF Same, KybRow
  <2>2. s = request[r].id /\ rider'[s] = request[r].form
    BY <1>2, <2>1 DEF RiderRow, IInv, TypeOK
  <2>3. request'[r].stage = "class" /\ request'[r].id = s
    BY <1>0, <2>1, <2>2 DEF InsertRider
  <2> QED  BY <2>3 DEF Pending
<1>3. CASE rider[s] # NoForm /\ class'[rider[s].acct] # class[rider[s].acct]
  <2>1. PICK r \in Requests : SetRiderClass(r)
    BY <1>3 DEF Next, vars, Vet, SubmitRider, InsertRider, RefuseRider, PublishRider,
         InitiateKyb, ReadDirector, InsertKyb, RefuseKyb, PublishKyb, Abort
  <2>2. class' = [class EXCEPT ![request[r].form.acct] = Class(request[r].form)]
    BY <2>1 DEF SetRiderClass
  <2>3. Class(request[r].form) # "none"
    BY <2>1 DEF SetRiderClass, IInv, Handlers, RequestOK, Class
  <2>4. rider'[s] = rider[s]
    BY <1>3, RowsStay
  <2> QED  BY <1>0, <1>3, <2>2, <2>3, <2>4
<1> QED  BY <1>1, <1>2, <1>3

LEMMA ToldStep == IInv /\ TypeOK' /\ [Next]_vars => EventsTellRows'
<1> SUFFICES ASSUME IInv, TypeOK', [Next]_vars, NEW s \in Ids
             PROVE  /\ told'[s] <= 1
                    /\ told'[s] = 1 => ~Absent(s)'
                    /\ ~Absent(s)' /\ told'[s] = 0 =>
                          s \in ended' \/ \E r \in Requests : request'[r].id = s
  BY DEF EventsTellRows, Absent
<1>0. /\ request \in [Requests -> Handler] /\ told \in [Ids -> Nat]
      /\ told[s] <= 1
      /\ told[s] = 1 => ~Absent(s)
      /\ ~Absent(s) /\ told[s] = 0 => s \in ended \/ \E r \in Requests : request[r].id = s
  BY DEF IInv, TypeOK, Handler, EventsTellRows, Absent
<1>1. ASSUME NEW r \in Requests, PublishRider(r) \/ PublishKyb(r), s = request[r].id
      PROVE  told'[s] = 1 /\ ~Absent(s)'
  <2>1. RequestOK(r) /\ HandlerOK(request[r])
    BY DEF IInv, TypeOK, Handlers, HandlerOK, Handler
  <2>2. told[s] = 0 /\ ~Absent(s)
    BY <1>1, <2>1 DEF PublishRider, PublishKyb, RequestOK, HandlerOK, Absent, RiderStages, KybStages
  <2> QED  BY <1>0, <1>1, <2>2, RowsStay DEF PublishRider, PublishKyb, Absent
<1>2. told'[s] = told[s] \/ \E r \in Requests : (PublishRider(r) \/ PublishKyb(r)) /\ s = request[r].id
  BY <1>0 DEF Next, vars, Vet, SubmitRider, InsertRider, RefuseRider, SetRiderClass, PublishRider,
         InitiateKyb, ReadDirector, InsertKyb, RefuseKyb, PublishKyb, Abort
<1>3. ASSUME told'[s] = told[s], ~Absent(s)', told'[s] = 0
      PROVE  s \in ended' \/ \E r \in Requests : request'[r].id = s
  <2>1. CASE Absent(s)
    <3>1. PICK r \in Requests : \/ InsertRider(r) /\ RiderRow(r)
                                \/ InsertKyb(r) /\ KybRow(r)
      BY <1>3, <2>1, Rows DEF Same, Absent
    <3>2. s = request[r].id
      BY <1>3, <2>1, <3>1 DEF RiderRow, KybRow, Absent, IInv, TypeOK
    <3>3. request'[r].id = s
      BY <1>0, <3>1, <3>2 DEF InsertRider, InsertKyb
    <3> QED  BY <3>3
  <2>2. CASE s \in ended
    BY <2>2 DEF Next, vars, Vet, SubmitRider, InsertRider, RefuseRider, SetRiderClass, PublishRider,
           InitiateKyb, ReadDirector, InsertKyb, RefuseKyb, PublishKyb, Abort
  <2>3. ASSUME NEW r \in Requests, request[r].id = s
        PROVE  s \in ended' \/ request'[r].id = s
    <3>1. \/ request'[r].id = request[r].id
          \/ RefuseRider(r) \/ RefuseKyb(r) \/ Abort(r)
          \/ PublishRider(r) \/ PublishKyb(r)
          \/ request[r].stage = "idle"
      BY <1>0, SMTT(60) DEF Next, vars, Vet, SubmitRider, InsertRider, RefuseRider, SetRiderClass, PublishRider,
             InitiateKyb, ReadDirector, InsertKyb, RefuseKyb, PublishKyb, Abort
    <3>2. request[r].stage # "idle"
      BY <2>3 DEF IInv, Handlers, RequestOK
    <3>3. ~PublishRider(r) /\ ~PublishKyb(r)
      BY <1>1, <1>3, <2>3
    <3> QED  BY <2>3, <3>1, <3>2, <3>3 DEF RefuseRider, RefuseKyb, Abort
  <2> QED  BY <1>0, <1>3, <2>1, <2>2, <2>3
<1> QED  BY <1>0, <1>1, <1>2, <1>3, RowsStay DEF Absent

LEMMA InitInv == Init => IInv
  BY DEF Init, IInv, TypeOK, EvidenceUnique, ClassBacked, ClassLostOnlyByCrash, EventsTellRows, Handlers,
         RequestOK, OwnIds, FoundStands, Absent, RiderStages, KybStages, LatestInv

\* Every step keeps the inductive invariant.
THEOREM Inductive == Spec => []IInv
<1>1. IInv /\ [Next]_vars => IInv'
  <2>1. IInv => TypeOK
    BY DEF IInv
  <2> QED  BY <2>1, TypeStep, UniqueStep, BackedStep, LatestStep, LostStep, ToldStep, HandlersStep DEF IInv
<1> QED  BY <1>1, InitInv, PTL DEF Spec

\* Every variable keeps its type.
THEOREM TypeCorrect == Spec => []TypeOK
<1>1. IInv => TypeOK
  BY DEF IInv
<1> QED  BY <1>1, Inductive, PTL

\* No licence, bike, registration or PIN is verified twice (the partial unique indexes).
THEOREM NoSharedEvidence == Spec => []EvidenceUnique
<1>1. IInv => EvidenceUnique
  BY DEF IInv
<1> QED  BY <1>1, Inductive, PTL

\* A rider class is that of a verified submission of the account, and of the latest one
\* unless its handler has not set it or met another, however setRiderClass interleaves.
THEOREM ClassIsLatest == Spec => []ClassFollowsLatest
<1>1. IInv => ClassFollowsLatest
  BY DEF IInv, ClassBacked, LatestInv, ClassFollowsLatest, Pending
<1> QED  BY <1>1, Inductive, PTL

\* A verified rider lacks a class only before setRiderClass, or when the handler died there.
THEOREM ClassIsSet == Spec => []ClassLostOnlyByCrash
<1>1. IInv => ClassLostOnlyByCrash
  BY DEF IInv
<1> QED  BY <1>1, Inductive, PTL

\* The directors of a verified business are verified themselves, though read before the insert.
THEOREM DirectorsAreVetted == Spec => []VerifiedMeansVetted
<1>1. IInv => VerifiedMeansVetted
  BY DEF IInv, Handlers, FoundStands, VerifiedMeansVetted, KybState
<1> QED  BY <1>1, Inductive, PTL

\* Each event tells of an inserted row, once, and only a dead handler leaves a row untold.
THEOREM EventsMatchRows == Spec => []EventsTellRows
<1>1. IInv => EventsTellRows
  BY DEF IInv
<1> QED  BY <1>1, Inductive, PTL
=============================================================================
