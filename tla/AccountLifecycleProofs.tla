----------------------- MODULE AccountLifecycleProofs -----------------------
(***************************************************************************)
(* For any number of accounts, apps, numbers and concurrent requests: the  *)
(* safety invariants of AccountLifecycle, and that it implements           *)
(* AccountTrail.                                                           *)
(***************************************************************************)
EXTENDS AccountLifecycle, SequenceTheorems, TLAPS

Handler == [stage : Stages, app : Apps \cup {NoApp}, phone : Phones \cup {NoPhone},
            acct : Accounts \cup {NoAccount}, by : Kinds \cup {"create"},
            seen : Statuses \cup {"absent"}, at : Nat]

Event == [move : Move, at : Nat]

\* LogIsPath of one account, and what EventsTellLog says of its events.
PathOK(a) ==
    LET rows == log[a] IN
    /\ status[a] = IF rows = <<>> THEN "absent" ELSE rows[Len(rows)].to
    /\ \A i \in DOMAIN rows :
          /\ i = 1 => rows[i] = Creation
          /\ i > 1 => /\ rows[i].from = rows[i - 1].to
                      /\ rows[i].by \in Kinds
                      /\ rows[i].from \in From(rows[i].by)

EventsOK(a) ==
    LET told == events[a] IN
    /\ \A i \in DOMAIN told : told[i].at \in DOMAIN log[a] /\ told[i].move = log[a][told[i].at]
    /\ \A i, j \in DOMAIN told : told[i].at = told[j].at => i = j

\* The change a handler is about to announce.
ToldMove(q) ==
    IF q.stage = "welcome" THEN Creation ELSE [by |-> q.by, from |-> q.seen, to |-> To(q.by)]

Telling(r) == request[r].stage \in {"welcome", "announce"}

\* What a handler may rely on where it stands.
HandlerOK(r) ==
    LET q == request[r] IN
    /\ q.stage = "welcome" => origin[q.acct] = q.app /\ q.at = 1
    /\ q.stage \in {"change", "commit"} => status[q.acct] # "absent"
    /\ q.stage = "commit" => q.seen = status[q.acct] /\ q.seen \in From(q.by)
    /\ Telling(r) => /\ q.at \in DOMAIN log[q.acct]
                     /\ log[q.acct][q.at] = ToldMove(q)
                     /\ q.at \notin Places(events[q.acct])

\* One transaction on a row, and one handler to announce a change.
Apart(r, s) ==
    LET q == request[r]
        p == request[s]
    IN  /\ At(r, "commit") /\ At(s, "commit") => q.acct # p.acct
        /\ Telling(r) /\ Telling(s) => q.acct # p.acct \/ q.at # p.at

Rows    == \A a \in Accounts : PathOK(a) /\ EventsOK(a) /\ (status[a] = "absent" => origin[a] = NoApp)
Handlers == \A r \in Requests : HandlerOK(r) /\ \A s \in Requests : r # s => Apart(r, s)

IInv == TypeOK /\ OneAccountPerPhone /\ OwnCustomersOnly /\ Rows /\ Handlers

USE DEF At, Set

LEMMA InitInv == Init => IInv
<1> SUFFICES ASSUME Init PROVE IInv
  OBVIOUS
<1>1. TypeOK
  BY DEF Init, TypeOK, RequestOK, Idle, Busy, Stages, Statuses
<1>2. OneAccountPerPhone /\ OwnCustomersOnly
  BY DEF Init, OneAccountPerPhone, OwnCustomersOnly
<1>3. Rows
  BY DEF Init, Rows, PathOK, EventsOK
<1>4. Handlers
  BY DEF Init, Handlers, HandlerOK, Apart, Telling, Idle, Busy
<1> QED  BY <1>1, <1>2, <1>3, <1>4 DEF IInv

-----------------------------------------------------------------------------
(* Types.                                                                  *)

LEMMA BusyStep ==
    ASSUME RequestOK, NEW r \in Requests, NEW s \in Stages,
           NEW app \in Apps \cup {NoApp}, NEW p \in Phones \cup {NoPhone},
           NEW a \in Accounts \cup {NoAccount}, NEW by \in Kinds \cup {"create"},
           NEW seen \in Statuses \cup {"absent"}, NEW at \in Nat,
           s \in {"create", "match", "welcome"} => app \in Apps /\ p \in Phones,
           s \in {"welcome", "change", "commit", "announce"} => a \in Accounts,
           s \in {"change", "commit", "announce"} => by \in Kinds,
           request' = [request EXCEPT ![r] = Busy(s, app, p, a, by, seen, at)]
    PROVE  RequestOK'
BY DEF RequestOK, Busy

LEMMA FinishStep == ASSUME RequestOK, NEW r \in Requests, Finish(r) PROVE RequestOK'
BY DEF RequestOK, Finish, Idle, Busy, Stages, Statuses

\* What a handler in flight holds.
LEMMA InFlight ==
    ASSUME TypeOK, NEW r \in Requests
    PROVE  LET q == request[r] IN
           /\ q \in Handler
           /\ q.stage \in {"create", "match", "welcome"} => q.app \in Apps /\ q.phone \in Phones
           /\ q.stage \in {"welcome", "change", "commit", "announce"} =>
                 /\ q.acct \in Accounts
                 /\ log[q.acct] \in Seq(Move) /\ Len(log[q.acct]) \in Nat
                 /\ events[q.acct] \in Seq(Event) /\ Len(events[q.acct]) \in Nat
           /\ q.stage \in {"change", "commit", "announce"} => q.by \in Kinds /\ To(q.by) \in Statuses
BY LenProperties DEF TypeOK, RequestOK, Handler, Event, To, Statuses

LEMMA CreationIsMove == Creation \in Move /\ <<Creation>> \in Seq(Move)
BY DEF Creation, Move, Statuses

LEMMA TypeStep == TypeOK /\ [Next]_vars => TypeOK'
<1> SUFFICES ASSUME TypeOK, [Next]_vars PROVE TypeOK'
  OBVIOUS
<1>0. RequestOK
  BY DEF TypeOK
<1>1. ASSUME NEW r \in Requests, NEW app \in Apps, NEW p \in Phones, Register(r, app, p) PROVE TypeOK'
  <2>1. RequestOK'
    BY <1>0, <1>1, BusyStep DEF Register, Stages
  <2> QED  BY <1>1, <2>1 DEF Register, TypeOK
<1>2. ASSUME NEW r \in Requests, NEW a \in Accounts, Create(r, a) PROVE TypeOK'
  <2>1. request[r].app \in Apps /\ request[r].phone \in Phones
    BY <1>2, InFlight DEF Create
  <2>2. RequestOK'
    BY <1>0, <1>2, <2>1, BusyStep DEF Create, Stages
  <2> QED  BY <1>2, <2>1, <2>2, CreationIsMove DEF Create, TypeOK, Statuses
<1>3. ASSUME NEW r \in Requests, Collide(r) PROVE TypeOK'
  <2>1. request[r].app \in Apps /\ request[r].phone \in Phones
    BY <1>3, InFlight DEF Collide
  <2>2. RequestOK'
    BY <1>0, <1>3, <2>1, BusyStep DEF Collide, Stages
  <2> QED  BY <1>3, <2>2 DEF Collide, TypeOK
<1>4. ASSUME NEW r \in Requests, MatchExisting(r) PROVE TypeOK'
  <2>1. RequestOK'
    BY <1>0, <1>4, FinishStep DEF MatchExisting
  <2> QED  BY <1>4, <2>1 DEF MatchExisting, TypeOK
<1>5. ASSUME NEW r \in Requests, PublishCreated(r) PROVE TypeOK'
  <2> DEFINE q == request[r]
             e == [move |-> Creation, at |-> 1]
  <2>1. RequestOK'
    BY <1>0, <1>5, FinishStep DEF PublishCreated
  <2>2. q.acct \in Accounts /\ events[q.acct] \in Seq(Event) /\ e \in Event
    BY <1>5, InFlight, CreationIsMove DEF PublishCreated, Event
  <2>3. events' \in [Accounts -> Seq(Event)]
    BY <1>5, <2>2, AppendProperties DEF PublishCreated, TypeOK, Event
  <2> QED  BY <1>5, <2>1, <2>2, <2>3 DEF PublishCreated, TypeOK, Event
<1>6. ASSUME NEW r \in Requests, NEW a \in Accounts, NEW by \in Kinds, Transition(r, a, by) PROVE TypeOK'
  <2>1. RequestOK'
    BY <1>0, <1>6, BusyStep DEF Transition, Stages
  <2> QED  BY <1>6, <2>1 DEF Transition, TypeOK
<1>7. ASSUME NEW r \in Requests, LockStatus(r) PROVE TypeOK'
  <2> DEFINE q == request[r]
  <2>1. q.acct \in Accounts /\ q.by \in Kinds /\ status[q.acct] \in Statuses \cup {"absent"}
    BY <1>7, InFlight DEF LockStatus, ReadStatus, TypeOK
  <2>2. CASE status[q.acct] \in From(q.by)
    <3>1. RequestOK'
      <4>1. request' = [request EXCEPT ![r] = Busy("commit", NoApp, NoPhone, q.acct, q.by, status[q.acct], 0)]
        BY <1>7, <2>2 DEF LockStatus, ReadStatus
      <4>2. "commit" \in Stages /\ 0 \in Nat /\ NoApp \in Apps \cup {NoApp} /\ NoPhone \in Phones \cup {NoPhone}
        BY DEF Stages
      <4>3. q.acct \in Accounts \cup {NoAccount} /\ q.by \in Kinds \cup {"create"}
        BY <2>1
      <4> HIDE DEF q
      <4> QED  BY <1>0, <2>1, <4>1, <4>2, <4>3, BusyStep
    <3> QED  BY <1>7, <3>1 DEF LockStatus, ReadStatus, TypeOK
  <2>3. CASE status[q.acct] \notin From(q.by)
    <3>1. RequestOK'
      BY <1>0, <1>7, <2>3, FinishStep DEF LockStatus, ReadStatus
    <3> QED  BY <1>7, <3>1 DEF LockStatus, ReadStatus, TypeOK
  <2> QED  BY <2>2, <2>3
<1>8. ASSUME NEW r \in Requests, CommitStatus(r) PROVE TypeOK'
  <2> DEFINE q == request[r]
             move == [by |-> q.by, from |-> q.seen, to |-> To(q.by)]
  <2>1. q.acct \in Accounts /\ q.by \in Kinds /\ To(q.by) \in Statuses /\ log[q.acct] \in Seq(Move) /\ Len(log[q.acct]) \in Nat
    BY <1>8, InFlight DEF CommitStatus
  <2>2. q.seen \in Statuses \cup {"absent"}
    BY <1>8, InFlight DEF Handler
  <2>3. move \in Move
    BY <2>1, <2>2 DEF Move
  <2> HIDE DEF move
  <2>4. RequestOK'
    <3>1. request' = [request EXCEPT ![r] = Busy("announce", NoApp, NoPhone, q.acct, q.by, q.seen, Len(log[q.acct]) + 1)]
      BY <1>8 DEF CommitStatus
    <3>2. "announce" \in Stages /\ NoApp \in Apps \cup {NoApp} /\ NoPhone \in Phones \cup {NoPhone}
      BY DEF Stages
    <3>3. q.acct \in Accounts \cup {NoAccount} /\ q.by \in Kinds \cup {"create"} /\ Len(log[q.acct]) + 1 \in Nat
      BY <2>1
    <3> HIDE DEF q
    <3> QED  BY <1>0, <2>1, <2>2, <3>1, <3>2, <3>3, BusyStep
  <2>5. log' \in [Accounts -> Seq(Move)]
    BY <1>8, <2>1, <2>3, AppendProperties DEF CommitStatus, TypeOK, move
  <2> QED  BY <1>8, <2>1, <2>4, <2>5 DEF CommitStatus, TypeOK
<1>9. ASSUME NEW r \in Requests, PublishTransition(r) PROVE TypeOK'
  <2> DEFINE q == request[r]
             move == [by |-> q.by, from |-> q.seen, to |-> To(q.by)]
             e == [move |-> move, at |-> q.at]
  <2>1. q.acct \in Accounts /\ q.by \in Kinds /\ To(q.by) \in Statuses /\ events[q.acct] \in Seq(Event)
    BY <1>9, InFlight DEF PublishTransition
  <2>2. q.seen \in Statuses \cup {"absent"} /\ q.at \in Nat
    BY <1>9, InFlight DEF Handler
  <2>3. e \in Event
    BY <2>1, <2>2 DEF Move, Event
  <2>4. RequestOK'
    BY <1>0, <1>9, FinishStep DEF PublishTransition
  <2> HIDE DEF e
  <2>5. events' \in [Accounts -> Seq(Event)]
    BY <1>9, <2>1, <2>3, AppendProperties DEF PublishTransition, TypeOK, Event, e
  <2> QED  BY <1>9, <2>4, <2>5 DEF PublishTransition, TypeOK, Event
<1>10. ASSUME NEW a \in Accounts, NEW p \in Phones, MovePhone(a, p) PROVE TypeOK'
  BY <1>10 DEF MovePhone, Directory!Move, TypeOK, RequestOK
<1>11. ASSUME NEW r \in Requests, Abort(r) PROVE TypeOK'
  <2>1. RequestOK'
    BY <1>0, <1>11, FinishStep DEF Abort
  <2>2. request[r].at \in Nat
    BY InFlight DEF Handler
  <2>3. untold' \in [Accounts -> SUBSET Nat]
    BY <1>11, <2>2 DEF Abort, TypeOK
  <2> QED  BY <1>11, <2>1, <2>3 DEF Abort, TypeOK
<1>12. CASE UNCHANGED vars
  BY <1>12 DEF vars, TypeOK, RequestOK
<1> QED
  BY <1>1, <1>2, <1>3, <1>4, <1>5, <1>6, <1>7, <1>8, <1>9, <1>10, <1>11, <1>12
     DEF Next, Arrive, Continue

-----------------------------------------------------------------------------
(* Steps.                                                                  *)

LEMMA IdleFacts == Idle.stage = "idle"
BY DEF Idle, Busy

\* A handler that works on an account whose rows a step leaves alone.
LEMMA OtherOK ==
    ASSUME TypeOK, NEW s \in Requests, HandlerOK(s), request'[s] = request[s],
           request[s].acct \in Accounts =>
              /\ status'[request[s].acct] = status[request[s].acct]
              /\ origin'[request[s].acct] = origin[request[s].acct]
              /\ log'[request[s].acct] = log[request[s].acct]
              /\ events'[request[s].acct] = events[request[s].acct]
    PROVE  HandlerOK(s)'
<1>1. request[s].stage \in {"welcome", "change", "commit", "announce"} => request[s].acct \in Accounts
  BY InFlight
<1> QED  BY <1>1 DEF HandlerOK, Telling, ToldMove, Places

LEMMA PathKept ==
    ASSUME NEW a \in Accounts, status'[a] = status[a], log'[a] = log[a]
    PROVE  PathOK(a) => PathOK(a)'
BY DEF PathOK

LEMMA EventsKept ==
    ASSUME NEW a \in Accounts, events'[a] = events[a], log'[a] = log[a]
    PROVE  EventsOK(a) => EventsOK(a)'
BY DEF EventsOK

\* A step of r that writes nothing about any account.
LEMMA Quiet ==
    ASSUME IInv, TypeOK', NEW r \in Requests, UNCHANGED <<status, origin, events, log>>,
           \A s \in Requests \ {r} : request'[s] = request[s],
           HandlerOK(r)', ~Telling(r)',
           request'[r].stage = "commit" =>
              \A s \in Requests \ {r} : ~(At(s, "commit") /\ request[s].acct = request'[r].acct)
    PROVE  Rows' /\ Handlers'
<1>0. TypeOK /\ Rows /\ Handlers
  BY DEF IInv
<1>1. Rows'
  BY <1>0, PathKept, EventsKept DEF Rows
<1>2. ASSUME NEW s \in Requests PROVE HandlerOK(s)'
  <2>1. s # r => HandlerOK(s)'
    BY <1>0, OtherOK DEF Handlers
  <2> QED  BY <2>1
<1>3. ASSUME NEW s \in Requests, NEW t \in Requests, s # t PROVE Apart(s, t)'
  <2>1. CASE s # r /\ t # r
    BY <1>0, <1>3, <2>1 DEF Handlers, Apart, Telling
  <2>2. CASE s = r
    BY <1>3, <2>2 DEF Apart
  <2>3. CASE t = r
    BY <1>3, <2>3 DEF Apart
  <2> QED  BY <2>1, <2>2, <2>3
<1> QED  BY <1>1, <1>2, <1>3 DEF Handlers

\* A handler that ends.
LEMMA Ended ==
    ASSUME IInv, TypeOK', NEW r \in Requests, UNCHANGED <<status, origin, events, log>>, Finish(r)
    PROVE  Rows' /\ Handlers'
<1>1. request'[r] = Idle /\ \A s \in Requests \ {r} : request'[s] = request[s]
  BY DEF Finish, IInv, TypeOK, RequestOK
<1>2. HandlerOK(r)' /\ ~Telling(r)'
  BY <1>1, IdleFacts DEF HandlerOK, Telling
<1> QED  BY <1>1, <1>2, IdleFacts, Quiet

\* A handler that announces the change it holds, and ends.
LEMMA Publish ==
    ASSUME IInv, TypeOK', NEW r \in Requests, Telling(r), UNCHANGED <<status, origin, log>>, Finish(r),
           events' = [events EXCEPT ![request[r].acct] =
                         Append(@, [move |-> ToldMove(request[r]), at |-> request[r].at])]
    PROVE  Rows' /\ Handlers'
<1>0. TypeOK /\ Rows /\ Handlers
  BY DEF IInv
<1> DEFINE q == request[r]
           e == [move |-> ToldMove(q), at |-> q.at]
           n == Len(events[q.acct])
<1>1. /\ q.acct \in Accounts /\ events[q.acct] \in Seq(Event) /\ n \in Nat /\ DOMAIN events[q.acct] = 1 .. n
  BY <1>0, InFlight, LenProperties DEF Telling
<1>2. /\ events'[q.acct] = Append(events[q.acct], e)
      /\ \A a \in Accounts \ {q.acct} : events'[a] = events[a]
  BY <1>0, <1>1 DEF TypeOK
<1>3. e.at = q.at /\ e.move = ToldMove(q)
  OBVIOUS
<1>4. q.at \in DOMAIN log[q.acct] /\ log[q.acct][q.at] = ToldMove(q) /\ q.at \notin Places(events[q.acct])
  BY <1>0 DEF Handlers, HandlerOK
<1>5. q.at \in Nat /\ ToldMove(q) \in Move
  <2>1. q \in Handler /\ log[q.acct] \in Seq(Move)
    BY <1>0, <1>1, InFlight DEF TypeOK
  <2>2. log[q.acct][q.at] \in Move
    BY <1>4, <2>1, ElementOfSeq, LenProperties
  <2> QED  BY <1>4, <2>1, <2>2 DEF Handler
<1>6. e \in Event
  BY <1>5 DEF Event
<1> HIDE DEF e
<1>7. /\ DOMAIN events'[q.acct] = 1 .. (n + 1)
      /\ \A i \in 1 .. n : events'[q.acct][i] = events[q.acct][i]
      /\ events'[q.acct][n + 1] = e
  BY <1>1, <1>2, <1>6, AppendProperties, LenProperties
<1>8. request'[r] = Idle /\ \A s \in Requests \ {r} : request'[s] = request[s]
  BY <1>0 DEF Finish, TypeOK, RequestOK
<1>9. ASSUME NEW a \in Accounts PROVE PathOK(a)' /\ EventsOK(a)' /\ (status'[a] = "absent" => origin'[a] = NoApp)
  <2>1. PathOK(a)' /\ (status'[a] = "absent" => origin'[a] = NoApp)
    BY <1>0, PathKept DEF Rows
  <2>2. CASE a # q.acct
    BY <1>0, <1>2, <2>1, <2>2, EventsKept DEF Rows
  <2>3. CASE a = q.acct
    <3>1. \A i \in 1 .. n : events[a][i].at # q.at
      BY <1>1, <1>4, <2>3 DEF Places
    <3>2. EventsOK(a)
      BY <1>0 DEF Rows
    <3>3. \A i \in 1 .. n : events[a][i].at \in DOMAIN log[a] /\ events[a][i].move = log[a][events[a][i].at]
      BY <1>1, <2>3, <3>2 DEF EventsOK
    <3>4. \A i, j \in 1 .. n : events[a][i].at = events[a][j].at => i = j
      BY <1>1, <2>3, <3>2 DEF EventsOK
    <3>5. \A i \in 1 .. (n + 1) : i \in 1 .. n \/ i = n + 1
      BY <1>1
    <3>6. \A i \in 1 .. (n + 1) : events'[a][i].at \in DOMAIN log[a] /\ events'[a][i].move = log[a][events'[a][i].at]
      BY <1>3, <1>4, <1>7, <2>3, <3>3, <3>5, SMTT(60)
    <3>7. \A i, j \in 1 .. (n + 1) : events'[a][i].at = events'[a][j].at => i = j
      BY <1>3, <1>7, <2>3, <3>1, <3>4, <3>5, SMTT(60)
    <3>8. EventsOK(a)'
      BY <1>7, <2>3, <3>6, <3>7 DEF EventsOK
    <3> QED  BY <2>1, <3>8
  <2> QED  BY <2>2, <2>3
<1>10. Places(events'[q.acct]) = Places(events[q.acct]) \cup {q.at}
  <2>1. \A i \in 1 .. (n + 1) : i \in 1 .. n \/ i = n + 1
    BY <1>1
  <2>2. n + 1 \in 1 .. (n + 1) /\ \A i \in 1 .. n : i \in 1 .. (n + 1)
    BY <1>1
  <2> QED  BY <1>1, <1>3, <1>7, <2>1, <2>2 DEF Places
<1>11. ASSUME NEW s \in Requests PROVE HandlerOK(s)'
  <2>1. CASE s = r
    BY <1>8, <2>1, IdleFacts DEF HandlerOK, Telling
  <2>2. CASE s # r
    <3>1. request'[s] = request[s] /\ HandlerOK(s) /\ Apart(r, s)
      BY <1>0, <1>8, <2>2 DEF Handlers
    <3>2. CASE request[s].acct # q.acct
      BY <1>0, <1>2, <3>1, <3>2, OtherOK
    <3>3. CASE request[s].acct = q.acct
      BY <1>10, <3>1, <3>3 DEF HandlerOK, Telling, ToldMove, Apart
    <3> QED  BY <3>2, <3>3
  <2> QED  BY <2>1, <2>2
<1>12. ASSUME NEW s \in Requests, NEW t \in Requests, s # t PROVE Apart(s, t)'
  <2>1. CASE s # r /\ t # r
    BY <1>0, <1>8, <1>12, <2>1 DEF Handlers, Apart, Telling
  <2>2. CASE s = r \/ t = r
    BY <1>8, <2>2, IdleFacts DEF Apart, Telling
  <2> QED  BY <2>1, <2>2
<1> QED  BY <1>9, <1>11, <1>12 DEF Rows, Handlers

\* POST /v1/customers writes a new account.
LEMMA Created ==
    ASSUME IInv, TypeOK', NEW r \in Requests, NEW a \in Accounts, Create(r, a)
    PROVE  IInv'
<1>0. TypeOK /\ OneAccountPerPhone /\ OwnCustomersOnly /\ Rows /\ Handlers
  BY DEF IInv
<1> DEFINE q == request[r]
<1>1. q.app \in Apps /\ q.phone \in Phones /\ NoApp \notin Apps
  BY <1>0, InFlight, LifecycleAssumption DEF Create
<1>2. /\ status[a] = "absent" /\ status'[a] = "pending_onboarding"
      /\ origin'[a] = q.app /\ phone'[a] = q.phone /\ log'[a] = <<Creation>> /\ events' = events /\ known' = known
      /\ request'[r] = Busy("welcome", q.app, q.phone, a, "create", "absent", 1)
      /\ \A b \in Accounts \ {a} : /\ status'[b] = status[b] /\ origin'[b] = origin[b]
                                   /\ phone'[b] = phone[b] /\ log'[b] = log[b] /\ events'[b] = events[b]
      /\ \A s \in Requests \ {r} : request'[s] = request[s]
  BY <1>0 DEF Create, TypeOK, RequestOK
<1>3. log[a] = <<>> /\ origin[a] = NoApp
  <2>1. PathOK(a) /\ log[a] \in Seq(Move)
    BY <1>0 DEF Rows, TypeOK
  <2>2. ASSUME log[a] # <<>> PROVE FALSE
    <3>1. log[a][Len(log[a])] \in Move
      BY <2>1, <2>2, ElementOfSeq, LenProperties, EmptySeq
    <3> QED  BY <1>2, <2>1, <2>2, <3>1 DEF PathOK, Move, Statuses
  <2> QED  BY <1>0, <1>2, <2>2 DEF Rows
<1>4. DOMAIN log[a] = {} /\ DOMAIN events[a] = {}
  <2>1. DOMAIN log[a] = {}
    BY <1>3
  <2> QED  BY <1>0, <2>1 DEF Rows, EventsOK
<1>5. OneAccountPerPhone'
  BY <1>0, <1>2 DEF OneAccountPerPhone, Create, Taken
<1>6. OwnCustomersOnly'
  <2>1. ASSUME NEW app \in Apps, NEW b \in known[app] PROVE b \in Accounts /\ b # a /\ origin[b] = app
    BY <1>0, <1>1, <1>3, <2>1 DEF OwnCustomersOnly, TypeOK
  <2> QED  BY <1>2, <2>1 DEF OwnCustomersOnly
<1>7. ASSUME NEW b \in Accounts PROVE PathOK(b)' /\ EventsOK(b)' /\ (status'[b] = "absent" => origin'[b] = NoApp)
  <2>1. CASE b # a
    BY <1>0, <1>2, <2>1, PathKept, EventsKept DEF Rows
  <2>2. CASE b = a
    <3>1. Len(log'[a]) = 1 /\ DOMAIN log'[a] = {1} /\ log'[a][1] = Creation /\ log'[a] # <<>>
      BY <1>2
    <3>2. PathOK(b)'
      BY <1>2, <2>2, <3>1 DEF PathOK, Creation
    <3>3. EventsOK(b)'
      BY <1>2, <1>4, <2>2 DEF EventsOK
    <3> QED  BY <1>2, <2>2, <3>2, <3>3
  <2> QED  BY <2>1, <2>2
<1>8. \A s \in Requests \ {r} : request[s].stage \in {"welcome", "change", "commit", "announce"} => request[s].acct # a
  BY <1>0, <1>2, <1>4 DEF Handlers, HandlerOK, Telling
<1>9. ASSUME NEW s \in Requests PROVE HandlerOK(s)'
  <2>1. CASE s = r
    <3>1. /\ request'[r].stage = "welcome" /\ request'[r].acct = a /\ request'[r].app = q.app /\ request'[r].at = 1
      BY <1>2 DEF Busy
    <3>2. 1 \in DOMAIN log'[a] /\ log'[a][1] = Creation
      BY <1>2
    <3>3. Places(events'[a]) = {}
      BY <1>2, <1>4 DEF Places
    <3> QED  BY <1>2, <2>1, <3>1, <3>2, <3>3 DEF HandlerOK, Telling, ToldMove
  <2>2. CASE s # r
    <3>1. HandlerOK(s) /\ request'[s] = request[s]
      BY <1>0, <1>2, <2>2 DEF Handlers
    <3>2. CASE request[s].stage \in {"welcome", "change", "commit", "announce"}
      BY <1>0, <1>2, <1>8, <2>2, <3>1, <3>2, OtherOK
    <3>3. CASE request[s].stage \notin {"welcome", "change", "commit", "announce"}
      BY <3>1, <3>3 DEF HandlerOK, Telling
    <3> QED  BY <3>2, <3>3
  <2> QED  BY <2>1, <2>2
<1>10. ASSUME NEW s \in Requests, NEW t \in Requests, s # t PROVE Apart(s, t)'
  <2>1. CASE s # r /\ t # r
    BY <1>0, <1>2, <1>10, <2>1 DEF Handlers, Apart, Telling
  <2>2. request'[r].stage = "welcome" /\ request'[r].acct = a
    BY <1>2 DEF Busy
  <2>3. CASE s = r
    BY <1>2, <1>8, <1>10, <2>2, <2>3 DEF Apart, Telling
  <2>4. CASE t = r
    BY <1>2, <1>8, <1>10, <2>2, <2>4 DEF Apart, Telling
  <2> QED  BY <2>1, <2>3, <2>4
<1> QED  BY <1>5, <1>6, <1>7, <1>9, <1>10 DEF IInv, Rows, Handlers

\* A change that begins where the log of its account ends.
LEMMA Committed ==
    ASSUME IInv, TypeOK', NEW r \in Requests, NEW a \in Accounts, a = request[r].acct, CommitStatus(r)
    PROVE  Rows' /\ Handlers'
<1>0. TypeOK /\ Rows /\ Handlers
  BY DEF IInv
<1> DEFINE q == request[r]
           move == [by |-> q.by, from |-> q.seen, to |-> To(q.by)]
           n == Len(log[a])
<1>1. /\ q.acct = a /\ q.by \in Kinds /\ To(q.by) \in Statuses /\ q \in Handler
      /\ log[a] \in Seq(Move) /\ n \in Nat /\ DOMAIN log[a] = 1 .. n
  BY <1>0, InFlight, LenProperties DEF CommitStatus
<1>2. move \in Move /\ move.by = q.by /\ move.from = q.seen /\ move.to = To(q.by)
  BY <1>1 DEF Move, Handler
<1>3. /\ status'[a] = To(q.by) /\ log'[a] = Append(log[a], move) /\ events' = events /\ origin' = origin
      /\ request'[r] = Busy("announce", NoApp, NoPhone, a, q.by, q.seen, n + 1)
      /\ \A b \in Accounts \ {a} : status'[b] = status[b] /\ log'[b] = log[b]
      /\ \A s \in Requests \ {r} : request'[s] = request[s]
  BY <1>0, <1>1, ZenonT(60) DEF CommitStatus, TypeOK, RequestOK
<1>4. status[a] # "absent" /\ q.seen = status[a] /\ q.seen \in From(q.by)
  BY <1>0 DEF CommitStatus, Handlers, HandlerOK
<1>5. n > 0 /\ log[a][n].to = q.seen
  <2>1. PathOK(a)
    BY <1>0, <1>1 DEF Rows
  <2>2. log[a] # <<>>
    BY <1>4, <2>1 DEF PathOK
  <2> QED  BY <1>1, <1>4, <2>1, <2>2, EmptySeq DEF PathOK
<1>6. /\ Len(log'[a]) = n + 1 /\ DOMAIN log'[a] = 1 .. (n + 1) /\ log'[a] # <<>>
      /\ \A i \in 1 .. n : log'[a][i] = log[a][i]
      /\ log'[a][n + 1] = move
  <2> HIDE DEF move
  <2> QED  BY <1>1, <1>2, <1>3, AppendProperties, LenProperties
<1> HIDE DEF move
<1>7. PathOK(a)'
  <2>1. PathOK(a)
    BY <1>0, <1>1 DEF Rows
  <2>2. ASSUME NEW i \in 1 .. (n + 1)
        PROVE  /\ i = 1 => log'[a][i] = Creation
               /\ i > 1 => /\ log'[a][i].from = log'[a][i - 1].to
                           /\ log'[a][i].by \in Kinds
                           /\ log'[a][i].from \in From(log'[a][i].by)
    <3>1. CASE i \in 1 .. n
      <4>1. i > 1 => i - 1 \in 1 .. n
        BY <1>1, <3>1
      <4> QED  BY <1>1, <1>6, <2>1, <3>1, <4>1 DEF PathOK
    <3>2. CASE i = n + 1
      <4>1. i > 1 /\ i - 1 = n /\ n \in 1 .. n
        BY <1>1, <1>5, <3>2
      <4> QED  BY <1>1, <1>2, <1>4, <1>5, <1>6, <3>2, <4>1
    <3> QED  BY <1>1, <3>1, <3>2
  <2>3. status'[a] = log'[a][Len(log'[a])].to
    BY <1>2, <1>3, <1>6
  <2> QED  BY <1>6, <2>2, <2>3 DEF PathOK
<1>8. ASSUME NEW b \in Accounts PROVE PathOK(b)' /\ EventsOK(b)' /\ (status'[b] = "absent" => origin'[b] = NoApp)
  <2>1. CASE b # a
    BY <1>0, <1>3, <2>1, PathKept, EventsKept DEF Rows
  <2>2. CASE b = a
    <3>1. EventsOK(a) /\ \A i \in 1 .. n : i \in 1 .. (n + 1)
      BY <1>0, <1>1 DEF Rows
    <3>2. \A i \in DOMAIN events[a] : /\ events[a][i].at \in 1 .. n
                                      /\ events[a][i].move = log[a][events[a][i].at]
      BY <1>1, <3>1 DEF EventsOK
    <3>3. EventsOK(a)'
      <4>1. events'[a] = events[a] /\ DOMAIN log'[a] = 1 .. (n + 1) /\ \A i \in 1 .. n : log'[a][i] = log[a][i]
        BY <1>3, <1>6
      <4>2. \A i \in DOMAIN events'[a] : /\ events'[a][i].at \in DOMAIN log'[a]
                                         /\ events'[a][i].move = log'[a][events'[a][i].at]
        BY <3>1, <3>2, <4>1, SMTT(60)
      <4>3. \A i, j \in DOMAIN events'[a] : events'[a][i].at = events'[a][j].at => i = j
        BY <3>1, <4>1, SMTT(60) DEF EventsOK
      <4> QED  BY <4>2, <4>3 DEF EventsOK
    <3>4. status'[a] # "absent"
      BY <1>1, <1>3 DEF Statuses
    <3> QED  BY <1>7, <2>2, <3>3, <3>4
  <2> QED  BY <2>1, <2>2
<1>9. /\ request'[r].stage = "announce" /\ request'[r].acct = a /\ request'[r].by = q.by
      /\ request'[r].seen = q.seen /\ request'[r].at = n + 1
  BY <1>3 DEF Busy
<1>10. n + 1 \notin Places(events[a])
  <2>1. \A i \in DOMAIN events[a] : events[a][i].at \in 1 .. n
    BY <1>0, <1>1 DEF Rows, EventsOK
  <2> QED  BY <1>1, <2>1 DEF Places
<1>11. ASSUME NEW s \in Requests, s # r, request[s].acct = a
       PROVE  /\ ~At(s, "commit")
              /\ Telling(s) => request[s].at \in 1 .. n
  <2>1. At(r, "commit")
    BY DEF CommitStatus
  <2> QED  BY <1>0, <1>1, <1>11, <2>1 DEF Handlers, HandlerOK, Apart
<1>12. ASSUME NEW s \in Requests PROVE HandlerOK(s)'
  <2>1. CASE s = r
    <3>1. n + 1 \in DOMAIN log'[a] /\ log'[a][n + 1] = move
      BY <1>1, <1>6
    <3> QED  BY <1>3, <1>9, <1>10, <2>1, <3>1 DEF HandlerOK, Telling, ToldMove, move
  <2>2. CASE s # r
    <3>1. HandlerOK(s) /\ request'[s] = request[s]
      BY <1>0, <1>3, <2>2 DEF Handlers
    <3>2. CASE request[s].acct # a
      BY <1>0, <1>3, <2>2, <3>1, <3>2, OtherOK
    <3>3. CASE request[s].acct = a
      <4>1. status'[a] # "absent"
        BY <1>1, <1>3 DEF Statuses
      <4>2. Telling(s) => request[s].at \in DOMAIN log'[a] /\ log'[a][request[s].at] = log[a][request[s].at]
        BY <1>1, <1>6, <1>11, <2>2, <3>3
      <4> QED  BY <1>3, <1>11, <2>2, <3>1, <3>3, <4>1, <4>2 DEF HandlerOK, Telling, ToldMove
    <3> QED  BY <3>2, <3>3
  <2> QED  BY <2>1, <2>2
<1>13. ASSUME NEW s \in Requests, NEW t \in Requests, s # t PROVE Apart(s, t)'
  <2>1. CASE s # r /\ t # r
    BY <1>0, <1>3, <1>13, <2>1 DEF Handlers, Apart, Telling
  <2>2. n + 1 \notin 1 .. n
    BY <1>1
  <2>3. CASE s = r
    BY <1>3, <1>9, <1>11, <1>13, <2>2, <2>3 DEF Apart, Telling
  <2>4. CASE t = r
    BY <1>3, <1>9, <1>11, <1>13, <2>2, <2>4 DEF Apart, Telling
  <2> QED  BY <2>1, <2>3, <2>4
<1> QED  BY <1>8, <1>12, <1>13 DEF Rows, Handlers

\* OneAccountPerPhone and OwnCustomersOnly, which are about three variables.
LEMMA Same ==
    ASSUME OneAccountPerPhone, OwnCustomersOnly
    PROVE  /\ UNCHANGED phone => OneAccountPerPhone'
           /\ UNCHANGED <<origin, known>> => OwnCustomersOnly'
BY DEF OneAccountPerPhone, OwnCustomersOnly

LEMMA StepInv == IInv /\ [Next]_vars => IInv'
<1> SUFFICES ASSUME IInv, [Next]_vars PROVE IInv'
  OBVIOUS
<1>0. /\ TypeOK /\ OneAccountPerPhone /\ OwnCustomersOnly /\ Rows /\ Handlers
      /\ TypeOK'
  BY TypeStep DEF IInv
<1>1. ASSUME NEW r \in Requests, NEW app \in Apps, NEW p \in Phones, Register(r, app, p) PROVE IInv'
  <2>1. /\ request'[r].stage = "create" /\ \A s \in Requests \ {r} : request'[s] = request[s]
    BY <1>0, <1>1 DEF Register, Busy, TypeOK, RequestOK
  <2>2. HandlerOK(r)' /\ ~Telling(r)'
    BY <2>1 DEF HandlerOK, Telling
  <2> QED  BY <1>0, <1>1, <2>1, <2>2, Quiet, Same DEF Register, IInv
<1>2. ASSUME NEW r \in Requests, NEW a \in Accounts, Create(r, a) PROVE IInv'
  BY <1>0, <1>2, Created
<1>3. ASSUME NEW r \in Requests, Collide(r) PROVE IInv'
  <2>1. /\ request'[r].stage = "match" /\ \A s \in Requests \ {r} : request'[s] = request[s]
    BY <1>0, <1>3 DEF Collide, Busy, TypeOK, RequestOK
  <2>2. HandlerOK(r)' /\ ~Telling(r)'
    BY <2>1 DEF HandlerOK, Telling
  <2> QED  BY <1>0, <1>3, <2>1, <2>2, Quiet, Same DEF Collide, IInv
<1>4. ASSUME NEW r \in Requests, MatchExisting(r) PROVE IInv'
  <2>1. Rows' /\ Handlers'
    BY <1>0, <1>4, Ended DEF MatchExisting
  <2>2. OwnCustomersOnly'
    BY <1>0, <1>4 DEF MatchExisting, OwnCustomersOnly, TypeOK
  <2> QED  BY <1>0, <1>4, <2>1, <2>2, Same DEF MatchExisting, IInv
<1>5. ASSUME NEW r \in Requests, PublishCreated(r) PROVE IInv'
  <2>1. /\ Telling(r) /\ request[r].at = 1 /\ origin[request[r].acct] = request[r].app
        /\ ToldMove(request[r]) = Creation
    BY <1>0, <1>5 DEF PublishCreated, Telling, ToldMove, Handlers, HandlerOK
  <2>2. events' = [events EXCEPT ![request[r].acct] =
                      Append(@, [move |-> ToldMove(request[r]), at |-> request[r].at])]
    BY <1>5, <2>1 DEF PublishCreated
  <2>3. Rows' /\ Handlers'
    BY <1>0, <1>5, <2>1, <2>2, Publish DEF PublishCreated
  <2>4. OwnCustomersOnly'
    BY <1>0, <1>5, <2>1 DEF PublishCreated, OwnCustomersOnly, TypeOK
  <2> QED  BY <1>0, <1>5, <2>3, <2>4, Same DEF PublishCreated, IInv
<1>6. ASSUME NEW r \in Requests, NEW a \in Accounts, NEW by \in Kinds, Transition(r, a, by) PROVE IInv'
  <2>1. /\ request'[r].stage = "change" /\ request'[r].acct = a
        /\ \A s \in Requests \ {r} : request'[s] = request[s]
    BY <1>0, <1>6 DEF Transition, Busy, TypeOK, RequestOK
  <2>2. HandlerOK(r)' /\ ~Telling(r)'
    BY <1>6, <2>1 DEF Transition, HandlerOK, Telling
  <2> QED  BY <1>0, <1>6, <2>1, <2>2, Quiet, Same DEF Transition, IInv
<1>7. ASSUME NEW r \in Requests, LockStatus(r) PROVE IInv'
  <2> DEFINE q == request[r]
  <2>1. UNCHANGED <<status, origin, phone, events, log, known>>
    BY <1>7 DEF LockStatus, ReadStatus
  <2>2. CASE status[q.acct] \in From(q.by)
    <3>1. /\ request'[r].stage = "commit" /\ request'[r].acct = q.acct /\ request'[r].by = q.by
          /\ request'[r].seen = status[q.acct] /\ \A s \in Requests \ {r} : request'[s] = request[s]
      BY <1>0, <1>7, <2>2 DEF LockStatus, ReadStatus, Busy, TypeOK, RequestOK
    <3>2. HandlerOK(r) /\ q.stage = "change"
      BY <1>0, <1>7 DEF LockStatus, ReadStatus, Handlers
    <3>3. HandlerOK(r)' /\ ~Telling(r)'
      BY <2>1, <2>2, <3>1, <3>2 DEF HandlerOK, Telling
    <3>4. \A s \in Requests \ {r} : ~(At(s, "commit") /\ request[s].acct = request'[r].acct)
      BY <1>7, <3>1 DEF LockStatus, Locked
    <3> QED  BY <1>0, <2>1, <3>1, <3>3, <3>4, Quiet, Same DEF IInv
  <2>3. CASE status[q.acct] \notin From(q.by)
    <3>1. Finish(r)
      BY <1>7, <2>3 DEF LockStatus, ReadStatus
    <3> QED  BY <1>0, <2>1, <3>1, Ended, Same DEF IInv
  <2> QED  BY <2>2, <2>3
<1>8. ASSUME NEW r \in Requests, CommitStatus(r) PROVE IInv'
  <2>1. request[r].acct \in Accounts
    BY <1>0, <1>8, InFlight DEF CommitStatus
  <2>2. Rows' /\ Handlers'
    BY <1>0, <1>8, <2>1, Committed
  <2> QED  BY <1>0, <1>8, <2>2, Same DEF CommitStatus, IInv
<1>9. ASSUME NEW r \in Requests, PublishTransition(r) PROVE IInv'
  <2>1. Telling(r) /\ ToldMove(request[r]) = [by |-> request[r].by, from |-> request[r].seen, to |-> To(request[r].by)]
    BY <1>9 DEF PublishTransition, Telling, ToldMove
  <2>2. events' = [events EXCEPT ![request[r].acct] =
                      Append(@, [move |-> ToldMove(request[r]), at |-> request[r].at])]
    BY <1>9, <2>1 DEF PublishTransition
  <2>3. Rows' /\ Handlers'
    BY <1>0, <1>9, <2>1, <2>2, Publish DEF PublishTransition
  <2> QED  BY <1>0, <1>9, <2>3, Same DEF PublishTransition, IInv
<1>10. ASSUME NEW a \in Accounts, NEW p \in Phones, MovePhone(a, p) PROVE IInv'
  <2>1. OneAccountPerPhone'
    BY <1>0, <1>10 DEF MovePhone, Directory!Move, Directory!Free, OneAccountPerPhone, TypeOK
  <2>2. Rows'
    BY <1>0, <1>10, PathKept, EventsKept DEF MovePhone, Rows
  <2>3. Handlers'
    BY <1>0, <1>10 DEF MovePhone, Handlers, HandlerOK, Apart, Telling, ToldMove, Places
  <2> QED  BY <1>0, <1>10, <2>1, <2>2, <2>3, Same DEF MovePhone, IInv
<1>11. ASSUME NEW r \in Requests, Abort(r) PROVE IInv'
  BY <1>0, <1>11, Ended, Same DEF Abort, IInv
<1>12. CASE UNCHANGED vars
  <2>1. Rows' /\ Handlers'
    BY <1>0, <1>12, PathKept, EventsKept
       DEF vars, Rows, Handlers, HandlerOK, Apart, Telling, ToldMove, Places
  <2> QED  BY <1>0, <1>12, <2>1, Same DEF vars, IInv
<1> QED
  BY <1>1, <1>2, <1>3, <1>4, <1>5, <1>6, <1>7, <1>8, <1>9, <1>10, <1>11, <1>12
     DEF Next, Arrive, Continue

-----------------------------------------------------------------------------
(* Theorems.                                                               *)

\* All of the invariant holds in every reachable state.
THEOREM Inductive == Spec => []IInv
  BY InitInv, StepInv, PTL DEF Spec

\* Every variable keeps its type.
THEOREM TypeCorrect == Spec => []TypeOK
  BY Inductive, PTL DEF IInv

\* A number belongs to one account, and an app sees its own customers only.
THEOREM Registration == Spec => [](OneAccountPerPhone /\ OwnCustomersOnly)
  BY Inductive, PTL DEF IInv

\* No status change is made on a status its transaction has not seen.
THEOREM StatusFollowsLog == Spec => []LogIsPath
<1>1. IInv => LogIsPath
  BY DEF IInv, Rows, PathOK, LogIsPath
<1> QED  BY <1>1, Inductive, PTL

-----------------------------------------------------------------------------
(* What becomes of the announcements.                                      *)

Held(a, i) == \E r \in Requests : Telling(r) /\ request[r].acct = a /\ request[r].at = i

\* The changes of an account are told, lost, or held by a handler, and what is
\* lost is neither told nor held.
Accounted(a) ==
    /\ untold[a] \subseteq DOMAIN log[a]
    /\ \A i \in DOMAIN log[a] : i \in Places(events[a]) \/ i \in untold[a] \/ Held(a, i)
    /\ \A i \in untold[a] : i \notin Places(events[a]) /\ ~Held(a, i)

NothingKeptBack == \A a \in Accounts : Accounted(a)

\* What a telling handler holds is one change of its account, and its alone.
LEMMA HeldFacts ==
    ASSUME IInv, NEW r \in Requests, Telling(r)
    PROVE  /\ request[r].acct \in Accounts /\ request[r].at \in DOMAIN log[request[r].acct]
           /\ \A s \in Requests \ {r} :
                 Telling(s) => request[s].acct # request[r].acct \/ request[s].at # request[r].at
<1>1. request[r].acct \in Accounts
  BY InFlight DEF IInv, Telling
<1> QED  BY <1>1 DEF IInv, Handlers, HandlerOK, Apart

\* A step of a handler that neither tells before it nor after it.
LEMMA AccountedQuiet ==
    ASSUME IInv, NothingKeptBack, NEW r \in Requests, UNCHANGED <<events, log, untold>>,
           \A s \in Requests \ {r} : request'[s] = request[s], ~Telling(r), ~Telling(r)'
    PROVE  NothingKeptBack'
<1>1. \A a \in Accounts : \A i \in DOMAIN log[a] : Held(a, i)' = Held(a, i)
  BY DEF Held, Telling
<1> QED  BY <1>1 DEF NothingKeptBack, Accounted, Places

\* A step that writes one more change, which its handler is then to tell.
LEMMA AccountedWrite ==
    ASSUME IInv, NothingKeptBack, NEW r \in Requests, NEW a \in Accounts, NEW n,
           UNCHANGED <<events, untold>>, \A b \in Accounts \ {a} : log'[b] = log[b],
           DOMAIN log'[a] = DOMAIN log[a] \cup {n}, n \notin DOMAIN log[a],
           \A s \in Requests \ {r} : request'[s] = request[s], ~Telling(r), Telling(r)',
           request'[r].acct = a, request'[r].at = n
    PROVE  NothingKeptBack'
<1> SUFFICES ASSUME NEW b \in Accounts PROVE Accounted(b)'
  BY DEF NothingKeptBack
<1>1. Accounted(b) /\ Places(events[b])' = Places(events[b]) /\ untold'[b] = untold[b]
  BY DEF NothingKeptBack, Places
<1>2. ASSUME NEW i, ~(b = a /\ i = n) PROVE Held(b, i)' = Held(b, i)
  BY <1>2 DEF Held, Telling
<1>3. Held(a, n)'
  BY DEF Held
<1>4. CASE b # a
  BY <1>1, <1>2, <1>4 DEF Accounted
<1>5. CASE b = a
  BY <1>1, <1>2, <1>3, <1>5 DEF Accounted
<1> QED  BY <1>4, <1>5

\* A telling handler ends, and the change it held is told or lost.
LEMMA AccountedEnd ==
    ASSUME IInv, NothingKeptBack, NEW r \in Requests, Telling(r), UNCHANGED log, Finish(r),
           NEW a \in Accounts, NEW n, a = request[r].acct, n = request[r].at,
           \A b \in Accounts \ {a} : Places(events'[b]) = Places(events[b]) /\ untold'[b] = untold[b],
           \/ Places(events'[a]) = Places(events[a]) \cup {n} /\ untold'[a] = untold[a]
           \/ Places(events'[a]) = Places(events[a]) /\ untold'[a] = untold[a] \cup {n}
    PROVE  NothingKeptBack'
<1> SUFFICES ASSUME NEW b \in Accounts PROVE Accounted(b)'
  BY DEF NothingKeptBack
<1>1. Accounted(b) /\ log'[b] = log[b]
  BY DEF NothingKeptBack
<1>2. request'[r] = Idle /\ \A s \in Requests \ {r} : request'[s] = request[s]
  BY DEF Finish, IInv, TypeOK, RequestOK
<1>3. ~Telling(r)'
  BY <1>2, IdleFacts DEF Telling
<1>4. ASSUME NEW i, ~(b = a /\ i = n) PROVE Held(b, i)' = Held(b, i)
  BY <1>2, <1>3, <1>4 DEF Held, Telling
<1>5. a \in Accounts /\ n \in DOMAIN log[a] /\ ~Held(a, n)'
  BY <1>2, <1>3, HeldFacts DEF Held, Telling
<1>6. n \notin Places(events[a]) /\ n \notin untold[a]
  <2>1. n \notin Places(events[a])
    BY DEF IInv, Handlers, HandlerOK
  <2>2. Held(a, n)
    BY DEF Held
  <2> QED  BY <1>5, <2>1, <2>2 DEF NothingKeptBack, Accounted
<1>7. CASE b # a
  <2>1. Places(events'[b]) = Places(events[b]) /\ untold'[b] = untold[b]
    BY <1>7
  <2> QED  BY <1>1, <1>4, <1>7, <2>1 DEF Accounted
<1>8. CASE b = a
  <2>1. Held(b, n) /\ ~Held(b, n)'
    BY <1>5, <1>8 DEF Held
  <2>2. CASE Places(events'[b]) = Places(events[b]) \cup {n} /\ untold'[b] = untold[b]
    BY <1>1, <1>4, <1>6, <1>8, <2>1, <2>2 DEF Accounted
  <2>3. CASE Places(events'[b]) = Places(events[b]) /\ untold'[b] = untold[b] \cup {n}
    BY <1>1, <1>4, <1>5, <1>6, <1>8, <2>1, <2>3 DEF Accounted
  <2> QED  BY <1>8, <2>2, <2>3
<1> QED  BY <1>7, <1>8

\* The place of the event that is published last.
LEMMA PlacesAppend ==
    ASSUME NEW told \in Seq(Event), NEW e \in Event
    PROVE  Places(Append(told, e)) = Places(told) \cup {e.at}
<1> DEFINE n == Len(told)
<1>1. /\ n \in Nat /\ DOMAIN told = 1 .. n /\ DOMAIN Append(told, e) = 1 .. (n + 1)
      /\ \A i \in 1 .. n : Append(told, e)[i] = told[i]
      /\ Append(told, e)[n + 1] = e
  BY AppendProperties, LenProperties
<1>2. /\ \A i \in 1 .. (n + 1) : i \in 1 .. n \/ i = n + 1
      /\ n + 1 \in 1 .. (n + 1) /\ \A i \in 1 .. n : i \in 1 .. (n + 1)
  BY <1>1
<1> QED  BY <1>1, <1>2 DEF Places

LEMMA AccountedInit == Init => NothingKeptBack
BY DEF Init, NothingKeptBack, Accounted

LEMMA AccountedStep == IInv /\ NothingKeptBack /\ [Next]_vars => NothingKeptBack'
<1> SUFFICES ASSUME IInv, NothingKeptBack, [Next]_vars PROVE NothingKeptBack'
  OBVIOUS
<1>0. TypeOK /\ RequestOK /\ Rows /\ Handlers
  BY DEF IInv, TypeOK
<1>1. ASSUME NEW r \in Requests, NEW app \in Apps, NEW p \in Phones, Register(r, app, p)
      PROVE  NothingKeptBack'
  <2>1. request'[r].stage = "create" /\ \A s \in Requests \ {r} : request'[s] = request[s]
    BY <1>0, <1>1 DEF Register, Busy, RequestOK
  <2> QED  BY <1>1, <2>1, AccountedQuiet DEF Register, Telling
<1>2. ASSUME NEW r \in Requests, NEW a \in Accounts, Create(r, a) PROVE NothingKeptBack'
  <2>1. DOMAIN log[a] = {}
    <3>1. PathOK(a) /\ log[a] \in Seq(Move) /\ status[a] = "absent"
      BY <1>0, <1>2 DEF Rows, TypeOK, Create
    <3>2. ASSUME log[a] # <<>> PROVE FALSE
      <4>1. log[a][Len(log[a])] \in Move
        BY <3>1, <3>2, ElementOfSeq, LenProperties, EmptySeq
      <4> QED  BY <3>1, <3>2, <4>1 DEF PathOK, Move, Statuses
    <3> QED  BY <3>2
  <2>2. /\ log'[a] = <<Creation>> /\ \A b \in Accounts \ {a} : log'[b] = log[b]
        /\ request'[r] = Busy("welcome", request[r].app, request[r].phone, a, "create", "absent", 1)
        /\ \A s \in Requests \ {r} : request'[s] = request[s]
    BY <1>0, <1>2 DEF Create, TypeOK, RequestOK
  <2>3. DOMAIN log'[a] = DOMAIN log[a] \cup {1} /\ 1 \notin DOMAIN log[a]
    BY <2>1, <2>2
  <2>4. request'[r].stage = "welcome" /\ request'[r].acct = a /\ request'[r].at = 1
    BY <2>2 DEF Busy
  <2> QED  BY <1>2, <2>2, <2>3, <2>4, AccountedWrite DEF Create, Telling
<1>3. ASSUME NEW r \in Requests, Collide(r) PROVE NothingKeptBack'
  <2>1. request'[r].stage = "match" /\ \A s \in Requests \ {r} : request'[s] = request[s]
    BY <1>0, <1>3 DEF Collide, Busy, RequestOK
  <2> QED  BY <1>3, <2>1, AccountedQuiet DEF Collide, Telling
<1>4. ASSUME NEW r \in Requests, MatchExisting(r) PROVE NothingKeptBack'
  <2>1. request'[r].stage = "idle" /\ \A s \in Requests \ {r} : request'[s] = request[s]
    BY <1>0, <1>4, IdleFacts DEF MatchExisting, Finish, RequestOK
  <2> QED  BY <1>4, <2>1, AccountedQuiet DEF MatchExisting, Telling
<1>5. ASSUME NEW r \in Requests, NEW m \in Move, Telling(r), UNCHANGED <<log, untold>>, Finish(r),
             events' = [events EXCEPT ![request[r].acct] = Append(@, [move |-> m, at |-> request[r].at])]
      PROVE  NothingKeptBack'
  <2> DEFINE q == request[r]
             e == [move |-> m, at |-> q.at]
  <2>1. q.acct \in Accounts /\ events[q.acct] \in Seq(Event) /\ e \in Event /\ e.at = q.at
    BY <1>0, <1>5, InFlight DEF Telling, Handler, Event
  <2>2. events'[q.acct] = Append(events[q.acct], e) /\ \A b \in Accounts \ {q.acct} : events'[b] = events[b]
    BY <1>0, <1>5, <2>1 DEF TypeOK
  <2> HIDE DEF e
  <2>3. Places(events'[q.acct]) = Places(events[q.acct]) \cup {q.at}
    BY <2>1, <2>2, PlacesAppend
  <2> QED  BY <1>5, <2>1, <2>2, <2>3, AccountedEnd
<1>6. ASSUME NEW r \in Requests, PublishCreated(r) PROVE NothingKeptBack'
  <2>1. Telling(r) /\ request[r].at = 1
    BY <1>0, <1>6 DEF PublishCreated, Telling, Handlers, HandlerOK
  <2> QED  BY <1>5, <1>6, <2>1, CreationIsMove DEF PublishCreated
<1>7. ASSUME NEW r \in Requests, NEW a \in Accounts, NEW by \in Kinds, Transition(r, a, by)
      PROVE  NothingKeptBack'
  <2>1. request'[r].stage = "change" /\ \A s \in Requests \ {r} : request'[s] = request[s]
    BY <1>0, <1>7 DEF Transition, Busy, RequestOK
  <2> QED  BY <1>7, <2>1, AccountedQuiet DEF Transition, Telling
<1>8. ASSUME NEW r \in Requests, LockStatus(r) PROVE NothingKeptBack'
  <2>1. request'[r].stage \in {"commit", "idle"} /\ \A s \in Requests \ {r} : request'[s] = request[s]
    BY <1>0, <1>8, IdleFacts DEF LockStatus, ReadStatus, Finish, Busy, RequestOK
  <2> QED  BY <1>8, <2>1, AccountedQuiet DEF LockStatus, ReadStatus, Telling
<1>9. ASSUME NEW r \in Requests, CommitStatus(r) PROVE NothingKeptBack'
  <2> DEFINE q == request[r]
             move == [by |-> q.by, from |-> q.seen, to |-> To(q.by)]
             a == q.acct
             n == Len(log[a])
  <2>1. /\ a \in Accounts /\ q.by \in Kinds /\ To(q.by) \in Statuses /\ q \in Handler
        /\ log[a] \in Seq(Move) /\ n \in Nat /\ DOMAIN log[a] = 1 .. n
    BY <1>0, <1>9, InFlight, LenProperties DEF CommitStatus
  <2>2. move \in Move
    BY <2>1 DEF Move, Handler
  <2>3. /\ log'[a] = Append(log[a], move) /\ \A b \in Accounts \ {a} : log'[b] = log[b]
        /\ request'[r] = Busy("announce", NoApp, NoPhone, a, q.by, q.seen, n + 1)
        /\ \A s \in Requests \ {r} : request'[s] = request[s]
    BY <1>0, <1>9, <2>1, ZenonT(60) DEF CommitStatus, TypeOK, RequestOK
  <2> HIDE DEF move
  <2>4. DOMAIN log'[a] = DOMAIN log[a] \cup {n + 1} /\ n + 1 \notin DOMAIN log[a]
    <3>1. DOMAIN log'[a] = 1 .. (n + 1)
      BY <2>1, <2>2, <2>3, AppendProperties, LenProperties
    <3> QED  BY <2>1, <3>1
  <2>5. request'[r].stage = "announce" /\ request'[r].acct = a /\ request'[r].at = n + 1
    BY <2>3 DEF Busy
  <2> QED  BY <1>9, <2>1, <2>3, <2>4, <2>5, AccountedWrite DEF CommitStatus, Telling
<1>10. ASSUME NEW r \in Requests, PublishTransition(r) PROVE NothingKeptBack'
  <2> DEFINE q == request[r]
             m == [by |-> q.by, from |-> q.seen, to |-> To(q.by)]
  <2>1. q.by \in Kinds /\ To(q.by) \in Statuses /\ q \in Handler
    BY <1>0, <1>10, InFlight DEF PublishTransition
  <2>2. m \in Move /\ Telling(r)
    BY <1>10, <2>1 DEF Move, Handler, PublishTransition, Telling
  <2>3. events' = [events EXCEPT ![request[r].acct] = Append(@, [move |-> m, at |-> request[r].at])]
    BY <1>10 DEF PublishTransition
  <2> HIDE DEF m
  <2> QED  BY <1>5, <1>10, <2>2, <2>3 DEF PublishTransition
<1>11. ASSUME NEW r \in Requests, Abort(r) PROVE NothingKeptBack'
  <2>1. CASE Telling(r)
    <3>1. request[r].acct \in Accounts
      BY <2>1, HeldFacts
    <3>2. /\ untold'[request[r].acct] = untold[request[r].acct] \cup {request[r].at}
          /\ \A b \in Accounts \ {request[r].acct} : untold'[b] = untold[b]
      BY <1>0, <1>11, <2>1, <3>1 DEF Abort, Telling, TypeOK
    <3> QED  BY <1>11, <2>1, <3>1, <3>2, AccountedEnd DEF Abort
  <2>2. CASE ~Telling(r)
    <3>1. request'[r].stage = "idle" /\ \A s \in Requests \ {r} : request'[s] = request[s]
      BY <1>0, <1>11, IdleFacts DEF Abort, Finish, RequestOK
    <3> QED  BY <1>11, <2>2, <3>1, AccountedQuiet DEF Abort, Telling
  <2> QED  BY <2>1, <2>2
<1>12. ASSUME UNCHANGED <<events, log, untold, request>> PROVE NothingKeptBack'
  BY <1>12 DEF NothingKeptBack, Accounted, Places, Held, Telling
<1> QED
  BY <1>1, <1>2, <1>3, <1>4, <1>6, <1>7, <1>8, <1>9, <1>10, <1>11, <1>12
     DEF Next, Arrive, Continue, MovePhone, vars

\* Every event tells of one committed change, no change is told twice, and what
\* is never told was lost with the handler that had to.
THEOREM EventsAreTrue == Spec => []EventsTellLog
<1>1. IInv /\ NothingKeptBack => EventsTellLog
  BY DEF IInv, Rows, EventsOK, NothingKeptBack, Accounted, Held, Telling, EventsTellLog
<1>2. Spec => []NothingKeptBack
  BY AccountedInit, AccountedStep, Inductive, PTL DEF Spec
<1> QED  BY <1>1, <1>2, Inductive, PTL

\* A freeze is lifted by reactivate only.
LEMMA FreezeStep ==
    ASSUME IInv, [Next]_vars, NEW a \in Accounts, status[a] = "frozen_aml", status'[a] # "frozen_aml"
    PROVE  \E r \in Requests : At(r, "commit") /\ request[r].acct = a /\ request[r].by = "reactivate"
<1>0. TypeOK /\ Handlers
  BY DEF IInv
<1>1. ASSUME NEW r \in Requests, CommitStatus(r)
      PROVE  At(r, "commit") /\ request[r].acct = a /\ request[r].by = "reactivate"
  <2> DEFINE q == request[r]
  <2>1. q.acct \in Accounts /\ q.by \in Kinds /\ At(r, "commit")
    BY <1>0, <1>1, InFlight DEF CommitStatus
  <2>2. q.acct = a
    BY <1>0, <1>1, <2>1 DEF CommitStatus, TypeOK
  <2>3. "frozen_aml" \in From(q.by)
    BY <1>0, <2>1, <2>2 DEF Handlers, HandlerOK
  <2>4. q.by = "reactivate"
    BY <2>1, <2>3 DEF From, Kinds
  <2> QED  BY <2>1, <2>2, <2>4
<1>2. ASSUME NEW r \in Requests, NEW b \in Accounts, Create(r, b) PROVE FALSE
  BY <1>0, <1>2 DEF Create, TypeOK
<1>3. status' # status
  OBVIOUS
<1> QED
  BY <1>1, <1>2, <1>3
     DEF Next, Arrive, Continue, vars, Register, Collide, MatchExisting, PublishCreated,
         MovePhone, Transition, LockStatus, ReadStatus, PublishTransition, Abort

THEOREM OnlyReactivateThaws == Spec => FreezeHolds
<1>1. IInv /\ [Next]_vars =>
        [\A a \in Accounts : status[a] = "frozen_aml" /\ status'[a] # "frozen_aml" =>
            \E r \in Requests : At(r, "commit") /\ request[r].acct = a /\ request[r].by = "reactivate"]_vars
  BY FreezeStep
<1> QED  BY <1>1, Inductive, PTL DEF Spec, FreezeHolds

-----------------------------------------------------------------------------
(* Refinement of AccountTrail.                                             *)

Done(m) == [by |-> m.by, to |-> m.to]

\* One more change in the log is one more on the trail.
LEMMA MovesAppend ==
    ASSUME NEW h \in Seq(Move), NEW m \in Move
    PROVE  Moves(Append(h, m)) = Append(Moves(h), Done(m))
<1> DEFINE more == Append(h, m)
           old == Moves(h)
           new == Moves(more)
           e == Done(m)
           S == {Done(h[i]) : i \in 1 .. Len(h)} \cup {e}
<1>0. /\ Len(h) \in Nat /\ DOMAIN h = 1 .. Len(h) /\ DOMAIN more = 1 .. Len(h) + 1
      /\ \A i \in 1 .. Len(h) : more[i] = h[i]
      /\ more[Len(h) + 1] = m
  BY AppendProperties, LenProperties
<1> HIDE DEF more
<1>1. old = [i \in 1 .. Len(h) |-> Done(h[i])]
  BY <1>0, Zenon DEF Moves, Done
<1>2. new = [i \in 1 .. Len(h) + 1 |-> Done(more[i])]
  BY <1>0, Zenon DEF Moves, Done
<1>3. \A i \in 1 .. Len(h) + 1 : i \in 1 .. Len(h) \/ i = Len(h) + 1
  BY <1>0
<1> HIDE DEF old, new
<1>4. new = [i \in 1 .. Len(h) + 1 |-> IF i \in 1 .. Len(h) THEN old[i] ELSE e]
  BY <1>0, <1>1, <1>2, <1>3
<1>5. e \in S /\ old \in [1 .. Len(h) -> S]
  BY <1>0, <1>1
<1> HIDE DEF S, e
<1>6. old \in Seq(S) /\ Len(old) = Len(h)
  BY <1>0, <1>5
<1>7. /\ Append(old, e) \in Seq(S) /\ Len(Append(old, e)) = Len(h) + 1
      /\ \A i \in 1 .. Len(h) : Append(old, e)[i] = old[i]
      /\ Append(old, e)[Len(h) + 1] = e
  BY <1>5, <1>6, AppendProperties
<1>8. Append(old, e) = [i \in 1 .. Len(h) + 1 |-> Append(old, e)[i]]
  BY <1>7, LenProperties, Zenon
<1>9. Append(old, e) = [i \in 1 .. Len(h) + 1 |-> IF i \in 1 .. Len(h) THEN old[i] ELSE e]
  BY <1>3, <1>7, <1>8
<1> QED  BY <1>4, <1>9 DEF old, new, more, e

\* What the trail of a path looks like.
LEMMA MovesFacts ==
    ASSUME NEW h \in Seq(Move), h # <<>>
    PROVE  /\ Moves(h) # <<>> /\ Len(Moves(h)) = Len(h) /\ DOMAIN Moves(h) = DOMAIN h
           /\ Moves(h)[Len(Moves(h))].to = h[Len(h)].to
<1> DEFINE n == Len(h)
           S == {Done(h[i]) : i \in 1 .. n}
           t == Moves(h)
<1>0. n \in Nat /\ n > 0 /\ DOMAIN h = 1 .. n
  BY LenProperties, EmptySeq
<1>1. t = [i \in 1 .. n |-> Done(h[i])]
  BY <1>0, Zenon DEF Moves, Done
<1>2. t \in [1 .. n -> S]
  BY <1>0, <1>1
<1> HIDE DEF S
<1> HIDE DEF t
<1>3. t \in Seq(S) /\ Len(t) = n /\ DOMAIN t = 1 .. n
  BY <1>0, <1>2
<1>4. t[n].to = h[n].to
  BY <1>0, <1>1 DEF Done
<1>5. t # <<>>
  BY <1>0, <1>3
<1> QED  BY <1>0, <1>3, <1>4, <1>5 DEF t

LEMMA TrailInit == Init => Trail!Init
<1>1. Moves(<<>>) = <<>> /\ Places(<<>>) = {}
  BY DEF Moves, Places
<1> QED  BY <1>1 DEF Init, Trail!Init

\* A step that announces one change of an account.
LEMMA AnnounceStep ==
    ASSUME IInv, NEW r \in Requests, Telling(r), NEW m \in Move, UNCHANGED log,
           events' = [events EXCEPT ![request[r].acct] = Append(@, [move |-> m, at |-> request[r].at])]
    PROVE  Trail!Next
<1>0. TypeOK /\ Handlers
  BY DEF IInv
<1> DEFINE q == request[r]
           e == [move |-> m, at |-> q.at]
           n == Len(events[q.acct])
<1>1. /\ q.acct \in Accounts /\ events[q.acct] \in Seq(Event) /\ n \in Nat /\ DOMAIN events[q.acct] = 1 .. n
      /\ log[q.acct] \in Seq(Move) /\ q.at \in Nat
  BY <1>0, InFlight, LenProperties DEF Telling, Handler
<1>2. q.at \in DOMAIN log[q.acct] /\ q.at \notin Places(events[q.acct])
  BY <1>0 DEF Handlers, HandlerOK
<1>3. /\ events'[q.acct] = Append(events[q.acct], e)
      /\ \A a \in Accounts \ {q.acct} : events'[a] = events[a]
  BY <1>0, <1>1 DEF TypeOK
<1>4. e \in Event /\ e.at = q.at
  BY <1>1 DEF Event
<1> HIDE DEF e
<1>5. /\ DOMAIN events'[q.acct] = 1 .. (n + 1)
      /\ \A i \in 1 .. n : events'[q.acct][i] = events[q.acct][i]
      /\ events'[q.acct][n + 1] = e
  BY <1>1, <1>3, <1>4, AppendProperties, LenProperties
<1>6. Places(events'[q.acct]) = Places(events[q.acct]) \cup {q.at}
  <2>1. /\ \A i \in 1 .. (n + 1) : i \in 1 .. n \/ i = n + 1
        /\ n + 1 \in 1 .. (n + 1) /\ \A i \in 1 .. n : i \in 1 .. (n + 1)
    BY <1>1
  <2> QED  BY <1>1, <1>4, <1>5, <2>1 DEF Places
<1>7. DOMAIN Moves(log[q.acct]) = DOMAIN log[q.acct]
  BY Zenon DEF Moves
<1> DEFINE told == [a \in Accounts |-> Places(events[a])]
           after == [a \in Accounts |-> Places(events'[a])]
<1>8. after = [told EXCEPT ![q.acct] = @ \cup {q.at}]
  <2>1. ASSUME NEW a \in Accounts
        PROVE  Places(events'[a]) = IF a = q.acct THEN Places(events[a]) \cup {q.at} ELSE Places(events[a])
    <3>1. CASE a = q.acct
      BY <1>6, <3>1
    <3>2. CASE a # q.acct
      <4>1. events'[a] = events[a]
        BY <1>3, <3>2
      <4> QED  BY <3>2, <4>1
    <3> QED  BY <3>1, <3>2
  <2>2. after = [a \in Accounts |-> IF a = q.acct THEN Places(events[a]) \cup {q.at} ELSE Places(events[a])]
    BY <2>1, Zenon
  <2> QED  BY <1>1, <2>2
<1>9. told' = after
  BY DEF Places
<1>10. Trail!Announce(q.acct)
  <2>1. q.at \in DOMAIN Moves(log[q.acct]) \ Places(events[q.acct])
    BY <1>2, <1>7
  <2>2. told' = [told EXCEPT ![q.acct] = @ \cup {q.at}]
    BY <1>8, <1>9
  <2> QED  BY <1>1, <2>1, <2>2 DEF Trail!Announce
<1> QED  BY <1>1, <1>10 DEF Trail!Next

LEMMA TrailStep == IInv /\ [Next]_vars => [Trail!Next]_Trail!trailVars
<1> SUFFICES ASSUME IInv, [Next]_vars PROVE Trail!Next \/ UNCHANGED Trail!trailVars
  OBVIOUS
<1>0. TypeOK /\ Rows /\ Handlers
  BY DEF IInv
<1>1. ASSUME UNCHANGED <<log, events>> PROVE UNCHANGED Trail!trailVars
  BY <1>1 DEF Trail!trailVars
<1> DEFINE trail == [a \in Accounts |-> Moves(log[a])]
           after == [a \in Accounts |-> Moves(log'[a])]
<1>2. trail' = after
  BY DEF Moves
<1>3. ASSUME NEW r \in Requests, NEW a \in Accounts, Create(r, a) PROVE Trail!Next
  <2>1. log[a] = <<>>
    <3>1. PathOK(a) /\ log[a] \in Seq(Move) /\ status[a] = "absent"
      BY <1>0, <1>3 DEF Rows, TypeOK, Create
    <3>2. ASSUME log[a] # <<>> PROVE FALSE
      <4>1. log[a][Len(log[a])] \in Move
        BY <3>1, <3>2, ElementOfSeq, LenProperties, EmptySeq
      <4> QED  BY <3>1, <3>2, <4>1 DEF PathOK, Move, Statuses
    <3> QED  BY <3>2
  <2>2. Moves(<<>>) = <<>> /\ Moves(<<Creation>>) = <<[by |-> "create", to |-> "pending_onboarding"]>>
    BY DEF Moves, Creation
  <2>3. log' = [log EXCEPT ![a] = <<Creation>>] /\ UNCHANGED events
    BY <1>3 DEF Create
  <2>4. after = [trail EXCEPT ![a] = <<[by |-> "create", to |-> "pending_onboarding"]>>]
    BY <1>0, <2>2, <2>3 DEF TypeOK
  <2>5. Trail!Register(a)
    BY <1>2, <2>1, <2>2, <2>3, <2>4 DEF Trail!Register
  <2> QED  BY <2>5 DEF Trail!Next
<1>4. ASSUME NEW r \in Requests, CommitStatus(r) PROVE Trail!Next
  <2> DEFINE q == request[r]
             m == [by |-> q.by, from |-> q.seen, to |-> To(q.by)]
             h == log[q.acct]
  <2>1. q.acct \in Accounts /\ q.by \in Kinds /\ To(q.by) \in Statuses /\ q \in Handler /\ h \in Seq(Move)
    BY <1>0, <1>4, InFlight DEF CommitStatus
  <2>2. m \in Move /\ Done(m) = [by |-> q.by, to |-> To(q.by)]
    BY <2>1 DEF Move, Handler, Done
  <2>3. log' = [log EXCEPT ![q.acct] = Append(h, m)] /\ UNCHANGED events
    BY <1>4 DEF CommitStatus
  <2>4. status[q.acct] # "absent" /\ q.seen = status[q.acct] /\ q.seen \in From(q.by)
    BY <1>0, <1>4 DEF CommitStatus, Handlers, HandlerOK
  <2>5. h # <<>> /\ h[Len(h)].to = q.seen
    BY <1>0, <2>1, <2>4 DEF Rows, PathOK
  <2> HIDE DEF m
  <2>6. Moves(Append(h, m)) = Append(Moves(h), [by |-> q.by, to |-> To(q.by)])
    BY <2>1, <2>2, MovesAppend
  <2>7. after = [trail EXCEPT ![q.acct] = Append(@, [by |-> q.by, to |-> To(q.by)])]
    BY <1>0, <2>1, <2>3, <2>6 DEF TypeOK
  <2>8. <<q.seen, q.by, To(q.by)>> \in Trail!Legal
    BY <2>1, <2>4 DEF From, To, Kinds, Trail!Legal
  <2>9. Moves(h) # <<>> /\ Moves(h)[Len(Moves(h))].to = q.seen
    BY <2>1, <2>5, MovesFacts
  <2>10. Trail!Move(q.acct)
    <3>1. PICK edge \in Trail!Legal : edge = <<q.seen, q.by, To(q.by)>>
      BY <2>8
    <3>2. edge[1] = q.seen /\ edge[2] = q.by /\ edge[3] = To(q.by)
      BY <3>1
    <3>3. trail' = [trail EXCEPT ![q.acct] = Append(@, [by |-> edge[2], to |-> edge[3]])]
      BY <1>2, <2>7, <3>2
    <3> QED  BY <2>1, <2>3, <2>9, <3>1, <3>2, <3>3 DEF Trail!Move
  <2> QED  BY <2>1, <2>10 DEF Trail!Next
<1>5. ASSUME NEW r \in Requests, PublishCreated(r) PROVE Trail!Next
  <2>1. Telling(r) /\ request[r].at = 1
    BY <1>0, <1>5 DEF PublishCreated, Telling, Handlers, HandlerOK
  <2> QED  BY <1>5, <2>1, CreationIsMove, AnnounceStep DEF PublishCreated
<1>6. ASSUME NEW r \in Requests, PublishTransition(r) PROVE Trail!Next
  <2> DEFINE q == request[r]
             m == [by |-> q.by, from |-> q.seen, to |-> To(q.by)]
  <2>1. q.by \in Kinds /\ To(q.by) \in Statuses /\ q \in Handler
    BY <1>0, <1>6, InFlight DEF PublishTransition
  <2>2. m \in Move
    BY <2>1 DEF Move, Handler
  <2>3. Telling(r) /\ UNCHANGED log
    BY <1>6 DEF PublishTransition, Telling
  <2>4. events' = [events EXCEPT ![request[r].acct] = Append(@, [move |-> m, at |-> request[r].at])]
    BY <1>6 DEF PublishTransition
  <2> HIDE DEF m
  <2> QED  BY <2>2, <2>3, <2>4, AnnounceStep
<1> QED
  BY <1>1, <1>3, <1>4, <1>5, <1>6
     DEF Next, Arrive, Continue, vars, Register, Collide, MatchExisting,
         MovePhone, Transition, LockStatus, ReadStatus, Abort

\* Every behaviour of the handlers is one of the trail.
THEOREM TrailRefinement == Spec => ImplementsTrail
  BY TrailInit, TrailStep, Inductive, PTL DEF Spec, ImplementsTrail, Trail!Spec

-----------------------------------------------------------------------------
(* What other components see of an account.                                *)

\* One status is written.
LEMMA StandingWrite ==
    ASSUME TypeOK, NEW a \in Accounts, NEW s \in Statuses, status' = [status EXCEPT ![a] = s]
    PROVE  [b \in Accounts |-> StandingOf(status[b])]' =
              [[b \in Accounts |-> StandingOf(status[b])] EXCEPT ![a] = StandingOf(s)]
<1> DEFINE old == [b \in Accounts |-> StandingOf(status[b])]
           new == [b \in Accounts |-> StandingOf(status'[b])]
<1>1. \A b \in Accounts : status'[b] = IF b = a THEN s ELSE status[b]
  BY DEF TypeOK
<1>2. \A b \in Accounts : StandingOf(status'[b]) = IF b = a THEN StandingOf(s) ELSE StandingOf(status[b])
  BY <1>1
<1>3. new = [old EXCEPT ![a] = StandingOf(s)]
  BY <1>2
<1>4. old' = new
  BY DEF StandingOf
<1> QED  BY <1>3, <1>4

LEMMA StandingStep == IInv /\ [Next]_vars => [Standing!Next]_[a \in Accounts |-> StandingOf(status[a])]
<1> DEFINE now == [b \in Accounts |-> StandingOf(status[b])]
<1> SUFFICES ASSUME IInv, [Next]_vars PROVE Standing!Next \/ UNCHANGED now
  OBVIOUS
<1>0. TypeOK /\ Handlers
  BY DEF IInv
<1>1. ASSUME NEW r \in Requests, NEW a \in Accounts, Create(r, a) PROVE UNCHANGED now
  <2>1. status[a] = "absent" /\ status' = [status EXCEPT ![a] = "pending_onboarding"]
    BY <1>1 DEF Create
  <2>2. now' = [now EXCEPT ![a] = StandingOf("pending_onboarding")]
    BY <1>0, <2>1, StandingWrite DEF Statuses
  <2>3. StandingOf("pending_onboarding") = "pending" /\ now[a] = "pending"
    BY <2>1 DEF StandingOf
  <2> QED  BY <2>2, <2>3
<1>2. ASSUME NEW r \in Requests, CommitStatus(r) PROVE Standing!Next
  <2> PICK a : a = request[r].acct
    OBVIOUS
  <2> PICK by : by = request[r].by
    OBVIOUS
  <2>1. /\ a \in Accounts /\ by \in Kinds /\ status[a] \in From(by)
        /\ status' = [status EXCEPT ![a] = To(by)]
    BY <1>0, <1>2, InFlight DEF CommitStatus, Handlers, HandlerOK
  <2>2. To(by) \in Statuses
    BY DEF To, Statuses
  <2>3. now' = [now EXCEPT ![a] = StandingOf(To(by))]
    BY <1>0, <2>1, <2>2, StandingWrite
  <2>4. CASE by = "suspend"
    <3>1. now[a] = "active" /\ StandingOf(To(by)) = "frozen"
      BY <2>1, <2>4 DEF From, To, StandingOf
    <3>2. Standing!Freeze(a)
      BY <2>3, <3>1 DEF Standing!Freeze
    <3> QED  BY <2>1, <3>2 DEF Standing!Next
  <2>5. CASE by # "suspend"
    <3>1. now[a] # "active" /\ StandingOf(To(by)) = "active"
      BY <2>1, <2>5 DEF From, To, StandingOf, Kinds
    <3>2. Standing!Activate(a)
      BY <2>3, <3>1 DEF Standing!Activate
    <3> QED  BY <2>1, <3>2 DEF Standing!Next
  <2> QED  BY <2>4, <2>5
<1>3. ASSUME UNCHANGED status PROVE UNCHANGED now
  BY <1>3 DEF StandingOf
<1> QED
  BY <1>1, <1>2, <1>3
     DEF Next, Arrive, Continue, vars, Register, Collide, MatchExisting, PublishCreated,
         MovePhone, Transition, LockStatus, ReadStatus, PublishTransition, Abort

\* /activate, /suspend and /reactivate: whatever transitions meet at the lock,
\* an account is frozen from active and thawed from frozen, as those assume who
\* look at its status.
THEOREM StandingRefinement == Spec => KeepsStanding
<1>1. Init => Standing!Init
  BY DEF Init, StandingOf, Standing!Init
<1> QED  BY <1>1, StandingStep, Inductive, PTL DEF Spec, KeepsStanding, Standing!Spec

\* An account has no number before it is created.
Numberless == \A a \in Accounts : status[a] = "absent" => phone[a] = NoPhone

LEMMA NumberlessStep == IInv /\ Numberless /\ [Next]_vars => Numberless'
<1> SUFFICES ASSUME IInv, Numberless, [Next]_vars PROVE Numberless'
  OBVIOUS
<1>0. TypeOK
  BY DEF IInv
<1>1. ASSUME NEW a \in Accounts, NEW p \in Phones, MovePhone(a, p) PROVE Numberless'
  BY <1>0, <1>1 DEF MovePhone, Directory!Move, Numberless, TypeOK
<1>2. ASSUME NEW r \in Requests, NEW a \in Accounts, Create(r, a) PROVE Numberless'
  BY <1>0, <1>2 DEF Create, Numberless, TypeOK
<1>3. ASSUME NEW r \in Requests, CommitStatus(r) PROVE Numberless'
  <2>1. \A a \in Accounts : status'[a] = "absent" => status[a] = "absent"
    BY <1>0, <1>3, InFlight DEF CommitStatus, TypeOK, To
  <2> QED  BY <1>3, <2>1 DEF CommitStatus, Numberless
<1>4. CASE UNCHANGED <<status, phone>>
  BY <1>4 DEF Numberless
<1> QED
  BY <1>1, <1>2, <1>3, <1>4
     DEF Next, Arrive, Continue, vars, Register, Collide, MatchExisting, PublishCreated,
         Transition, LockStatus, ReadStatus, PublishTransition, Abort

LEMMA DirectoryStep ==
    ASSUME IInv, Numberless, [Next]_vars
    PROVE  \/ \E a \in Accounts, p \in Phones : Directory!Register(a, p) \/ Directory!Move(a, p)
           \/ UNCHANGED phone
<1>1. ASSUME NEW r \in Requests, NEW a \in Accounts, Create(r, a)
      PROVE  \E p \in Phones : Directory!Register(a, p)
  <2>1. request[r].phone \in Phones
    BY <1>1 DEF Create, IInv, TypeOK, RequestOK
  <2>2. Directory!Register(a, request[r].phone)
    BY <1>1 DEF Create, Numberless, Taken, Directory!Register, Directory!Free
  <2> QED  BY <2>1, <2>2
<1>2. ASSUME NEW a \in Accounts, NEW p \in Phones, MovePhone(a, p) PROVE Directory!Move(a, p)
  BY <1>2 DEF MovePhone
<1> QED
  BY <1>1, <1>2
     DEF Next, Arrive, Continue, vars, Register, Collide, MatchExisting, PublishCreated,
         Transition, LockStatus, ReadStatus, CommitStatus, PublishTransition, Abort

\* POST /v1/customers: a registration that wins its number is one of
\* PhoneDirectory, of a free number to an account that has none.
THEOREM RegistersInDirectory == Spec => NumbersFromDirectory
<1>1. Init => Numberless
  BY DEF Init, Numberless
<1>2. Spec => []Numberless
  BY <1>1, NumberlessStep, Inductive, PTL DEF Spec
<1>3. IInv /\ Numberless /\ [Next]_vars =>
        [\E a \in Accounts, p \in Phones : Directory!Register(a, p) \/ Directory!Move(a, p)]_phone
  BY DirectoryStep
<1> QED  BY <1>2, <1>3, Inductive, PTL DEF Spec, NumbersFromDirectory
=============================================================================
