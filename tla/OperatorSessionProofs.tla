----------------------- MODULE OperatorSessionProofs -----------------------
(***************************************************************************)
(* Theorems about OperatorSession, for any users, keys, challenges,        *)
(* handlers and bounds.  The tables say of each handler what it will write *)
(* by, since a key never changes its user, nor a challenge what it is for. *)
(***************************************************************************)
EXTENDS OperatorSession, TLAPS

Call == [stage : Stages, user : Users \cup {NoUser}, key : Keys \cup {NoKey},
         ch : Challenges \cup {NoChallenge}, seen : Nat]

OperatorRow == [status : Statuses, kind : OperatorKinds, attempts : Nat, user : Users \cup {NoUser}]

\* Handlers that are to insert a challenge, and those that verify an answer to one.
Making    == {"options", "keys", "challenge"}
Verifying == {"expire", "assert", "fail", "use", "consume", "mint"}

\* What the tables say of the request q that a handler works on.
CallOK(q) ==
    /\ q \in Call
    /\ q.stage \in Making =>
          q.user \in Users /\ q.ch \in Challenges /\ challenge[q.ch].status = "absent"
    /\ q.stage \in {"enrol", "enrolled"} => q.user \in Users /\ q.key \in Keys
    /\ q.stage = "enrolled" => credential[q.key].user = q.user
    /\ q.stage \in Verifying =>
          /\ q.ch \in Challenges /\ q.key \in Keys /\ q.user \in Users
          /\ challenge[q.ch].status # "absent"
          /\ challenge[q.ch].kind = "operator" /\ challenge[q.ch].user = q.user
    /\ q.stage \in {"use", "consume", "mint"} =>
          credential[q.key].user = q.user /\ <<q.ch, q.key>> \in shown
    /\ q.stage = "use" =>
          q.seen <= uses[q.key] /\ (q.key \notin crossed => q.seen = credential[q.key].counter)
    /\ q.stage = "mint" => challenge[q.ch].status \in Closed

RowTypes ==
    /\ user \in [Users -> [status : {"absent", "active", "disabled"}, email : Emails \cup {NoEmail}]]
    /\ credential \in [Keys -> [user : Users \cup {NoUser}, counter : Nat]]
    /\ challenge \in [Challenges -> OperatorRow]
    /\ elapsed \in SUBSET Challenges
    /\ token \in SUBSET Challenges
    /\ enrolled \in SUBSET (Users \X Keys)
    /\ shown \in SUBSET (Challenges \X Keys)
    /\ uses \in [Keys -> Nat]
    /\ crossed \in SUBSET Keys

\* Unregistered keys are unused, and challenges that were made name a user.
RowFacts ==
    /\ \A c \in Challenges : challenge[c].status # "absent" => challenge[c].user \in Users
    /\ \A k \in Keys : credential[k].user = NoUser => uses[k] = 0

\* Two handlers neither make one challenge, nor use one key unless it is crossed.
Apart ==
    \A r, s \in Requests : r # s =>
        /\ ~(request[r].stage \in Making /\ request[s].stage \in Making /\ request[r].ch = request[s].ch)
        /\ request[r].stage = "use" /\ request[s].stage = "use" /\ request[r].key = request[s].key
              => request[r].key \in crossed

CallsOK == request \in [Requests -> Call] /\ \A r \in Requests : CallOK(request[r])

IInv == RowTypes /\ RowFacts /\ CallsOK /\ Apart /\ EnrolledOnce /\ TokenRestsOnKey /\ CounterTellsUses

USE DEF At, Set, Go, Finish

-----------------------------------------------------------------------------
(* Rows of challenges.                                                     *)

\* A row w may replace the row v of a challenge that was made.
Rewrites(v, w) ==
    /\ w \in OperatorRow /\ w.status # "absent" /\ w.kind = v.kind /\ w.user = v.user
    /\ v.status \in Closed => w.status \in Closed

\* recordAttempt keeps what a row is for and whose it is, and reopens nothing.
LEMMA RecordRewrites ==
    ASSUME NEW v \in OperatorRow, v.status # "absent", NEW s \in Statuses, s # "absent",
           NEW inc \in BOOLEAN
    PROVE  /\ Rewrites(v, RecordAttempt(v, s, inc))
           /\ s \in Closed => RecordAttempt(v, s, inc).status \in Closed
<1> DEFINE n == IF inc THEN v.attempts + 1 ELSE v.attempts
           w == [v EXCEPT !.status = s, !.attempts = n]
<1>1. n \in Nat
  BY DEF OperatorRow
<1> HIDE DEF n
<1>2. w \in OperatorRow /\ w.status = s /\ w.kind = v.kind /\ w.user = v.user
  BY <1>1 DEF OperatorRow
<1> HIDE DEF w
<1>3. CASE v.status = "pending"
  <2>1. RecordAttempt(v, s, inc) = w
    BY <1>3 DEF RecordAttempt, w, n
  <2> QED  BY <1>2, <1>3, <2>1 DEF Rewrites, Closed
<1>4. CASE v.status # "pending"
  <2>1. RecordAttempt(v, s, inc) = v
    BY <1>4 DEF RecordAttempt
  <2>2. v.status \in Closed
    BY <1>4 DEF OperatorRow, Statuses, Closed
  <2> QED  BY <2>1, <2>2 DEF Rewrites
<1> QED  BY <1>3, <1>4

LEMMA WrongRewrites ==
    ASSUME NEW v \in OperatorRow, v.status # "absent", NEW seen \in Nat
    PROVE  Rewrites(v, AfterWrong(v, seen))
<1> DEFINE s == IF seen + 1 >= MaxOtpAttempts THEN "failed" ELSE "pending"
<1>1. AfterWrong(v, seen) = RecordAttempt(v, s, TRUE)
  BY DEF AfterWrong
<1>2. s \in Statuses /\ s # "absent"
  BY DEF Statuses
<1> HIDE DEF s
<1> QED  BY <1>1, <1>2, RecordRewrites

-----------------------------------------------------------------------------
(* The steps of a handler, by the tables they write.                       *)

\* What the move of r to q must satisfy for handlers to stay apart.
MoveApart(r, q) ==
    \A s \in Requests \ {r} :
        /\ q.stage \in Making => ~(request[s].stage \in Making /\ request[s].ch = q.ch)
        /\ q.stage = "use" /\ request[s].stage = "use" /\ request[s].key = q.key => q.key \in crossed'

\* Handlers other than r are as they were; with r in order all are.
LEMMA Moved ==
    ASSUME IInv, NEW r \in Requests, NEW q, request' = [request EXCEPT ![r] = q],
           crossed \subseteq crossed', MoveApart(r, q), CallOK(request[r])',
           \A s \in Requests \ {r} : CallOK(request[s])'
    PROVE  CallsOK' /\ Apart' /\ request'[r] = q
<1>1. request'[r] = q /\ \A s \in Requests : s # r => request'[s] = request[s]
  BY DEF IInv, CallsOK
<1>2. \A s \in Requests : CallOK(request[s])'
  BY <1>1
<1>3. request' \in [Requests -> Call]
  <2>1. q \in Call
    BY <1>1 DEF CallOK
  <2> QED  BY <2>1 DEF IInv, CallsOK
<1>4. CallsOK'
  BY <1>2, <1>3 DEF CallsOK
<1>5. Apart'
  <2> SUFFICES ASSUME NEW a \in Requests, NEW b \in Requests, a # b
               PROVE  /\ ~(request'[a].stage \in Making /\ request'[b].stage \in Making /\ request'[a].ch = request'[b].ch)
                      /\ request'[a].stage = "use" /\ request'[b].stage = "use" /\ request'[a].key = request'[b].key
                            => request'[a].key \in crossed'
    BY DEF Apart
  <2>1. CASE a = r
    BY <1>1, <2>1 DEF MoveApart
  <2>2. CASE b = r
    BY <1>1, <2>2 DEF MoveApart
  <2>3. CASE a # r /\ b # r
    BY <1>1, <2>3 DEF IInv, Apart
  <2> QED  BY <2>1, <2>2, <2>3
<1> QED  BY <1>1, <1>4, <1>5

\* The tables that invariants speak of stay as they are.
LEMMA CallMoves ==
    ASSUME IInv, NEW r \in Requests, NEW q, request' = [request EXCEPT ![r] = q],
           CallOK(q), MoveApart(r, q),
           user' \in [Users -> [status : {"absent", "active", "disabled"}, email : Emails \cup {NoEmail}]],
           elapsed' \in SUBSET Challenges,
           UNCHANGED <<credential, challenge, token, history>>
    PROVE  IInv'
<1> USE DEF history
<1>1. \A s \in Requests : request'[s] = (IF s = r THEN q ELSE request[s])
  BY DEF IInv, CallsOK
<1>2. \A s \in Requests : CallOK(request[s])'
  BY <1>1 DEF IInv, CallsOK, CallOK
<1>3. CallsOK' /\ Apart'
  BY <1>2, Moved
<1> QED
  BY <1>3 DEF IInv, RowTypes, RowFacts, EnrolledOnce, TokenRestsOnKey, CounterTellsUses

LEMMA IdleOK == CallOK(Idle)
  BY DEF CallOK, Idle, Call, Stages, Making, Verifying

\* A handler that ends, whatever it was at.
LEMMA Ends ==
    ASSUME IInv, NEW r \in Requests, Finish(r), UNCHANGED <<user, credential, challenge, elapsed, token, history>>
    PROVE  IInv'
<1>1. user' = user /\ elapsed' = elapsed /\ MoveApart(r, Idle)
  BY DEF MoveApart, Idle, Making
<1> QED  BY <1>1, IdleOK, CallMoves DEF IInv, RowTypes

\* A handler that makes a challenge, or rewrites one.
LEMMA ChallengeMoves ==
    ASSUME IInv, NEW r \in Requests, NEW q \in Call, request' = [request EXCEPT ![r] = q],
           NEW c \in Challenges, NEW w \in OperatorRow, challenge' = [challenge EXCEPT ![c] = w],
           w.status # "absent", w.user \in Users,
           \/ /\ challenge[c].status = "absent"
              /\ \A s \in Requests \ {r} : ~(request[s].stage \in Making /\ request[s].ch = c)
           \/ challenge[c].status # "absent" /\ Rewrites(challenge[c], w),
           \/ q.stage = "idle"
           \/ /\ q.stage = "mint" /\ q.ch = c /\ w.status \in Closed /\ challenge[c].status # "absent"
              /\ request[r].stage = "consume" /\ request[r].ch = c
              /\ q.user = request[r].user /\ q.key = request[r].key,
           UNCHANGED <<user, credential, elapsed, token, history>>
    PROVE  IInv'
<1> USE DEF history
<1>1. /\ challenge' \in [Challenges -> OperatorRow] /\ challenge'[c] = w
      /\ \A d \in Challenges : d # c => challenge'[d] = challenge[d]
  BY DEF IInv, RowTypes
<1>2. RowTypes' /\ RowFacts'
  BY <1>1 DEF IInv, RowTypes, RowFacts
<1>3. EnrolledOnce' /\ CounterTellsUses'
  BY DEF IInv, EnrolledOnce, CounterTellsUses
<1>4. TokenRestsOnKey'
  <2> SUFFICES ASSUME NEW d \in token
               PROVE  /\ challenge'[d].kind = "operator" /\ challenge'[d].status \in Closed
                      /\ \E k \in Keys : <<d, k>> \in shown /\ credential[k].user = challenge'[d].user
    BY DEF TokenRestsOnKey
  <2>1. /\ challenge[d].kind = "operator" /\ challenge[d].status \in Closed /\ d \in Challenges
        /\ \E k \in Keys : <<d, k>> \in shown /\ credential[k].user = challenge[d].user
    BY DEF IInv, RowTypes, TokenRestsOnKey
  <2>2. CASE d = c
    BY <1>1, <2>1, <2>2 DEF Closed, Rewrites
  <2>3. CASE d # c
    BY <1>1, <2>1, <2>3
  <2> QED  BY <2>2, <2>3
<1>5. ASSUME NEW s \in Requests \ {r} PROVE CallOK(request[s])'
  <2>1. request'[s] = request[s] /\ CallOK(request[s])
    BY DEF IInv, CallsOK
  <2> DEFINE p == request[s]
  <2>2. p.stage \in Making => p.ch \in Challenges /\ p.ch # c
    BY <2>1 DEF CallOK
  <2>3. p.stage \in Verifying /\ p.ch = c => Rewrites(challenge[c], w)
    BY <2>1 DEF CallOK
  <2>4. p.stage \in Making => challenge'[p.ch].status = "absent"
    BY <1>1, <2>1, <2>2 DEF CallOK
  <2>5. p.stage \in Verifying =>
            /\ challenge'[p.ch].status # "absent"
            /\ challenge'[p.ch].kind = "operator" /\ challenge'[p.ch].user = p.user
    BY <1>1, <2>1, <2>3 DEF CallOK, Rewrites
  <2>6. p.stage = "mint" => challenge'[p.ch].status \in Closed
    BY <1>1, <2>1, <2>3 DEF CallOK, Rewrites, Verifying
  <2> QED  BY <2>1, <2>4, <2>5, <2>6 DEF CallOK
<1>6. request'[r] = q
  BY DEF IInv, CallsOK
<1>7. CallOK(request[r])'
  <2>1. CASE q.stage = "idle"
    BY <1>6, <2>1 DEF CallOK, Making, Verifying
  <2>2. CASE q.stage = "mint"
    <3>1. CallOK(request[r]) /\ request[r].stage = "consume"
      BY <2>2 DEF IInv, CallsOK
    <3>2. /\ q.key \in Keys /\ q.user \in Users /\ challenge[c].kind = "operator" /\ challenge[c].user = q.user
          /\ credential[q.key].user = q.user /\ <<q.ch, q.key>> \in shown
      BY <2>2, <3>1 DEF CallOK, Verifying
    <3> QED  BY <1>1, <1>6, <2>2, <3>2 DEF CallOK, Making, Verifying, Rewrites
  <2> QED  BY <2>1, <2>2
<1>8. MoveApart(r, q) /\ crossed' = crossed
  BY DEF MoveApart, Making
<1>9. CallsOK' /\ Apart'
  BY <1>5, <1>7, <1>8, Moved
<1> QED  BY <1>2, <1>3, <1>4, <1>9 DEF IInv

\* POST .../webauthn/register stores a key that nobody had.
LEMMA EnrolStep == ASSUME IInv, NEW r \in Requests, Enrol(r) PROVE IInv'
<1> USE DEF history
<1> DEFINE k == request[r].key
           u == request[r].user
           q == [request[r] EXCEPT !.stage = "enrolled"]
<1>0. /\ k \in Keys /\ u \in Users /\ request[r] \in Call
      /\ request' = [request EXCEPT ![r] = q]
      /\ q \in Call /\ q.stage = "enrolled" /\ q.key = k /\ q.user = u
  BY DEF Enrol, IInv, CallsOK, CallOK, Call, Stages
<1>1. /\ credential' = [credential EXCEPT ![k] = [user |-> u, counter |-> 0]]
      /\ credential[k].user = NoUser /\ uses[k] = 0
      /\ UNCHANGED <<user, challenge, elapsed, token, enrolled, shown, uses, crossed>>
  BY <1>0 DEF Enrol, Unregistered, IInv, RowFacts
<1> HIDE DEF k, u, q
<1>2. /\ credential' \in [Keys -> [user : Users \cup {NoUser}, counter : Nat]]
      /\ credential'[k].user = u /\ credential'[k].counter = 0
      /\ \A l \in Keys : l # k => credential'[l] = credential[l]
      /\ \A l \in Keys : credential[l].user \in Users => l # k
  BY <1>0, <1>1, OperatorAssumption DEF IInv, RowTypes
<1>3. RowTypes' /\ RowFacts'
  BY <1>0, <1>1, <1>2, OperatorAssumption DEF IInv, RowTypes, RowFacts
<1>4. EnrolledOnce'
  <2> SUFFICES ASSUME NEW e \in enrolled PROVE credential'[e[2]].user = e[1]
    BY <1>1 DEF EnrolledOnce
  <2>1. e[1] \in Users /\ e[2] \in Keys /\ credential[e[2]].user = e[1]
    BY DEF IInv, RowTypes, EnrolledOnce
  <2> QED  BY <1>2, <2>1
<1>5. TokenRestsOnKey'
  <2> SUFFICES ASSUME NEW c \in token
               PROVE  /\ challenge[c].kind = "operator" /\ challenge[c].status \in Closed
                      /\ \E l \in Keys : <<c, l>> \in shown /\ credential'[l].user = challenge[c].user
    BY <1>1 DEF TokenRestsOnKey
  <2>1. challenge[c].kind = "operator" /\ challenge[c].status \in Closed /\ c \in Challenges
    BY DEF IInv, RowTypes, TokenRestsOnKey
  <2>2. challenge[c].user \in Users
    BY <2>1 DEF IInv, RowFacts, Closed
  <2>3. PICK l \in Keys : <<c, l>> \in shown /\ credential[l].user = challenge[c].user
    BY DEF IInv, TokenRestsOnKey
  <2> QED  BY <1>2, <2>1, <2>2, <2>3
<1>6. CounterTellsUses'
  BY <1>1, <1>2 DEF IInv, CounterTellsUses
<1>7. ASSUME NEW s \in Requests \ {r} PROVE CallOK(request[s])'
  <2>1. request'[s] = request[s] /\ CallOK(request[s])
    BY <1>0 DEF IInv, CallsOK
  <2> DEFINE p == request[s]
  <2>2. p.stage \in {"enrolled", "use", "consume", "mint"} =>
          p.key \in Keys /\ p.user \in Users /\ credential[p.key].user = p.user
    BY <2>1 DEF CallOK, Verifying
  <2>3. p.stage \in {"enrolled", "use", "consume", "mint"} => credential'[p.key] = credential[p.key]
    BY <1>2, <2>2
  <2> QED  BY <1>1, <2>1, <2>3 DEF CallOK
<1>8. CallOK(request[r])'
  <2>1. request'[r] = q
    BY <1>0 DEF IInv, CallsOK
  <2> QED  BY <1>0, <1>2, <2>1 DEF CallOK, Making, Verifying
<1>9. MoveApart(r, q) /\ crossed' = crossed
  BY <1>0, <1>1 DEF MoveApart, Making
<1>10. CallsOK' /\ Apart'
  BY <1>0, <1>7, <1>8, <1>9, Moved
<1> QED  BY <1>3, <1>4, <1>5, <1>6, <1>10 DEF IInv

\* POST /v1/stepup/verify reads the counter of the key that answered.
LEMMA AcceptStep == ASSUME IInv, NEW r \in Requests, AcceptKey(r) PROVE IInv'
<1> DEFINE k == request[r].key
           c == request[r].ch
           q == [request[r] EXCEPT !.stage = "use", !.seen = credential[k].counter]
<1>0. /\ k \in Keys /\ c \in Challenges /\ request[r].user \in Users /\ request[r] \in Call
      /\ challenge[c].status # "absent" /\ challenge[c].kind = "operator" /\ challenge[c].user = request[r].user
      /\ credential[k].user = request[r].user /\ credential[k].counter \in Nat
  BY DEF AcceptKey, IInv, CallsOK, CallOK, Verifying, RowTypes
<1>1. /\ q \in Call /\ q.stage = "use" /\ q.key = k /\ q.ch = c /\ q.user = request[r].user
      /\ q.seen = credential[k].counter
  BY <1>0 DEF Call, Stages
<1>2. /\ request' = [request EXCEPT ![r] = q]
      /\ shown' = shown \cup {<<c, k>>}
      /\ crossed' = IF Crossing(r) THEN crossed \cup {k} ELSE crossed
      /\ UNCHANGED <<user, credential, challenge, elapsed, token, enrolled, uses>>
  BY DEF AcceptKey, Accept
<1>3. \A s \in Requests \ {r} : request[s].stage = "use" /\ request[s].key = k => k \in crossed'
  BY <1>2 DEF Crossing
<1>4. crossed \subseteq crossed' /\ crossed' \in SUBSET Keys
  BY <1>0, <1>2 DEF IInv, RowTypes
<1> HIDE DEF q, k, c
<1>5. RowTypes' /\ RowFacts'
  BY <1>0, <1>2, <1>4 DEF IInv, RowTypes, RowFacts
<1>6. EnrolledOnce' /\ TokenRestsOnKey'
  BY <1>2 DEF IInv, EnrolledOnce, TokenRestsOnKey
<1>7. CounterTellsUses'
  BY <1>2, <1>4 DEF IInv, CounterTellsUses
<1>8. ASSUME NEW s \in Requests \ {r} PROVE CallOK(request[s])'
  <2>1. request'[s] = request[s] /\ CallOK(request[s])
    BY <1>2 DEF IInv, CallsOK
  <2> QED  BY <1>2, <1>4, <2>1 DEF CallOK
<1>9. CallOK(request[r])'
  <2>1. request'[r] = q
    BY <1>2 DEF IInv, CallsOK
  <2>2. q.seen <= uses[k]
    BY <1>0, <1>1 DEF IInv, CounterTellsUses
  <2> QED  BY <1>0, <1>1, <1>2, <2>1, <2>2 DEF CallOK, Making, Verifying
<1>10. MoveApart(r, q)
  BY <1>1, <1>3 DEF MoveApart, Making
<1>11. CallsOK' /\ Apart'
  BY <1>2, <1>4, <1>8, <1>9, <1>10, Moved
<1> QED  BY <1>5, <1>6, <1>7, <1>11 DEF IInv

\* recordUse writes back what was read, and one more.
LEMMA UseStep == ASSUME IInv, NEW r \in Requests, RecordUse(r) PROVE IInv'
<1> USE DEF history
<1> DEFINE k == request[r].key
           n == request[r].seen + 1
           q == [request[r] EXCEPT !.stage = "consume"]
<1>0. /\ k \in Keys /\ request[r].user \in Users /\ request[r] \in Call /\ n \in Nat /\ n > 0
      /\ CallOK(request[r]) /\ request[r].stage = "use"
      /\ credential[k].user = request[r].user /\ uses[k] \in Nat /\ n <= uses[k] + 1
      /\ k \notin crossed => n = credential[k].counter + 1
  BY DEF RecordUse, IInv, CallsOK, CallOK, Verifying, RowTypes, Call
<1>1. /\ request' = [request EXCEPT ![r] = q]
      /\ q \in Call /\ q.stage = "consume" /\ q.key = k /\ q.ch = request[r].ch /\ q.user = request[r].user
      /\ credential' = [credential EXCEPT ![k].counter = n]
      /\ uses' = [uses EXCEPT ![k] = @ + 1]
      /\ UNCHANGED <<user, challenge, elapsed, token, enrolled, shown, crossed>>
  BY <1>0 DEF RecordUse, IInv, CallsOK, Call, Stages
<1> HIDE DEF n, k, q
<1>2. /\ credential' \in [Keys -> [user : Users \cup {NoUser}, counter : Nat]]
      /\ credential'[k].counter = n
      /\ \A l \in Keys : credential'[l].user = credential[l].user
      /\ \A l \in Keys : l # k => credential'[l] = credential[l]
  BY <1>0, <1>1 DEF IInv, RowTypes
<1>3. /\ uses' \in [Keys -> Nat] /\ uses'[k] = uses[k] + 1
      /\ \A l \in Keys : l # k => uses'[l] = uses[l]
  BY <1>0, <1>1 DEF IInv, RowTypes
<1>4. RowTypes' /\ RowFacts'
  <2>1. RowTypes'
    BY <1>1, <1>2, <1>3 DEF IInv, RowTypes
  <2>2. RowFacts'
    BY <1>0, <1>1, <1>2, <1>3, OperatorAssumption DEF IInv, RowFacts
  <2> QED  BY <2>1, <2>2
<1>5. EnrolledOnce' /\ TokenRestsOnKey'
  <2>1. enrolled \subseteq Users \X Keys
    BY DEF IInv, RowTypes
  <2>2. EnrolledOnce'
    BY <1>1, <1>2, <2>1 DEF IInv, EnrolledOnce
  <2>3. \A c \in token : \E l \in Keys : <<c, l>> \in shown /\ credential'[l].user = challenge[c].user
    <3> SUFFICES ASSUME NEW c \in token
                 PROVE  \E l \in Keys : <<c, l>> \in shown /\ credential'[l].user = challenge[c].user
      OBVIOUS
    <3>1. PICK l \in Keys : <<c, l>> \in shown /\ credential[l].user = challenge[c].user
      BY DEF IInv, TokenRestsOnKey
    <3> QED  BY <1>2, <3>1
  <2>4. TokenRestsOnKey'
    BY <1>1, <2>3 DEF IInv, TokenRestsOnKey
  <2> QED  BY <2>2, <2>4
<1>6. CounterTellsUses'
  <2> SUFFICES ASSUME NEW l \in Keys
               PROVE  /\ credential'[l].counter <= uses'[l]
                      /\ uses'[l] > 0 => credential'[l].counter > 0
                      /\ l \notin crossed => credential'[l].counter = uses'[l]
    BY <1>1 DEF CounterTellsUses
  <2>1. l \notin crossed => credential[l].counter = uses[l]
    BY DEF IInv, CounterTellsUses
  <2>2. CASE l = k
    BY <1>0, <1>2, <1>3, <2>1, <2>2
  <2>3. CASE l # k
    BY <1>2, <1>3, <2>3 DEF IInv, CounterTellsUses
  <2> QED  BY <2>2, <2>3
<1>7. ASSUME NEW s \in Requests \ {r} PROVE CallOK(request[s])'
  <2>1. request'[s] = request[s] /\ CallOK(request[s])
    BY <1>1 DEF IInv, CallsOK
  <2> DEFINE p == request[s]
  <2>2. p.stage = "use" /\ p.key = k => k \in crossed
    BY <1>0 DEF IInv, Apart, k
  <2>3. p.stage \in Verifying \cup {"enrolled"} => p.key \in Keys
    BY <2>1 DEF CallOK
  <2>4. p.stage = "use" =>
          /\ p.seen <= uses'[p.key]
          /\ p.key \notin crossed => p.seen = credential'[p.key].counter
    <3>1. p.stage = "use" => p.key \in Keys /\ p.seen \in Nat /\ uses[p.key] \in Nat /\ p.seen <= uses[p.key]
      BY <2>1, <2>3 DEF CallOK, Call, IInv, RowTypes, Verifying
    <3>2. CASE p.key = k
      BY <1>3, <2>2, <3>1, <3>2
    <3>3. CASE p.key # k
      BY <1>2, <1>3, <2>1, <3>1, <3>3 DEF CallOK
    <3> QED  BY <3>2, <3>3
  <2>5. p.stage \in {"enrolled", "use", "consume", "mint"} => credential'[p.key].user = p.user
    BY <1>2, <2>1, <2>3 DEF CallOK, Verifying
  <2> QED  BY <1>1, <2>1, <2>4, <2>5 DEF CallOK
<1>8. CallOK(request[r])'
  <2>1. request'[r] = q
    BY <1>1 DEF IInv, CallsOK
  <2>2. /\ q.ch \in Challenges /\ challenge[q.ch].status # "absent" /\ challenge[q.ch].kind = "operator"
        /\ challenge[q.ch].user = q.user /\ <<q.ch, q.key>> \in shown
    BY <1>0, <1>1 DEF CallOK, Verifying, k
  <2> QED  BY <1>0, <1>1, <1>2, <2>1, <2>2 DEF CallOK, Making, Verifying
<1>9. MoveApart(r, q) /\ crossed' = crossed
  BY <1>1 DEF MoveApart, Making
<1>10. CallsOK' /\ Apart'
  BY <1>1, <1>7, <1>8, <1>9, Moved
<1> QED  BY <1>4, <1>5, <1>6, <1>10 DEF IInv

\* The insert of step_up_tokens, for a challenge that is closed.
LEMMA TokenStep == ASSUME IInv, NEW r \in Requests, CreateToken(r) PROVE IInv'
<1> USE DEF history
<1> DEFINE c == request[r].ch
<1>1. /\ c \in Challenges /\ challenge[c].kind = "operator" /\ challenge[c].status \in Closed
      /\ \E k \in Keys : <<c, k>> \in shown /\ credential[k].user = challenge[c].user
  <2>1. CallOK(request[r]) /\ request[r].stage = "mint"
    BY DEF CreateToken, IInv, CallsOK
  <2> QED  BY <2>1 DEF CallOK, Verifying
<1>2. /\ request' = [request EXCEPT ![r] = Idle] /\ token' = token \cup {c}
      /\ UNCHANGED <<user, credential, challenge, elapsed, enrolled, shown, uses, crossed>>
  BY DEF CreateToken
<1> HIDE DEF c
<1>3. RowTypes' /\ RowFacts' /\ EnrolledOnce' /\ CounterTellsUses'
  BY <1>1, <1>2 DEF IInv, RowTypes, RowFacts, EnrolledOnce, CounterTellsUses
<1>4. TokenRestsOnKey'
  BY <1>1, <1>2 DEF IInv, TokenRestsOnKey
<1>5. \A s \in Requests : request'[s] = (IF s = r THEN Idle ELSE request[s])
  BY <1>2 DEF IInv, CallsOK
<1>6. \A s \in Requests : CallOK(request[s])'
  BY <1>2, <1>5, IdleOK DEF IInv, CallsOK, CallOK
<1>7. MoveApart(r, Idle)
  BY DEF MoveApart, Idle, Making
<1>8. CallsOK' /\ Apart'
  BY <1>2, <1>6, <1>7, Moved
<1> QED  BY <1>3, <1>4, <1>8 DEF IInv

\* The audit row and 201 of a registration.
LEMMA ReplyStep == ASSUME IInv, NEW r \in Requests, ReplyEnrolled(r) PROVE IInv'
<1> DEFINE e == <<request[r].user, request[r].key>>
<1>1. e \in Users \X Keys /\ credential[e[2]].user = e[1]
  BY DEF ReplyEnrolled, IInv, CallsOK, CallOK
<1>2. /\ request' = [request EXCEPT ![r] = Idle] /\ enrolled' = enrolled \cup {e}
      /\ UNCHANGED <<user, credential, challenge, elapsed, token, shown, uses, crossed>>
  BY DEF ReplyEnrolled
<1> HIDE DEF e
<1>3. RowTypes' /\ RowFacts' /\ TokenRestsOnKey' /\ CounterTellsUses'
  BY <1>1, <1>2 DEF IInv, RowTypes, RowFacts, TokenRestsOnKey, CounterTellsUses
<1>4. EnrolledOnce'
  BY <1>1, <1>2 DEF IInv, EnrolledOnce
<1>5. \A s \in Requests : request'[s] = (IF s = r THEN Idle ELSE request[s])
  BY <1>2 DEF IInv, CallsOK
<1>6. \A s \in Requests : CallOK(request[s])'
  BY <1>2, <1>5, IdleOK DEF IInv, CallsOK, CallOK
<1>7. MoveApart(r, Idle)
  BY DEF MoveApart, Idle, Making
<1>8. CallsOK' /\ Apart'
  BY <1>2, <1>6, <1>7, Moved
<1> QED  BY <1>3, <1>4, <1>8 DEF IInv

\* Users and the clock.
LEMMA OutsideStep ==
    ASSUME IInv, UNCHANGED <<credential, challenge, token, request, history>>,
           user' \in [Users -> [status : {"absent", "active", "disabled"}, email : Emails \cup {NoEmail}]],
           elapsed' \in SUBSET Challenges
    PROVE  IInv'
<1> USE DEF history
<1>1. \A r \in Requests : CallOK(request[r])'
  BY DEF IInv, CallsOK, CallOK
<1>2. CallsOK' /\ Apart'
  BY <1>1 DEF IInv, CallsOK, Apart
<1> QED  BY <1>2 DEF IInv, RowTypes, RowFacts, EnrolledOnce, TokenRestsOnKey, CounterTellsUses

-----------------------------------------------------------------------------
LEMMA InitInv == Init => IInv
<1> SUFFICES ASSUME Init PROVE IInv
  OBVIOUS
<1>1. RowTypes
  BY DEF Init, RowTypes, Unregistered, Unmade, OperatorRow, OperatorKinds, Statuses
<1>2. RowFacts /\ EnrolledOnce /\ TokenRestsOnKey /\ CounterTellsUses
  BY DEF Init, RowFacts, EnrolledOnce, TokenRestsOnKey, CounterTellsUses, Unregistered, Unmade
<1>3. CallsOK /\ Apart
  BY IdleOK DEF Init, CallsOK, Apart, CallOK, Idle, Making
<1> QED  BY <1>1, <1>2, <1>3 DEF IInv

\* A handler that begins.
LEMMA BeginStep ==
    ASSUME IInv, NEW r \in Requests, 
           \/ \E u \in Users, c \in Challenges : AskOptions(r, u, c) \/ AskStepUp(r, u, c)
           \/ \E u \in Users, k \in Keys : AskRegister(r, u, k)
           \/ \E c \in Challenges, k \in Keys : Present(r, c, k)
    PROVE  IInv'
<1> USE DEF history
<1>0. user' = user /\ elapsed' = elapsed /\ UNCHANGED <<credential, challenge, token, history>> /\ RowTypes
  BY DEF AskOptions, AskStepUp, AskRegister, Present, IInv
<1>1. ASSUME NEW u \in Users, NEW c \in Challenges, AskOptions(r, u, c) \/ AskStepUp(r, u, c) PROVE IInv'
  <2>1. PICK s \in {"options", "keys"} :
          request' = [request EXCEPT ![r] = [Idle EXCEPT !.stage = s, !.user = u, !.ch = c]]
    BY <1>1 DEF AskOptions, AskStepUp
  <2> DEFINE q == [Idle EXCEPT !.stage = s, !.user = u, !.ch = c]
  <2>2. challenge[c].status = "absent" /\ \A a \in Requests : request[a].ch # c
    <3>1. Fresh(c)
      BY <1>1 DEF AskOptions, AskStepUp
    <3> QED  BY <3>1 DEF Fresh, Unmade
  <2>3. CallOK(q) /\ MoveApart(r, q)
    BY <2>2 DEF CallOK, MoveApart, Idle, Call, Stages, Making, Verifying
  <2> HIDE DEF q
  <2> QED  BY <1>0, <2>1, <2>3, CallMoves DEF RowTypes, q
<1>2. ASSUME NEW u \in Users, NEW k \in Keys, AskRegister(r, u, k) PROVE IInv'
  <2> DEFINE q == [Idle EXCEPT !.stage = "enrol", !.user = u, !.key = k]
  <2>1. CallOK(q) /\ MoveApart(r, q)
    BY DEF CallOK, MoveApart, Idle, Call, Stages, Making, Verifying
  <2>2. request' = [request EXCEPT ![r] = q]
    BY <1>2 DEF AskRegister
  <2> HIDE DEF q
  <2> QED  BY <1>0, <2>1, <2>2, CallMoves DEF RowTypes
<1>3. ASSUME NEW c \in Challenges, NEW k \in Keys, Present(r, c, k) PROVE IInv'
  <2> DEFINE q == [stage |-> IF c \in elapsed THEN "expire" ELSE "assert",
                   user |-> challenge[c].user, key |-> k, ch |-> c, seen |-> challenge[c].attempts]
  <2>1. /\ challenge[c].user \in Users /\ challenge[c].status = "pending" /\ challenge[c].kind = "operator"
        /\ challenge[c].attempts \in Nat
    BY <1>3 DEF Present, IInv, RowFacts, RowTypes, OperatorRow
  <2>2. CallOK(q) /\ MoveApart(r, q)
    BY <2>1 DEF CallOK, MoveApart, Call, Stages, Making, Verifying
  <2>3. request' = [request EXCEPT ![r] = q]
    BY <1>3 DEF Present
  <2> HIDE DEF q
  <2> QED  BY <1>0, <2>2, <2>3, CallMoves DEF RowTypes
<1> QED  BY <1>1, <1>2, <1>3

\* A handler that goes on to a stage s and writes no table.
LEMMA GoStep ==
    ASSUME IInv, NEW r \in Requests,
           \/ request[r].stage = "keys" /\ Go(r, "challenge")
           \/ request[r].stage = "assert" /\ Go(r, "fail"),
           UNCHANGED <<user, credential, challenge, elapsed, token, history>>
    PROVE  IInv'
<1>0. request \in [Requests -> Call] /\ CallOK(request[r]) /\ request[r] \in Call /\ RowTypes
  BY DEF IInv, CallsOK
<1>1. user' = user /\ elapsed' = elapsed
  OBVIOUS
<1>2. CASE request[r].stage = "keys" /\ Go(r, "challenge")
  <2> DEFINE q == [request[r] EXCEPT !.stage = "challenge"]
  <2>1. request' = [request EXCEPT ![r] = q]
    BY <1>0, <1>2
  <2>2. CallOK(q)
    BY <1>0, <1>2 DEF CallOK, Call, Stages, Making, Verifying
  <2>3. q.stage = "challenge" /\ q.ch = request[r].ch
    BY <1>0 DEF Call
  <2>4. MoveApart(r, q)
    BY <1>2, <2>3 DEF MoveApart, Making, IInv, Apart
  <2> HIDE DEF q
  <2> QED  BY <1>0, <1>1, <2>1, <2>2, <2>4, CallMoves DEF RowTypes
<1>3. CASE request[r].stage = "assert" /\ Go(r, "fail")
  <2> DEFINE q == [request[r] EXCEPT !.stage = "fail"]
  <2>1. request' = [request EXCEPT ![r] = q]
    BY <1>0, <1>3
  <2>2. CallOK(q)
    BY <1>0, <1>3 DEF CallOK, Call, Stages, Making, Verifying
  <2>3. MoveApart(r, q)
    BY <1>0 DEF MoveApart, Making, Call
  <2> HIDE DEF q
  <2> QED  BY <1>0, <1>1, <2>1, <2>2, <2>3, CallMoves DEF RowTypes
<1> QED  BY <1>2, <1>3

\* create() and recordAttempt().
LEMMA ChallengeStep ==
    ASSUME IInv, NEW r \in Requests,
           \/ InsertOptions(r) \/ InsertChallenge(r)
           \/ RecordExpired(r) \/ RecordWrong(r) \/ RecordConsumed(r)
    PROVE  IInv'
<1> DEFINE v == challenge[request[r].ch]
<1>0. /\ CallOK(request[r]) /\ request \in [Requests -> Call] /\ request[r] \in Call /\ request[r].seen \in Nat
      /\ request[r].ch \in Challenges => v \in OperatorRow
      /\ UNCHANGED <<user, credential, elapsed, token, history>>
  BY DEF IInv, CallsOK, RowTypes, Call, InsertOptions, InsertChallenge, RecordExpired, RecordWrong, RecordConsumed
<1>i. Idle \in Call /\ Idle.stage = "idle"
  BY IdleOK DEF CallOK, Idle
<1>1. ASSUME NEW kind \in {"operator", "register"}, request[r].stage \in Making, Finish(r), NewChallenge(r, kind)
      PROVE  IInv'
  <2> DEFINE w == [status |-> "pending", kind |-> kind, attempts |-> 0, user |-> request[r].user]
  <2>1. /\ request[r].user \in Users /\ request[r].ch \in Challenges /\ v.status = "absent"
        /\ \A s \in Requests \ {r} : ~(request[s].stage \in Making /\ request[s].ch = request[r].ch)
    BY <1>0, <1>1 DEF CallOK, IInv, Apart
  <2>2. w \in OperatorRow /\ w.status # "absent" /\ w.user \in Users
    BY <2>1 DEF OperatorRow, OperatorKinds, Statuses
  <2>3. challenge' = [challenge EXCEPT ![request[r].ch] = w]
    BY <1>1 DEF NewChallenge
  <2> HIDE DEF w
  <2> QED  BY <1>0, <1>1, <1>i, <2>1, <2>2, <2>3, ChallengeMoves
<1>2. ASSUME NEW w \in OperatorRow, request[r].stage \in Verifying, Rewrites(v, w), Finish(r),
             challenge' = [challenge EXCEPT ![request[r].ch] = w]
      PROVE  IInv'
  <2>1. request[r].ch \in Challenges /\ v.status # "absent" /\ v.user \in Users
    BY <1>0, <1>2 DEF CallOK
  <2>2. w.status # "absent" /\ w.user \in Users
    BY <1>2, <2>1 DEF Rewrites
  <2> QED  BY <1>0, <1>2, <1>i, <2>1, <2>2, ChallengeMoves
<1>3. request[r].stage \in Verifying => request[r].ch \in Challenges /\ v \in OperatorRow /\ v.status # "absent" /\ v.user \in Users
  BY <1>0 DEF CallOK
<1>4. CASE InsertOptions(r)
  BY <1>1, <1>4 DEF InsertOptions, Making
<1>5. CASE InsertChallenge(r)
  BY <1>1, <1>5 DEF InsertChallenge, Making
<1>6. CASE RecordExpired(r)
  <2>1. request[r].stage \in Verifying /\ "expired" \in Statuses
    BY <1>6 DEF RecordExpired, Verifying, Statuses
  <2>2. Rewrites(v, RecordAttempt(v, "expired", FALSE))
    BY <1>3, <2>1, RecordRewrites
  <2>3. challenge' = [challenge EXCEPT ![request[r].ch] = RecordAttempt(v, "expired", FALSE)] /\ Finish(r)
    BY <1>6 DEF RecordExpired
  <2> QED  BY <1>2, <2>1, <2>2, <2>3 DEF Rewrites
<1>7. CASE RecordWrong(r)
  <2>1. request[r].stage \in Verifying
    BY <1>7 DEF RecordWrong, Verifying
  <2>2. Rewrites(v, AfterWrong(v, request[r].seen))
    BY <1>0, <1>3, <2>1, WrongRewrites
  <2>3. challenge' = [challenge EXCEPT ![request[r].ch] = AfterWrong(v, request[r].seen)] /\ Finish(r)
    BY <1>7 DEF RecordWrong
  <2> QED  BY <1>2, <2>1, <2>2, <2>3 DEF Rewrites
<1>8. CASE RecordConsumed(r)
  <2> DEFINE q == [request[r] EXCEPT !.stage = "mint"]
             w == RecordAttempt(v, "consumed", TRUE)
  <2>1. request[r].stage = "consume" /\ request[r].stage \in Verifying /\ "consumed" \in Statuses /\ "consumed" \in Closed
    BY <1>8 DEF RecordConsumed, Verifying, Statuses, Closed
  <2>2. Rewrites(v, w) /\ w.status \in Closed
    BY <1>3, <2>1, RecordRewrites
  <2>3. /\ challenge' = [challenge EXCEPT ![request[r].ch] = w]
        /\ request' = [request EXCEPT ![r] = q]
    BY <1>0, <1>8 DEF RecordConsumed
  <2>4. q \in Call /\ q.stage = "mint" /\ q.ch = request[r].ch /\ q.user = request[r].user /\ q.key = request[r].key
    BY <1>0 DEF Call, Stages
  <2>5. w \in OperatorRow /\ w.status # "absent" /\ w.user \in Users
    BY <1>3, <2>1, <2>2 DEF Rewrites
  <2> HIDE DEF q, w
  <2> QED  BY <1>0, <1>3, <2>1, <2>2, <2>3, <2>4, <2>5, ChallengeMoves
<1> QED  BY <1>4, <1>5, <1>6, <1>7, <1>8

LEMMA StepInv == IInv /\ [Next]_vars => IInv'
<1> SUFFICES ASSUME IInv, [Next]_vars PROVE IInv'
  OBVIOUS
<1>0. RowTypes
  BY DEF IInv
<1>1. ASSUME NEW u \in Users, Disable(u) \/ \E e \in Emails : CreateUser(u, e) PROVE IInv'
  <2>1. /\ user' \in [Users -> [status : {"absent", "active", "disabled"}, email : Emails \cup {NoEmail}]]
        /\ elapsed' = elapsed /\ UNCHANGED <<credential, challenge, token, request, history>>
    BY <1>0, <1>1 DEF Disable, CreateUser, RowTypes
  <2> QED  BY <1>0, <2>1, OutsideStep DEF RowTypes
<1>2. ASSUME NEW c \in Challenges, Elapse(c) PROVE IInv'
  <2>1. /\ elapsed' \in SUBSET Challenges /\ user' = user
        /\ UNCHANGED <<credential, challenge, token, request, history>>
    BY <1>0, <1>2 DEF Elapse, RowTypes
  <2> QED  BY <1>0, <2>1, OutsideStep DEF RowTypes
<1>3. ASSUME NEW r \in Requests, NEW u \in Users, NEW c \in Challenges, AskOptions(r, u, c) \/ AskStepUp(r, u, c)
      PROVE  IInv'
  BY <1>3, BeginStep
<1>4. ASSUME NEW r \in Requests, NEW u \in Users, NEW k \in Keys, AskRegister(r, u, k) PROVE IInv'
  BY <1>4, BeginStep
<1>5. ASSUME NEW r \in Requests, NEW c \in Challenges, NEW k \in Keys, Present(r, c, k) PROVE IInv'
  BY <1>5, BeginStep
<1>6. ASSUME NEW r \in Requests, ListKeys(r) \/ Refuse(r) \/ Abort(r) PROVE IInv'
  <2>1. \/ Finish(r)
        \/ request[r].stage = "keys" /\ Go(r, "challenge")
        \/ request[r].stage = "assert" /\ Go(r, "fail")
    BY <1>6 DEF ListKeys, Refuse, Abort
  <2>2. UNCHANGED <<user, credential, challenge, elapsed, token, history>>
    BY <1>6 DEF ListKeys, Refuse, Abort
  <2> QED  BY <2>1, <2>2, Ends, GoStep
<1>7. ASSUME NEW r \in Requests,
             InsertOptions(r) \/ InsertChallenge(r) \/ RecordExpired(r) \/ RecordWrong(r) \/ RecordConsumed(r)
      PROVE  IInv'
  BY <1>7, ChallengeStep
<1>8. ASSUME NEW r \in Requests,
             Enrol(r) \/ ReplyEnrolled(r) \/ AcceptKey(r) \/ RecordUse(r) \/ CreateToken(r)
      PROVE  IInv'
  BY <1>8, EnrolStep, ReplyStep, AcceptStep, UseStep, TokenStep
<1>9. CASE UNCHANGED vars
  BY <1>0, <1>9, OutsideStep DEF vars, RowTypes, history
<1> QED  BY <1>1, <1>2, <1>3, <1>4, <1>5, <1>6, <1>7, <1>8, <1>9 DEF Next

\* All of the invariant holds in every reachable state.
THEOREM Inductive == Spec => []IInv
  BY InitInv, StepInv, PTL DEF Spec

\* Tables, handlers and history keep their types.
THEOREM TypeCorrect == Spec => []TypeOK
<1>1. IInv => TypeOK
  BY DEF IInv, RowTypes, CallsOK, Call, OperatorRow, TypeOK
<1> QED  BY <1>1, Inductive, PTL

\* POST /v1/operator/users/:id/webauthn/register: a key that a 201 gave to a
\* user is that user's in every later state, however many register it together.
THEOREM KeysStay == Spec => []EnrolledOnce
  BY Inductive, PTL DEF IInv

\* POST /v1/stepup/verify: an operator's step-up token rests on an answer to
\* its challenge by a key of the user whom the challenge names.
THEOREM TokensRestOnKeys == Spec => []TokenRestsOnKey
  BY Inductive, PTL DEF IInv

\* recordUse: the counter of a key is never ahead of its uses, is positive once
\* there is one, and is their number while no two have crossed.
THEOREM CountersTellUses == Spec => []CounterTellsUses
  BY Inductive, PTL DEF IInv

-----------------------------------------------------------------------------
(* Operators keep the promise of StepUpLedger.                             *)

LEMMA LedgerInit == Init => Ledger!Init
BY DEF Init, LedgerStage, Ledger!Init

LEMMA LedgerQuiet == ASSUME UNCHANGED <<shown, token>> PROVE UNCHANGED Ledger!ledgerVars
BY DEF LedgerStage, Ledger!ledgerVars

\* An accepted answer proves a challenge, or adds to its proofs or its token.
LEMMA LedgerAccept ==
    ASSUME IInv, NEW r \in Requests, AcceptKey(r)
    PROVE  Ledger!Next \/ UNCHANGED Ledger!ledgerVars
<1> PICK c : c = request[r].ch
  OBVIOUS
<1> PICK k : k = request[r].key
  OBVIOUS
<1>1. /\ c \in Challenges /\ k \in Keys /\ shown' = shown \cup {<<c, k>>} /\ token' = token
  BY DEF AcceptKey, Accept, IInv, CallsOK, CallOK, Verifying
<1>2. \A d \in Challenges \ {c} : (\E l \in Keys : <<d, l>> \in shown') <=> (\E l \in Keys : <<d, l>> \in shown)
  BY <1>1
<1>3. \A d \in Challenges \ {c} : LedgerStage'[d] = LedgerStage[d]
  BY <1>1, <1>2 DEF LedgerStage
<1>4. \E l \in Keys : <<c, l>> \in shown'
  BY <1>1
<1>5. LedgerStage'[c] = IF c \in token THEN "issued" ELSE "proved"
  BY <1>1, <1>4 DEF LedgerStage
<1>6. LedgerStage' = [LedgerStage EXCEPT ![c] = IF c \in token THEN "issued" ELSE "proved"]
  BY <1>1, <1>3, <1>5 DEF LedgerStage
<1>7. CASE LedgerStage[c] = "open"
  <2>1. c \notin token
    BY <1>1, <1>7 DEF LedgerStage
  <2>2. Ledger!ProveFactor(c)
    BY <1>6, <1>7, <2>1 DEF Ledger!ProveFactor, Ledger!Advance
  <2> QED  BY <1>1, <2>2 DEF Ledger!Next
<1>8. CASE LedgerStage[c] # "open"
  <2>1. LedgerStage[c] = IF c \in token THEN "issued" ELSE "proved"
    BY <1>1, <1>8 DEF LedgerStage
  <2>2. LedgerStage' = LedgerStage
    BY <1>6, <2>1 DEF LedgerStage
  <2> QED  BY <2>2 DEF Ledger!ledgerVars
<1> QED  BY <1>7, <1>8

\* The insert of step_up_tokens issues the token of a proved challenge.
LEMMA LedgerIssue == ASSUME IInv, NEW r \in Requests, CreateToken(r) PROVE Ledger!Next
<1> PICK c : c = request[r].ch
  OBVIOUS
<1>1. /\ c \in Challenges /\ c \notin token /\ token' = token \cup {c} /\ shown' = shown
      /\ \E k \in Keys : <<c, k>> \in shown
  BY DEF CreateToken, IInv, CallsOK, CallOK, Verifying, history
<1>2. LedgerStage[c] = "proved"
  BY <1>1 DEF LedgerStage
<1>3. LedgerStage' = [LedgerStage EXCEPT ![c] = "issued"]
  BY <1>1 DEF LedgerStage
<1>4. Ledger!IssueToken(c)
  BY <1>2, <1>3 DEF Ledger!IssueToken, Ledger!Advance
<1> QED  BY <1>1, <1>4 DEF Ledger!Next

LEMMA LedgerStep == IInv /\ [Next]_vars => [Ledger!Next]_Ledger!ledgerVars
<1> SUFFICES ASSUME IInv, [Next]_vars PROVE Ledger!Next \/ UNCHANGED Ledger!ledgerVars
  OBVIOUS
<1>1. ASSUME NEW r \in Requests, AcceptKey(r) \/ CreateToken(r)
      PROVE  Ledger!Next \/ UNCHANGED Ledger!ledgerVars
  BY <1>1, LedgerAccept, LedgerIssue
<1>2. CASE UNCHANGED <<shown, token>>
  BY <1>2, LedgerQuiet
<1>3. \/ UNCHANGED <<shown, token>> \/ \E r \in Requests : AcceptKey(r) \/ CreateToken(r)
  <2>1. CASE Next
    BY <2>1 DEF Next, Disable, CreateUser, Elapse, AskOptions, AskStepUp, AskRegister, InsertOptions,
       Enrol, ReplyEnrolled, ListKeys, InsertChallenge, Present, RecordExpired, Refuse, RecordWrong,
       RecordUse, RecordConsumed, Abort, history
  <2> QED  BY <2>1 DEF vars
<1> QED  BY <1>1, <1>2, <1>3

\* POST /v1/stepup/verify with a key: each challenge goes from open to proved to
\* issued once and in this order, whatever answers to it race.
THEOREM OperatorLedger == Spec => KeysKeepLedger
  BY LedgerInit, LedgerStep, Inductive, PTL DEF Spec, KeysKeepLedger, Ledger!Spec
=============================================================================
