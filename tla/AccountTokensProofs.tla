------------------------ MODULE AccountTokensProofs ------------------------
(***************************************************************************)
(* Theorems about what accounts give to apps: DelegatedAuthority and       *)
(* PhoneTokens, and ConsentGrants, for any accounts, numbers, tokens,      *)
(* grants and handlers.  What carries the first is that a step-up has one  *)
(* handler between its spending and its signing; the second, that a row is *)
(* only ever revoked, and once; the third, that a grant has one handler    *)
(* that announces it and one that announces its end.                       *)
(***************************************************************************)
EXTENDS AccountTokens, ConsentPromises, FiniteSetTheorems, SequenceTheorems, TLAPS

CONSTANTS Keys, NoKey, NoGrant

VARIABLE known

Consent == INSTANCE ConsentGrants

USE DelegatedAuthorityAssumption DEF At, Set, Go, Finish, Idle, rows, history, Claims, NoClaims

Handler == [stage : Stages, acct : Accounts \cup {NoAccount}, up : StepUps \cup {NoStepUp},
            jti : Jtis \cup {NoJti}]

HandlerOK(q) ==
    /\ q \in Handler
    /\ q.stage # "idle" => q.acct \in Accounts
    /\ q.stage \in {"spend", "challenge"} => q.up \in StepUps
    /\ q.stage \in {"spend", "sign", "refuse", "insert", "reply"} => q.jti \in Jtis

\* The variables but request are typed after a step, and so is a handler's new state.
LEMMA TypeKept ==
    ASSUME TypeOK, NEW r \in Requests, NEW q, HandlerOK(q), request' = [request EXCEPT ![r] = q],
           state' \in [Accounts -> {"pending", "active", "frozen"}],
           stepup' \in [StepUps -> [status : {"absent", "pending", "proved", "live", "spent"},
                                    acct : Accounts \cup {NoAccount}]],
           signing' \in [Jtis -> [acct : Accounts \cup {NoAccount}, up : StepUps \cup {NoStepUp}]],
           rejected' \in SUBSET Jtis, lost' \in SUBSET StepUps, authority' \in SUBSET Claims,
           spentFor' \in [StepUps -> Jtis \cup {NoJti}],
           due' \in [Accounts -> SUBSET Mints], leaked' \in SUBSET Mints
    PROVE  TypeOK'
<1>1. request \in [Requests -> Handler] /\ request' \in [Requests -> Handler]
  BY DEF TypeOK, Handler, HandlerOK
<1>2. \A s \in Requests : request'[s] = IF s = r THEN q ELSE request[s]
  BY <1>1
<1>3. \A s \in Requests : HandlerOK(request'[s])
  BY <1>2 DEF TypeOK, Handler, HandlerOK
<1> QED  BY <1>1, <1>3 DEF TypeOK, Handler, HandlerOK

LEMMA DropTyped == Drop => due' \in [Accounts -> SUBSET Mints]
BY DEF Drop, UnderWay

LEMMA MintTyped ==
    ASSUME TypeOK, NEW a, NEW m \in Mints, Mint(a, m)
    PROVE  due' \in [Accounts -> SUBSET Mints] /\ leaked' \in SUBSET Mints
BY DropTyped DEF Mint, TypeOK

LEMMA SpentForTyped ==
    ASSUME TypeOK, NEW u, NEW j \in Jtis, spentFor' = [spentFor EXCEPT ![u] = j]
    PROVE  spentFor' \in [StepUps -> Jtis \cup {NoJti}]
BY DEF TypeOK

LEMMA TypeStep == TypeOK /\ [Next]_vars => TypeOK'
<1> SUFFICES ASSUME TypeOK, [Next]_vars PROVE TypeOK'  OBVIOUS
<1>0. \A r \in Requests : HandlerOK(request[r])
  BY DEF TypeOK, HandlerOK, Handler
<1>i. HandlerOK(Idle)
  BY DEF HandlerOK, Handler, Stages
<1>1. ASSUME NEW a \in Accounts, Activate(a) \/ Freeze(a) PROVE TypeOK'
  <2>1. due' \in [Accounts -> SUBSET Mints]
    BY <1>1 DEF Activate, Freeze, UnderWay, TypeOK
  <2> QED  BY <1>1, <2>1 DEF Activate, Freeze, Standing!Activate, Standing!Freeze, TypeOK
<1>2. ASSUME NEW u \in StepUps, Prove(u) \/ Verify(u) PROVE TypeOK'
  <2>1. CASE Prove(u)
    BY <2>1 DEF Prove, minted, TypeOK
  <2>2. CASE Verify(u)
    <3>1. <<"token", u>> \in Mints
      BY DEF Mints
    <3>2. due' \in [Accounts -> SUBSET Mints] /\ leaked' \in SUBSET Mints
      BY <2>2, <3>1, MintTyped DEF Verify
    <3> QED  BY <2>2, <3>2 DEF Verify, TypeOK
  <2> QED  BY <1>2, <2>1, <2>2
<1>3. ASSUME NEW r \in Requests, NEW a \in Accounts, NEW u \in StepUps \cup {NoStepUp}, FindActive(r, a, u)
      PROVE  TypeOK'
  <2>1. /\ u \in StepUps => HandlerOK([Idle EXCEPT !.stage = "challenge", !.acct = a, !.up = u])
        /\ HandlerOK([Idle EXCEPT !.stage = "audience", !.acct = a])
    BY DEF HandlerOK, Handler, Stages
  <2> QED  BY <1>3, <2>1, TypeKept DEF FindActive, minted, TypeOK
<1>4. ASSUME NEW r \in Requests, CreateChallenge(r) PROVE TypeOK'
  <2>1. HandlerOK(request[r]) /\ request[r].stage = "challenge"
    BY <1>0, <1>4 DEF CreateChallenge
  <2>2. due' \in [Accounts -> SUBSET Mints] /\ leaked' \in SUBSET Mints
    <3>1. <<"challenge", request[r].up>> \in Mints
      BY <2>1 DEF Mints, HandlerOK
    <3> QED  BY <1>4, <3>1, MintTyped DEF CreateChallenge
  <2>3. stepup' \in [StepUps -> [status : {"absent", "pending", "proved", "live", "spent"},
                                 acct : Accounts \cup {NoAccount}]]
    BY <1>4, <2>1 DEF CreateChallenge, TypeOK, HandlerOK, Handler
  <2> QED  BY <1>4, <1>i, <2>2, <2>3, TypeKept DEF CreateChallenge, TypeOK
<1>5. ASSUME NEW r \in Requests, ReplyAudience(r) PROVE TypeOK'
  <2>1. due' \in [Accounts -> SUBSET Mints] /\ leaked' \in SUBSET Mints
    <3>1. <<"audience", r>> \in Mints
      BY DEF Mints
    <3> QED  BY <1>5, <3>1, MintTyped DEF ReplyAudience
  <2> QED  BY <1>5, <1>i, <2>1, TypeKept DEF ReplyAudience, TypeOK
<1>6. ASSUME NEW r \in Requests, NEW a \in Accounts, NEW j \in Jtis, AskSign(r, a, j) PROVE TypeOK'
  <2>1. HandlerOK([Idle EXCEPT !.stage = "sign", !.acct = a, !.jti = j])
    BY DEF HandlerOK, Handler, Stages
  <2> QED  BY <1>6, <2>1, TypeKept DEF AskSign, minted, TypeOK
<1>7. ASSUME NEW r \in Requests, NEW a \in Accounts, NEW j \in Jtis, NEW u \in StepUps, AskSignUnder(r, a, j, u)
      PROVE  TypeOK'
  <2>1. HandlerOK([stage |-> "spend", acct |-> a, up |-> u, jti |-> j])
    BY DEF HandlerOK, Handler, Stages
  <2> QED  BY <1>7, <2>1, TypeKept DEF AskSignUnder, minted, TypeOK
<1>8. ASSUME NEW r \in Requests, Spend(r) PROVE TypeOK'
  <2>1. HandlerOK(request[r]) /\ request[r].stage = "spend"
    BY <1>0, <1>8 DEF Spend
  <2>2. HandlerOK([request[r] EXCEPT !.stage = "sign"])
    BY <2>1 DEF HandlerOK, Handler, Stages
  <2>3. request' = [request EXCEPT ![r] = [request[r] EXCEPT !.stage = "sign"]]
    BY <1>8 DEF Spend, TypeOK
  <2>4. stepup' \in [StepUps -> [status : {"absent", "pending", "proved", "live", "spent"},
                                 acct : Accounts \cup {NoAccount}]]
    BY <1>8, <2>1 DEF Spend, TypeOK, HandlerOK, Handler
  <2>5. spentFor' \in [StepUps -> Jtis \cup {NoJti}]
    BY <1>8, <2>1, SpentForTyped DEF Spend, HandlerOK
  <2> QED  BY <1>8, <2>2, <2>3, <2>4, <2>5, TypeKept DEF Spend, minted, TypeOK
<1>9. ASSUME NEW r \in Requests, Replayed(r) PROVE TypeOK'
  BY <1>9, <1>i, TypeKept DEF Replayed, minted, TypeOK
<1>10. ASSUME NEW r \in Requests, Sign(r) PROVE TypeOK'
  <2>1. PICK s \in {"refuse", "insert"} : request' = [request EXCEPT ![r].stage = s]
    BY <1>10 DEF Sign
  <2>2. HandlerOK(request[r]) /\ request[r].stage = "sign"
    BY <1>0, <1>10 DEF Sign
  <2>3. HandlerOK([request[r] EXCEPT !.stage = s])
    BY <2>2 DEF HandlerOK, Handler, Stages
  <2>4. request' = [request EXCEPT ![r] = [request[r] EXCEPT !.stage = s]]
    BY <2>1 DEF TypeOK
  <2> QED  BY <1>10, <2>3, <2>4, TypeKept DEF Sign, minted, TypeOK
<1>11. ASSUME NEW r \in Requests, Refuse(r) PROVE TypeOK'
  <2>1. rejected' \in SUBSET Jtis /\ due' \in [Accounts -> SUBSET Mints]
    BY <1>0, <1>11, DropTyped DEF Refuse, TypeOK, HandlerOK, Handler
  <2> QED  BY <1>11, <1>i, <2>1, TypeKept DEF Refuse, TypeOK
<1>12. ASSUME NEW r \in Requests, Insert(r) PROVE TypeOK'
  <2>1. HandlerOK(request[r]) /\ request[r].stage = "insert"
    BY <1>0, <1>12 DEF Insert
  <2>2. HandlerOK([request[r] EXCEPT !.stage = "reply"])
    BY <2>1 DEF HandlerOK, Handler, Stages
  <2>3. request' = [request EXCEPT ![r] = [request[r] EXCEPT !.stage = "reply"]]
    BY <1>12 DEF Insert, TypeOK
  <2>4. signing' \in [Jtis -> [acct : Accounts \cup {NoAccount}, up : StepUps \cup {NoStepUp}]]
    BY <1>12, <2>1 DEF Insert, TypeOK, HandlerOK, Handler
  <2> QED  BY <1>12, <2>2, <2>3, <2>4, TypeKept DEF Insert, minted, TypeOK
<1>13. ASSUME NEW r \in Requests, Reply(r) PROVE TypeOK'
  <2>1. HandlerOK(request[r]) /\ request[r].stage = "reply"
    BY <1>0, <1>13 DEF Reply
  <2>2. authority' \in SUBSET Claims
    BY <1>13, <2>1 DEF Reply, TypeOK, HandlerOK, Handler
  <2>3. due' \in [Accounts -> SUBSET Mints] /\ leaked' \in SUBSET Mints
    <3>1. CASE request[r].up = NoStepUp
      BY <1>13, <3>1 DEF Reply, minted, TypeOK
    <3>2. CASE request[r].up # NoStepUp
      <4>1. <<"authority", request[r].up>> \in Mints
        BY <2>1, <3>2 DEF Mints, HandlerOK, Handler
      <4> QED  BY <1>13, <3>2, <4>1, MintTyped DEF Reply
    <3> QED  BY <3>1, <3>2
  <2> QED  BY <1>13, <1>i, <2>2, <2>3, TypeKept DEF Reply, TypeOK
<1>14. ASSUME NEW r \in Requests, Abort(r) PROVE TypeOK'
  <2>1. lost' \in SUBSET StepUps /\ due' \in [Accounts -> SUBSET Mints]
    BY <1>0, <1>14, DropTyped DEF Abort, TypeOK, HandlerOK, Handler
  <2> QED  BY <1>14, <1>i, <2>1, TypeKept DEF Abort, TypeOK
<1>15. CASE UNCHANGED vars
  BY <1>15 DEF vars, TypeOK
<1> QED
  BY <1>1, <1>2, <1>3, <1>4, <1>5, <1>6, <1>7, <1>8, <1>9, <1>10, <1>11, <1>12, <1>13, <1>14, <1>15 DEF Next

-----------------------------------------------------------------------------
(* Step-ups, and the handlers that spend them.                             *)

Deciding == {"sign", "refuse", "insert"}

\* What the tables say of the request that a handler works on.
HandlerInv ==
    \A r \in Requests : LET q == request[r] IN
        /\ q.stage = "challenge" => stepup[q.up].status = "absent"
        /\ q.stage = "spend" => stepup[q.up].status \in {"live", "spent"} /\ stepup[q.up].acct = q.acct
        /\ q.stage \in Deciding /\ q.up # NoStepUp =>
              /\ stepup[q.up] = [status |-> "spent", acct |-> q.acct]
              /\ spentFor[q.up] = q.jti
              /\ \A j \in Jtis : signing[j].up # q.up
        /\ q.stage = "reply" => signing[q.jti] = [acct |-> q.acct, up |-> q.up]

\* A challenge has one maker; a step-up that is spent, one handler that signs by it.
OneHandler ==
    \A q, r \in Requests : q # r /\ request[q].up = request[r].up /\ request[r].up # NoStepUp =>
        /\ ~(At(q, "challenge") /\ At(r, "challenge"))
        /\ ~(request[q].stage \in Deciding /\ request[r].stage \in Deciding)

IInv == TypeOK /\ HandlerInv /\ OneHandler /\ SigningsTellAuthorities /\ SpentIsAccountedFor

\* r alone moves, to q.
Moves(r, q) == request' = [request EXCEPT ![r] = q]

LEMMA MovesFacts ==
    ASSUME TypeOK, NEW r \in Requests, NEW q, Moves(r, q)
    PROVE  /\ request'[r] = q
           /\ \A s \in Requests : s # r => request'[s] = request[s]
           /\ HandlerOK(request[r])
BY DEF Moves, TypeOK, HandlerOK, Handler

\* The tables stay, and r ends or begins what needs nothing of them.
LEMMA QuietStep ==
    ASSUME IInv, NEW r \in Requests, NEW q, Moves(r, q), UNCHANGED <<stepup, signing, spentFor>>,
           authority' = authority, rejected \subseteq rejected', lost \subseteq lost',
           \/ q.stage = "idle" /\ (request[r].stage \in Deciding =>
                                      \/ request[r].up = NoStepUp \/ request[r].up \in lost'
                                      \/ request[r].jti \in rejected')
           \/ q.stage = "audience" /\ request[r].stage = "idle"
           \/ q.stage \in Deciding /\ q.up = NoStepUp /\ request[r].stage = "idle"
           \/ /\ q.stage = "challenge" /\ request[r].stage = "idle" /\ stepup[q.up].status = "absent"
              /\ \A s \in Requests : request[s].up # q.up
           \/ /\ q.stage = "spend" /\ request[r].stage = "idle"
              /\ stepup[q.up].status \in {"live", "spent"} /\ stepup[q.up].acct = q.acct
           \/ /\ q.stage \in {"refuse", "insert"} /\ request[r].stage = "sign"
              /\ q.up = request[r].up /\ q.acct = request[r].acct /\ q.jti = request[r].jti
    PROVE  HandlerInv' /\ OneHandler' /\ SigningsTellAuthorities' /\ SpentIsAccountedFor'
<1>0. /\ request'[r] = q
      /\ \A s \in Requests : s # r => request'[s] = request[s]
  BY MovesFacts DEF IInv
<1>1. HandlerInv'
  BY <1>0 DEF IInv, HandlerInv, Deciding
<1>2. OneHandler'
  BY <1>0 DEF IInv, OneHandler, Deciding
<1>3. SigningsTellAuthorities'
  BY DEF IInv, SigningsTellAuthorities
<1>4. SpentIsAccountedFor'
  <2> SUFFICES ASSUME NEW u \in StepUps, stepup[u].status = "spent",
                      u \notin lost', ~ \E j \in Jtis : j = spentFor[u] /\ (signing[j].up = u \/ j \in rejected')
               PROVE  \E s \in Requests : /\ request'[s].up = u /\ request'[s].jti = spentFor[u]
                                          /\ request'[s].stage \in {"sign", "refuse", "insert"}
    BY DEF SpentIsAccountedFor
  <2>1. PICK s \in Requests : /\ request[s].up = u /\ request[s].jti = spentFor[u]
                              /\ request[s].stage \in {"sign", "refuse", "insert"}
    BY DEF IInv, SpentIsAccountedFor
  <2>2. CASE s # r
    BY <1>0, <2>1, <2>2
  <2>3. CASE s = r
    <3>1. request[r].jti \in Jtis
      BY <2>1, <2>3, MovesFacts DEF IInv, HandlerOK
    <3> QED  BY <1>0, <2>1, <2>3, <3>1 DEF Deciding
  <2> QED  BY <2>2, <2>3
<1> QED  BY <1>1, <1>2, <1>3, <1>4

LEMMA InvStep == IInv /\ [Next]_vars => IInv'
<1> SUFFICES ASSUME IInv, [Next]_vars
             PROVE  HandlerInv' /\ OneHandler' /\ SigningsTellAuthorities' /\ SpentIsAccountedFor'
  BY TypeStep DEF IInv
<1>t. TypeOK /\ HandlerInv /\ OneHandler /\ SigningsTellAuthorities /\ SpentIsAccountedFor
  BY DEF IInv
<1>h. \A r \in Requests : HandlerOK(request[r])
  BY <1>t DEF TypeOK, HandlerOK, Handler
<1>1. ASSUME UNCHANGED <<stepup, signing, rejected, request, authority, lost, spentFor>>
      PROVE  HandlerInv' /\ OneHandler' /\ SigningsTellAuthorities' /\ SpentIsAccountedFor'
  BY <1>1, <1>t DEF HandlerInv, OneHandler, SigningsTellAuthorities, SpentIsAccountedFor
<1>2. ASSUME NEW u \in StepUps, Prove(u) \/ Verify(u)
      PROVE  HandlerInv' /\ OneHandler' /\ SigningsTellAuthorities' /\ SpentIsAccountedFor'
  <2>1. /\ stepup[u].status \in {"pending", "proved"} /\ stepup'[u].status \in {"proved", "live"}
        /\ stepup'[u].acct = stepup[u].acct
        /\ \A v \in StepUps : v # u => stepup'[v] = stepup[v]
    BY <1>2, <1>t DEF Prove, Verify, TypeOK
  <2>2. \A r \in Requests : request[r].up \in StepUps \cup {NoStepUp}
    BY <1>h DEF HandlerOK, Handler
  <2>3. \A j \in Jtis : signing[j].up \in StepUps \cup {NoStepUp}
    BY <1>t DEF TypeOK
  <2>4. HandlerInv'
    BY <1>2, <1>t, <1>h, <2>1, <2>2 DEF Prove, Verify, HandlerInv, HandlerOK, Deciding
  <2>5. OneHandler'
    BY <1>2, <1>t DEF Prove, Verify, OneHandler
  <2>6. SigningsTellAuthorities'
    BY <1>2, <1>t, <2>1, <2>3 DEF Prove, Verify, SigningsTellAuthorities
  <2>7. SpentIsAccountedFor'
    BY <1>2, <1>t, <2>1 DEF Prove, Verify, SpentIsAccountedFor
  <2> QED  BY <2>4, <2>5, <2>6, <2>7
<1>3. ASSUME NEW r \in Requests, NEW a \in Accounts, NEW u \in StepUps \cup {NoStepUp}, FindActive(r, a, u)
      PROVE  HandlerInv' /\ OneHandler' /\ SigningsTellAuthorities' /\ SpentIsAccountedFor'
  <2>1. CASE u \in StepUps
    <3> DEFINE q == [Idle EXCEPT !.stage = "challenge", !.acct = a, !.up = u]
    <3>1. Moves(r, q) /\ stepup[u].status = "absent" /\ \A s \in Requests : request[s].up # u
      BY <1>3, <2>1 DEF FindActive, Moves
    <3>2. q.stage = "challenge" /\ q.up = u
      OBVIOUS
    <3> HIDE DEF q
    <3> QED  BY <1>3, <3>1, <3>2, QuietStep DEF FindActive
  <2>2. CASE u = NoStepUp
    <3> DEFINE q == [Idle EXCEPT !.stage = "audience", !.acct = a]
    <3>1. Moves(r, q) /\ q.stage = "audience"
      BY <1>3, <2>2 DEF FindActive, Moves
    <3> HIDE DEF q
    <3> QED  BY <1>3, <3>1, QuietStep DEF FindActive
  <2> QED  BY <2>1, <2>2
<1>4. ASSUME NEW r \in Requests, CreateChallenge(r)
      PROVE  HandlerInv' /\ OneHandler' /\ SigningsTellAuthorities' /\ SpentIsAccountedFor'
  <2> DEFINE u == request[r].up
  <2>1. /\ Moves(r, Idle) /\ request[r].stage = "challenge"
        /\ u \in StepUps /\ stepup[u].status = "absent"
    BY <1>4, <1>t, <1>h DEF CreateChallenge, Moves, HandlerInv, HandlerOK
  <2>2. /\ stepup'[u].status = "pending"
        /\ \A v \in StepUps : v # u => stepup'[v] = stepup[v]
    BY <1>4, <1>t, <2>1 DEF CreateChallenge, TypeOK
  <2>3. /\ request'[r] = Idle
        /\ \A s \in Requests : s # r => request'[s] = request[s]
    BY <1>t, <2>1, MovesFacts
  <2>4. \A s \in Requests : request[s].up \in StepUps \cup {NoStepUp}
    BY <1>h DEF HandlerOK, Handler
  <2>5. \A s \in Requests : s # r /\ request[s].up = u =>
           request[s].stage # "challenge" /\ request[s].stage # "spend" /\ request[s].stage \notin Deciding
    <3> SUFFICES ASSUME NEW s \in Requests, s # r, request[s].up = u
                 PROVE  /\ request[s].stage # "challenge" /\ request[s].stage # "spend"
                        /\ request[s].stage \notin Deciding
      OBVIOUS
    <3>1. u # NoStepUp
      BY <2>1
    <3>2. request[s].stage # "challenge"
      BY <1>t, <2>1, <3>1 DEF OneHandler
    <3>3. request[s].stage # "spend"
      BY <1>t, <2>1 DEF HandlerInv
    <3>4. request[s].stage \in Deciding => stepup[u].status = "spent"
      <4>1. request[s].stage \in Deciding => stepup[u] = [status |-> "spent", acct |-> request[s].acct]
        BY <1>t, <3>1 DEF HandlerInv
      <4> QED  BY <4>1
    <3> QED  BY <2>1, <3>2, <3>3, <3>4
  <2>6. HandlerInv'
    BY <1>4, <1>t, <1>h, <2>1, <2>2, <2>3, <2>4, <2>5 DEF CreateChallenge, HandlerInv, HandlerOK, Deciding
  <2>7. OneHandler'
    BY <1>t, <2>3 DEF OneHandler, Deciding
  <2>8. \A j \in Jtis : signing[j].up \in StepUps \cup {NoStepUp}
    BY <1>t DEF TypeOK
  <2>9. SigningsTellAuthorities'
    BY <1>4, <1>t, <2>1, <2>2, <2>8 DEF CreateChallenge, SigningsTellAuthorities
  <2>10. SpentIsAccountedFor'
    BY <1>4, <1>t, <2>1, <2>2, <2>3 DEF CreateChallenge, SpentIsAccountedFor
  <2> QED  BY <2>6, <2>7, <2>9, <2>10
<1>5. ASSUME NEW r \in Requests, ReplyAudience(r) \/ Replayed(r)
      PROVE  HandlerInv' /\ OneHandler' /\ SigningsTellAuthorities' /\ SpentIsAccountedFor'
  <2>1. Moves(r, Idle) /\ Idle.stage = "idle" /\ request[r].stage \notin Deciding
    BY <1>5 DEF ReplyAudience, Replayed, Moves, Deciding
  <2> QED  BY <1>5, <2>1, QuietStep DEF ReplyAudience, Replayed
<1>6. ASSUME NEW r \in Requests, NEW a \in Accounts, NEW j \in Jtis, AskSign(r, a, j)
      PROVE  HandlerInv' /\ OneHandler' /\ SigningsTellAuthorities' /\ SpentIsAccountedFor'
  <2> DEFINE q == [Idle EXCEPT !.stage = "sign", !.acct = a, !.jti = j]
  <2>1. Moves(r, q) /\ q.stage \in Deciding /\ q.up = NoStepUp
    BY <1>6 DEF AskSign, Moves, Deciding
  <2> HIDE DEF q
  <2> QED  BY <1>6, <2>1, QuietStep DEF AskSign
<1>7. ASSUME NEW r \in Requests, NEW a \in Accounts, NEW j \in Jtis, NEW u \in StepUps, AskSignUnder(r, a, j, u)
      PROVE  HandlerInv' /\ OneHandler' /\ SigningsTellAuthorities' /\ SpentIsAccountedFor'
  <2> DEFINE q == [stage |-> "spend", acct |-> a, up |-> u, jti |-> j]
  <2>1. Moves(r, q) /\ q.stage = "spend" /\ q.up = u /\ q.acct = a
    BY <1>7 DEF AskSignUnder, Moves
  <2> HIDE DEF q
  <2> QED  BY <1>7, <2>1, QuietStep DEF AskSignUnder
<1>8. ASSUME NEW r \in Requests, Spend(r)
      PROVE  HandlerInv' /\ OneHandler' /\ SigningsTellAuthorities' /\ SpentIsAccountedFor'
  <2> DEFINE u == request[r].up
             q == [request[r] EXCEPT !.stage = "sign"]
  <2>1. /\ Moves(r, q) /\ request[r].stage = "spend"
        /\ u \in StepUps /\ stepup[u].status = "live" /\ stepup[u].acct = request[r].acct
    BY <1>8, <1>t, <1>h DEF Spend, Moves, HandlerInv, HandlerOK, TypeOK
  <2>2. /\ stepup'[u] = [status |-> "spent", acct |-> request[r].acct]
        /\ \A v \in StepUps : v # u => stepup'[v] = stepup[v]
    BY <1>8, <1>t, <2>1 DEF Spend, TypeOK
  <2>3. /\ request'[r] = q /\ q.stage = "sign" /\ q.up = u /\ q.acct = request[r].acct
        /\ \A s \in Requests : s # r => request'[s] = request[s]
        /\ q.jti = request[r].jti /\ q.jti \in Jtis
    BY <1>t, <1>h, <2>1, MovesFacts DEF HandlerOK, Handler
  <2>s. /\ spentFor'[u] = request[r].jti
        /\ \A v \in StepUps : v # u => spentFor'[v] = spentFor[v]
    BY <1>8, <1>t, <2>1 DEF Spend, TypeOK
  <2> HIDE DEF q
  <2>4. \A s \in Requests : request[s].up \in StepUps \cup {NoStepUp}
    BY <1>h DEF HandlerOK, Handler
  <2>5. \A s \in Requests : s # r /\ request[s].up = u =>
           request[s].stage # "challenge" /\ request[s].stage \notin Deciding
    <3> SUFFICES ASSUME NEW s \in Requests, s # r, request[s].up = u
                 PROVE  request[s].stage # "challenge" /\ request[s].stage \notin Deciding
      OBVIOUS
    <3>1. u # NoStepUp
      BY <2>1
    <3>2. request[s].stage # "challenge"
      BY <1>t, <2>1 DEF HandlerInv
    <3>3. request[s].stage \in Deciding => stepup[u].status = "spent"
      <4>1. request[s].stage \in Deciding => stepup[u] = [status |-> "spent", acct |-> request[s].acct]
        BY <1>t, <3>1 DEF HandlerInv
      <4> QED  BY <4>1
    <3> QED  BY <2>1, <3>2, <3>3
  <2>6. \A j \in Jtis : signing[j].up \in StepUps \cup {NoStepUp} /\ signing[j].up # u
    <3> SUFFICES ASSUME NEW j \in Jtis PROVE signing[j].up \in StepUps \cup {NoStepUp} /\ signing[j].up # u
      OBVIOUS
    <3>1. signing[j].up \in StepUps \cup {NoStepUp}
      BY <1>t DEF TypeOK
    <3>2. signing[j].up # NoStepUp => stepup[signing[j].up].status = "spent"
      <4>1. signing[j].up # NoStepUp => stepup[signing[j].up] = [status |-> "spent", acct |-> signing[j].acct]
        BY <1>t DEF SigningsTellAuthorities
      <4> QED  BY <4>1
    <3> QED  BY <2>1, <3>1, <3>2
  <2>7. \A s \in Requests : s # r /\ request[s].stage = "spend" /\ request[s].up = u =>
           request[s].acct = request[r].acct
    BY <1>t, <2>1 DEF HandlerInv
  <2>8. HandlerInv'
    BY <1>8, <1>t, <1>h, <2>1, <2>2, <2>3, <2>s, <2>4, <2>5, <2>6, <2>7
       DEF Spend, HandlerInv, HandlerOK, Deciding
  <2>9. OneHandler'
    BY <1>t, <2>3, <2>5 DEF OneHandler, Deciding
  <2>10. SigningsTellAuthorities'
    BY <1>8, <1>t, <2>2, <2>6 DEF Spend, SigningsTellAuthorities
  <2>11. SpentIsAccountedFor'
    BY <1>8, <1>t, <2>1, <2>2, <2>3, <2>s DEF Spend, SpentIsAccountedFor
  <2> QED  BY <2>8, <2>9, <2>10, <2>11
<1>9. ASSUME NEW r \in Requests, Sign(r)
      PROVE  HandlerInv' /\ OneHandler' /\ SigningsTellAuthorities' /\ SpentIsAccountedFor'
  <2>1. PICK s \in {"refuse", "insert"} : request' = [request EXCEPT ![r].stage = s]
    BY <1>9 DEF Sign
  <2> DEFINE q == [request[r] EXCEPT !.stage = s]
  <2>2. Moves(r, q) /\ request[r].stage = "sign"
    BY <1>9, <2>1, <1>t DEF Sign, Moves, TypeOK
  <2>3. /\ q.stage \in {"refuse", "insert"} /\ q.up = request[r].up
        /\ q.acct = request[r].acct /\ q.jti = request[r].jti
    BY <1>h DEF HandlerOK, Handler
  <2> HIDE DEF q
  <2> QED  BY <1>9, <2>2, <2>3, QuietStep DEF Sign
<1>10. ASSUME NEW r \in Requests, Refuse(r) \/ Abort(r)
      PROVE  HandlerInv' /\ OneHandler' /\ SigningsTellAuthorities' /\ SpentIsAccountedFor'
  <2>1. Moves(r, Idle) /\ Idle.stage = "idle" /\ rejected \subseteq rejected' /\ lost \subseteq lost'
    BY <1>10 DEF Refuse, Abort, Moves
  <2>2. request[r].stage \in Deciding =>
           request[r].up = NoStepUp \/ request[r].up \in lost' \/ request[r].jti \in rejected'
    BY <1>10 DEF Refuse, Abort, Deciding
  <2> QED  BY <1>10, <2>1, <2>2, QuietStep DEF Refuse, Abort
<1>11. ASSUME NEW r \in Requests, Insert(r)
      PROVE  HandlerInv' /\ OneHandler' /\ SigningsTellAuthorities' /\ SpentIsAccountedFor'
  <2> DEFINE u == request[r].up
             j == request[r].jti
             q == [request[r] EXCEPT !.stage = "reply"]
  <2>1. /\ Moves(r, q) /\ request[r].stage = "insert"
        /\ j \in Jtis /\ signing[j] = [acct |-> NoAccount, up |-> NoStepUp] /\ request[r].acct \in Accounts
    BY <1>11, <1>t, <1>h DEF Insert, Moves, HandlerOK, TypeOK
  <2>2. /\ signing'[j] = [acct |-> request[r].acct, up |-> u]
        /\ \A i \in Jtis : i # j => signing'[i] = signing[i]
    BY <1>11, <1>t, <2>1 DEF Insert, TypeOK
  <2>3. /\ request'[r] = q /\ q.stage = "reply" /\ q.up = u /\ q.acct = request[r].acct /\ q.jti = j
        /\ \A s \in Requests : s # r => request'[s] = request[s]
    BY <1>t, <1>h, <2>1, MovesFacts DEF HandlerOK, Handler
  <2> HIDE DEF q
  <2>4. u # NoStepUp => /\ stepup[u] = [status |-> "spent", acct |-> request[r].acct]
                        /\ \A i \in Jtis : signing[i].up # u
    BY <1>t, <2>1 DEF HandlerInv, Deciding
  <2>5. u # NoStepUp => \A s \in Requests : s # r /\ request[s].up = u => request[s].stage \notin Deciding
    BY <1>t, <2>1 DEF OneHandler, Deciding
  <2>6. \A s \in Requests : request[s].stage = "reply" => request[s].jti \in Jtis /\ request[s].acct \in Accounts
    BY <1>h DEF HandlerOK
  <2>7. HandlerInv'
    BY <1>11, <1>t, <2>1, <2>2, <2>3, <2>5, <2>6 DEF Insert, HandlerInv, Deciding
  <2>8. OneHandler'
    BY <1>t, <2>3 DEF OneHandler, Deciding
  <2>9. \A c \in authority : c.jti \in Jtis /\ c.acct \in Accounts
    BY <1>t DEF TypeOK
  <2>10. SigningsTellAuthorities'
    BY <1>11, <1>t, <2>1, <2>2, <2>4, <2>9 DEF Insert, SigningsTellAuthorities
  <2>11. SpentIsAccountedFor'
    <3> SUFFICES ASSUME NEW v \in StepUps, stepup[v].status = "spent", v \notin lost
                 PROVE  \/ \E i \in Jtis : i = spentFor[v] /\ (signing'[i].up = v \/ i \in rejected)
                        \/ \E s \in Requests : /\ request'[s].up = v /\ request'[s].jti = spentFor[v]
                                               /\ request'[s].stage \in {"sign", "refuse", "insert"}
      BY <1>11 DEF Insert, SpentIsAccountedFor
    <3>1. CASE v = u
      <4>1. spentFor[u] = j
        BY <1>t, <2>1, <3>1 DEF HandlerInv, Deciding
      <4> QED  BY <2>1, <2>2, <3>1, <4>1
    <3>2. CASE v # u /\ \E i \in Jtis : i = spentFor[v] /\ (signing[i].up = v \/ i \in rejected)
      <4>1. PICK i \in Jtis : i = spentFor[v] /\ (signing[i].up = v \/ i \in rejected)
        BY <3>2
      <4>2. signing[i].up = v => i # j
        BY <2>1
      <4> QED  BY <2>2, <4>1, <4>2
    <3>3. CASE v # u /\ \E s \in Requests : /\ request[s].up = v /\ request[s].jti = spentFor[v]
                                            /\ request[s].stage \in {"sign", "refuse", "insert"}
      <4>1. PICK s \in Requests : /\ request[s].up = v /\ request[s].jti = spentFor[v]
                                  /\ request[s].stage \in {"sign", "refuse", "insert"}
        BY <3>3
      <4>2. s # r
        BY <3>3, <4>1
      <4> QED  BY <2>3, <4>1, <4>2
    <3> QED  BY <1>t, <3>1, <3>2, <3>3 DEF SpentIsAccountedFor
  <2> QED  BY <2>7, <2>8, <2>10, <2>11
<1>12. ASSUME NEW r \in Requests, Reply(r)
      PROVE  HandlerInv' /\ OneHandler' /\ SigningsTellAuthorities' /\ SpentIsAccountedFor'
  <2>1. Moves(r, Idle) /\ request[r].stage = "reply"
    BY <1>12 DEF Reply, Moves
  <2>2. request'[r] = Idle /\ \A s \in Requests : s # r => request'[s] = request[s]
    BY <1>t, <2>1, MovesFacts
  <2>3. signing[request[r].jti] = [acct |-> request[r].acct, up |-> request[r].up]
    BY <1>t, <2>1 DEF HandlerInv
  <2>4. HandlerInv'
    BY <1>12, <1>t, <2>2 DEF Reply, HandlerInv, Deciding
  <2>5. OneHandler'
    BY <1>t, <2>2 DEF OneHandler, Deciding
  <2>6. SigningsTellAuthorities'
    BY <1>12, <1>t, <2>3 DEF Reply, SigningsTellAuthorities
  <2>7. SpentIsAccountedFor'
    BY <1>12, <1>t, <2>1, <2>2 DEF Reply, SpentIsAccountedFor
  <2> QED  BY <2>4, <2>5, <2>6, <2>7
<1>13. ASSUME NEW a \in Accounts, Activate(a) \/ Freeze(a)
      PROVE  HandlerInv' /\ OneHandler' /\ SigningsTellAuthorities' /\ SpentIsAccountedFor'
  BY <1>1, <1>13 DEF Activate, Freeze, Standing!Activate, Standing!Freeze
<1>14. CASE UNCHANGED vars
  BY <1>1, <1>14 DEF vars
<1> QED
  BY <1>2, <1>3, <1>4, <1>5, <1>6, <1>7, <1>8, <1>9, <1>10, <1>11, <1>12, <1>13, <1>14 DEF Next

-----------------------------------------------------------------------------
(* What a freeze lets pass.                                                *)

\* Nothing was minted in a freeze but what was due, what is under way for a
\* frozen account is due, and step-ups have accounts.
LeakInv ==
    /\ leaked = {}
    /\ \A a \in Accounts : state[a] = "frozen" => UnderWay(a) \subseteq due[a]
    /\ \A u \in StepUps : stepup[u].status # "absent" => stepup[u].acct \in Accounts

MayChallenge(a, u) == \E r \in Requests : Making(a, r, u)
MayIssue(a, u)     == Open(a, u, {"pending", "proved"})
MaySign(a, u)      == \/ Open(a, u, {"pending", "proved", "live"})
                      \/ \E r \in Requests : Signing(a, r, u)
MayAudience(a, r)  == At(r, "audience") /\ request[r].acct = a

LEMMA UnderWayIs ==
    ASSUME NEW a
    PROVE  /\ \A u \in StepUps : /\ <<"challenge", u>> \in UnderWay(a) <=> MayChallenge(a, u)
                                 /\ <<"token", u>> \in UnderWay(a) <=> MayIssue(a, u)
                                 /\ <<"authority", u>> \in UnderWay(a) <=> MaySign(a, u)
           /\ \A r \in Requests : <<"audience", r>> \in UnderWay(a) <=> MayAudience(a, r)
BY DEF UnderWay, Mints, MayChallenge, MayIssue, MaySign, MayAudience

LEMMA UnderWayShrinks ==
    ASSUME NEW a,
           \A u \in StepUps : /\ MayChallenge(a, u)' => MayChallenge(a, u)
                              /\ MayIssue(a, u)' => MayIssue(a, u)
                              /\ MaySign(a, u)' => MaySign(a, u),
           \A r \in Requests : MayAudience(a, r)' => MayAudience(a, r)
    PROVE  UnderWay(a)' \subseteq UnderWay(a)
<1> SUFFICES ASSUME NEW m \in Mints, m \in UnderWay(a)' PROVE m \in UnderWay(a)
  BY DEF UnderWay
<1>1. CASE \E u \in StepUps : m \in {<<"challenge", u>>, <<"token", u>>, <<"authority", u>>}
  <2>1. PICK u \in StepUps : m \in {<<"challenge", u>>, <<"token", u>>, <<"authority", u>>}
    BY <1>1
  <2>2. /\ MayChallenge(a, u)' <=> \E r \in Requests : Making(a, r, u)'
        /\ MayIssue(a, u)' <=> Open(a, u, {"pending", "proved"})'
        /\ MaySign(a, u)' <=> \/ Open(a, u, {"pending", "proved", "live"})'
                              \/ \E r \in Requests : Signing(a, r, u)'
    BY DEF MayChallenge, MayIssue, MaySign
  <2>3. CASE m = <<"challenge", u>>
    BY <2>2, <2>3, UnderWayIs DEF UnderWay
  <2>4. CASE m = <<"token", u>>
    BY <2>2, <2>4, UnderWayIs DEF UnderWay
  <2>5. CASE m = <<"authority", u>>
    BY <2>2, <2>5, UnderWayIs DEF UnderWay
  <2> QED  BY <2>1, <2>3, <2>4, <2>5
<1>2. CASE \E r \in Requests : m = <<"audience", r>>
  <2>1. PICK r \in Requests : m = <<"audience", r>>
    BY <1>2
  <2>2. MayAudience(a, r)'
    BY <2>1 DEF UnderWay, MayAudience
  <2> QED  BY <2>1, <2>2, UnderWayIs
<1> QED  BY <1>1, <1>2 DEF Mints

\* What is under way only shrinks for who is frozen, and what is due with it.
LEMMA FreezeKept ==
    ASSUME TypeOK, LeakInv, UNCHANGED state, leaked' = {}, UNCHANGED due \/ Drop,
           \A a \in Accounts : state[a] = "frozen" => UnderWay(a)' \subseteq UnderWay(a),
           \A u \in StepUps : stepup'[u].status # "absent" => stepup'[u].acct \in Accounts
    PROVE  LeakInv'
<1>1. ASSUME NEW a \in Accounts, state[a] = "frozen" PROVE UnderWay(a)' \subseteq due'[a]
  <2>1. UnderWay(a)' \subseteq due[a]
    BY <1>1 DEF LeakInv
  <2>2. due'[a] = due[a] \/ due'[a] = due[a] \cap UnderWay(a)'
    BY DEF Drop
  <2> QED  BY <2>1, <2>2
<1> QED  BY <1>1 DEF LeakInv

\* What is under way may be minted.
LEMMA MintKept ==
    ASSUME LeakInv, NEW a \in Accounts, NEW m \in UnderWay(a), Mint(a, m)
    PROVE  leaked' = {} /\ Drop
<1>1. state[a] = "frozen" => m \in due[a]
  BY DEF LeakInv
<1> QED  BY <1>1 DEF Mint, LeakInv

\* r moves to q, and rows stay: q has no more under way than r had.
LEMMA MoveShrinks ==
    ASSUME TypeOK, NEW a, NEW r \in Requests, NEW q, Moves(r, q), UNCHANGED stepup,
           q.stage \in {"challenge", "audience"} => q.acct # a,
           q.stage \in {"sign", "insert", "reply"} =>
              \/ q.up = NoStepUp
              \/ request[r].stage \in {"sign", "insert"} /\ q.up = request[r].up /\ q.acct = request[r].acct
    PROVE  UnderWay(a)' \subseteq UnderWay(a)
<1>0. request'[r] = q /\ \A s \in Requests : s # r => request'[s] = request[s]
  BY MovesFacts
<1>1. ASSUME NEW u \in StepUps
      PROVE  /\ MayChallenge(a, u)' => MayChallenge(a, u)
             /\ MayIssue(a, u)' => MayIssue(a, u)
             /\ MaySign(a, u)' => MaySign(a, u)
  <2>1. \A s \in Requests : Making(a, s, u)' => Making(a, s, u)
    BY <1>0 DEF Making
  <2>2. \A s \in Requests : Signing(a, s, u)' => Signing(a, s, u)
    BY <1>0 DEF Signing
  <2> QED  BY <2>1, <2>2 DEF MayChallenge, MayIssue, MaySign, Open
<1>2. \A s \in Requests : MayAudience(a, s)' => MayAudience(a, s)
  BY <1>0 DEF MayAudience
<1> QED  BY <1>1, <1>2, UnderWayShrinks

LEMMA LeakStep == IInv /\ LeakInv /\ [Next]_vars => LeakInv'
<1> SUFFICES ASSUME IInv, LeakInv, [Next]_vars PROVE LeakInv'  OBVIOUS
<1>t. TypeOK /\ HandlerInv
  BY DEF IInv
<1>h. \A r \in Requests : HandlerOK(request[r])
  BY <1>t DEF TypeOK, HandlerOK, Handler
<1>o. leaked = {} /\ \A u \in StepUps : stepup[u].status # "absent" => stepup[u].acct \in Accounts
  BY DEF LeakInv
<1>1. ASSUME NEW a \in Accounts, Activate(a) \/ Freeze(a) PROVE LeakInv'
  <2>1. \A b \in Accounts : UnderWay(b)' = UnderWay(b)
    BY <1>1 DEF Activate, Freeze, UnderWay, Making, Signing, Open
  <2>2. /\ \A b \in Accounts : b # a => due'[b] = due[b] /\ state'[b] = state[b]
        /\ state'[a] = "frozen" => due'[a] = UnderWay(a)
        /\ UNCHANGED <<stepup, leaked>>
    BY <1>1, <1>t DEF Activate, Freeze, Standing!Activate, Standing!Freeze, TypeOK
  <2> QED  BY <2>1, <2>2 DEF LeakInv
<1>2. ASSUME NEW u \in StepUps, Prove(u) \/ Verify(u) PROVE LeakInv'
  <2>1. /\ stepup[u].status \in {"pending", "proved"}
        /\ stepup'[u].status \in {"proved", "live"} /\ stepup'[u].acct = stepup[u].acct
        /\ stepup'[u].status = "proved" => stepup[u].status = "pending"
        /\ \A v \in StepUps : v # u => stepup'[v] = stepup[v]
        /\ UNCHANGED <<state, request>>
    BY <1>2, <1>t DEF Prove, Verify, TypeOK
  <2>2. ASSUME NEW a \in Accounts PROVE UnderWay(a)' \subseteq UnderWay(a)
    <3>1. \A v \in StepUps : /\ MayChallenge(a, v)' => MayChallenge(a, v)
                             /\ MayIssue(a, v)' => MayIssue(a, v)
                             /\ MaySign(a, v)' => MaySign(a, v)
      BY <2>1 DEF MayChallenge, MayIssue, MaySign, Open, Making, Signing
    <3>2. \A s \in Requests : MayAudience(a, s)' => MayAudience(a, s)
      BY <2>1 DEF MayAudience
    <3> QED  BY <3>1, <3>2, UnderWayShrinks
  <2>3. leaked' = {} /\ (UNCHANGED due \/ Drop)
    <3>1. CASE Prove(u)
      BY <1>o, <3>1 DEF Prove, minted
    <3>2. CASE Verify(u)
      <4> PICK a : a = stepup[u].acct  OBVIOUS
      <4>1. a \in Accounts /\ <<"token", u>> \in UnderWay(a) /\ Mint(a, <<"token", u>>)
        BY <1>o, <3>2, UnderWayIs DEF Verify, MayIssue, Open
      <4> QED  BY <4>1, MintKept
    <3> QED  BY <1>2, <3>1, <3>2
  <2> QED  BY <1>t, <1>o, <2>1, <2>2, <2>3, FreezeKept
<1>3. ASSUME NEW r \in Requests, NEW q, Moves(r, q), UNCHANGED <<state, stepup>>,
             leaked' = {}, UNCHANGED due \/ Drop,
             q.stage \in {"challenge", "audience"} => state[q.acct] = "active",
             q.stage \in {"sign", "insert", "reply"} =>
                \/ q.up = NoStepUp
                \/ request[r].stage \in {"sign", "insert"} /\ q.up = request[r].up /\ q.acct = request[r].acct
      PROVE  LeakInv'
  <2>1. ASSUME NEW a \in Accounts, state[a] = "frozen" PROVE UnderWay(a)' \subseteq UnderWay(a)
    BY <1>3, <1>t, <2>1, MoveShrinks
  <2> QED  BY <1>3, <1>t, <1>o, <2>1, FreezeKept
<1>4. ASSUME NEW r \in Requests, NEW a \in Accounts, NEW u \in StepUps \cup {NoStepUp}, FindActive(r, a, u)
      PROVE  LeakInv'
  <2>1. /\ \/ Moves(r, [Idle EXCEPT !.stage = "challenge", !.acct = a, !.up = u])
           \/ Moves(r, [Idle EXCEPT !.stage = "audience", !.acct = a])
        /\ state[a] = "active" /\ UNCHANGED <<state, stepup, leaked, due>>
    BY <1>4 DEF FindActive, Moves, minted
  <2>2. CASE Moves(r, [Idle EXCEPT !.stage = "challenge", !.acct = a, !.up = u])
    <3> DEFINE q == [Idle EXCEPT !.stage = "challenge", !.acct = a, !.up = u]
    <3>1. Moves(r, q) /\ q.stage = "challenge" /\ q.acct = a
      BY <2>2
    <3> HIDE DEF q
    <3> QED  BY <1>3, <1>o, <2>1, <3>1
  <2>3. CASE Moves(r, [Idle EXCEPT !.stage = "audience", !.acct = a])
    <3> DEFINE q == [Idle EXCEPT !.stage = "audience", !.acct = a]
    <3>1. Moves(r, q) /\ q.stage = "audience" /\ q.acct = a
      BY <2>3
    <3> HIDE DEF q
    <3> QED  BY <1>3, <1>o, <2>1, <3>1
  <2> QED  BY <2>1, <2>2, <2>3
<1>5. ASSUME NEW r \in Requests, CreateChallenge(r) PROVE LeakInv'
  <2> PICK u, b : u = request[r].up /\ b = request[r].acct  OBVIOUS
  <2>1. u \in StepUps /\ b \in Accounts /\ Making(b, r, u) /\ Moves(r, Idle)
    BY <1>5, <1>h DEF CreateChallenge, HandlerOK, Making, Moves
  <2>2. /\ stepup'[u] = [status |-> "pending", acct |-> b]
        /\ \A v \in StepUps : v # u => stepup'[v] = stepup[v]
        /\ state' = state
    BY <1>5, <1>t, <2>1 DEF CreateChallenge, TypeOK
  <2>3. request'[r] = Idle /\ \A s \in Requests : s # r => request'[s] = request[s]
    BY <1>t, <2>1, MovesFacts
  <2>4. ASSUME NEW a \in Accounts PROVE UnderWay(a)' \subseteq UnderWay(a)
    <3>1. /\ \A s \in Requests, v \in StepUps : Making(a, s, v)' => Making(a, s, v)
          /\ \A s \in Requests, v \in StepUps : Signing(a, s, v)' => Signing(a, s, v)
      BY <2>3 DEF Making, Signing
    <3>2. \A v \in StepUps : /\ Open(a, v, {"pending", "proved"})' => Open(a, v, {"pending", "proved"})
                             /\ Open(a, v, {"pending", "proved", "live"})' => Open(a, v, {"pending", "proved", "live"})
      BY <2>1, <2>2, <3>1 DEF Open
    <3>3. \A s \in Requests : MayAudience(a, s)' => MayAudience(a, s)
      BY <2>3 DEF MayAudience
    <3>4. \A v \in StepUps : /\ MayChallenge(a, v)' => MayChallenge(a, v)
                             /\ MayIssue(a, v)' => MayIssue(a, v)
                             /\ MaySign(a, v)' => MaySign(a, v)
      BY <3>1, <3>2 DEF MayChallenge, MayIssue, MaySign
    <3> QED  BY <3>3, <3>4, UnderWayShrinks
  <2>5. <<"challenge", u>> \in UnderWay(b)
    BY <2>1, UnderWayIs DEF MayChallenge
  <2>6. leaked' = {} /\ Drop
    BY <1>5, <2>1, <2>5, MintKept DEF CreateChallenge
  <2> QED  BY <1>t, <1>o, <2>1, <2>2, <2>4, <2>6, FreezeKept
<1>6. ASSUME NEW r \in Requests, ReplyAudience(r) \/ Reply(r) PROVE LeakInv'
  <2> PICK b : b = request[r].acct  OBVIOUS
  <2>1. b \in Accounts /\ Moves(r, Idle) /\ Idle.stage = "idle" /\ UNCHANGED <<state, stepup>>
    BY <1>6, <1>h DEF ReplyAudience, Reply, HandlerOK, Moves
  <2>2. leaked' = {} /\ (UNCHANGED due \/ Drop)
    <3>1. CASE ReplyAudience(r)
      <4>1. <<"audience", r>> \in UnderWay(b)
        BY <3>1, UnderWayIs DEF ReplyAudience, MayAudience
      <4> QED  BY <2>1, <3>1, <4>1, MintKept DEF ReplyAudience
    <3>2. CASE Reply(r) /\ request[r].up # NoStepUp
      <4> PICK u : u = request[r].up  OBVIOUS
      <4>1. u \in StepUps /\ Signing(b, r, u)
        BY <1>h, <3>2 DEF Reply, Signing, HandlerOK, Handler
      <4>2. <<"authority", u>> \in UnderWay(b)
        BY <4>1, UnderWayIs DEF MaySign
      <4> QED  BY <2>1, <3>2, <4>2, MintKept DEF Reply
    <3>3. CASE Reply(r) /\ request[r].up = NoStepUp
      BY <1>o, <3>3 DEF Reply, minted
    <3> QED  BY <1>6, <3>1, <3>2, <3>3
  <2> QED  BY <1>3, <2>1, <2>2
<1>7. ASSUME NEW r \in Requests, NEW a \in Accounts, NEW j \in Jtis, AskSign(r, a, j) PROVE LeakInv'
  <2> DEFINE q == [Idle EXCEPT !.stage = "sign", !.acct = a, !.jti = j]
  <2>1. Moves(r, q) /\ q.stage = "sign" /\ q.up = NoStepUp
    BY <1>7 DEF AskSign, Moves
  <2> HIDE DEF q
  <2> QED  BY <1>3, <1>7, <1>o, <2>1 DEF AskSign, minted
<1>8. ASSUME NEW r \in Requests, NEW a \in Accounts, NEW j \in Jtis, NEW u \in StepUps, AskSignUnder(r, a, j, u)
      PROVE  LeakInv'
  <2> DEFINE q == [stage |-> "spend", acct |-> a, up |-> u, jti |-> j]
  <2>1. Moves(r, q) /\ q.stage = "spend"
    BY <1>8 DEF AskSignUnder, Moves
  <2> HIDE DEF q
  <2> QED  BY <1>3, <1>8, <1>o, <2>1 DEF AskSignUnder, minted
<1>9. ASSUME NEW r \in Requests, Spend(r) PROVE LeakInv'
  <2> PICK u, b : u = request[r].up /\ b = request[r].acct  OBVIOUS
  <2>1. /\ u \in StepUps /\ b \in Accounts /\ stepup[u].status = "live" /\ stepup[u].acct = b
        /\ request[r].stage = "spend"
    BY <1>9, <1>t, <1>h DEF Spend, HandlerOK, HandlerInv
  <2>2. /\ stepup'[u].status = "spent" /\ stepup'[u].acct = b
        /\ \A v \in StepUps : v # u => stepup'[v] = stepup[v]
        /\ state' = state
    BY <1>9, <1>t, <2>1 DEF Spend, TypeOK
  <2>3. /\ request'[r].stage = "sign" /\ request'[r].up = u /\ request'[r].acct = b
        /\ \A s \in Requests : s # r => request'[s] = request[s]
    BY <1>9, <1>t DEF Spend, TypeOK
  <2>4. ASSUME NEW a \in Accounts PROVE UnderWay(a)' \subseteq UnderWay(a)
    <3>1. \A s \in Requests, v \in StepUps : Making(a, s, v)' => Making(a, s, v)
      BY <2>3 DEF Making
    <3>2. \A s \in Requests, v \in StepUps : Signing(a, s, v)' => Signing(a, s, v) \/ (v = u /\ a = b)
      BY <2>3 DEF Signing
    <3>3. \A v \in StepUps : /\ Open(a, v, {"pending", "proved"})' => Open(a, v, {"pending", "proved"})
                             /\ Open(a, v, {"pending", "proved", "live"})' => Open(a, v, {"pending", "proved", "live"})
      BY <2>2, <3>1 DEF Open
    <3>4. Open(b, u, {"pending", "proved", "live"})
      BY <2>1 DEF Open
    <3>5. \A v \in StepUps : /\ MayChallenge(a, v)' => MayChallenge(a, v)
                             /\ MayIssue(a, v)' => MayIssue(a, v)
                             /\ MaySign(a, v)' => MaySign(a, v)
      BY <3>1, <3>2, <3>3, <3>4 DEF MayChallenge, MayIssue, MaySign
    <3>6. \A s \in Requests : MayAudience(a, s)' => MayAudience(a, s)
      BY <2>3 DEF MayAudience
    <3> QED  BY <3>5, <3>6, UnderWayShrinks
  <2> QED  BY <1>t, <1>o, <1>9, <2>1, <2>2, <2>4, FreezeKept DEF Spend, minted
<1>10. ASSUME NEW r \in Requests, Sign(r) \/ Insert(r) PROVE LeakInv'
  <2>1. PICK s \in {"refuse", "insert", "reply"} : request' = [request EXCEPT ![r].stage = s]
    BY <1>10 DEF Sign, Insert
  <2>2. request[r].stage \in {"sign", "insert"} /\ UNCHANGED <<state, stepup, leaked, due>>
    BY <1>10 DEF Sign, Insert, minted
  <2>3. PICK q : q = [request[r] EXCEPT !.stage = s]
    OBVIOUS
  <2>4. q.stage = s /\ q.up = request[r].up /\ q.acct = request[r].acct /\ Moves(r, q)
    BY <1>t, <1>h, <2>1, <2>3 DEF HandlerOK, Handler, Moves, TypeOK
  <2> QED  BY <1>3, <1>o, <2>2, <2>4
<1>11. ASSUME NEW r \in Requests, Replayed(r) \/ Refuse(r) \/ Abort(r) PROVE LeakInv'
  <2>1. /\ Moves(r, Idle) /\ Idle.stage = "idle" /\ UNCHANGED <<state, stepup, leaked>>
        /\ UNCHANGED due \/ Drop
    BY <1>11 DEF Replayed, Refuse, Abort, Moves, minted
  <2> QED  BY <1>3, <1>o, <2>1
<1>12. CASE UNCHANGED vars
  <2>1. \A a \in Accounts : UnderWay(a)' \subseteq UnderWay(a)
    BY <1>12 DEF vars, UnderWay, Making, Signing, Open
  <2> QED  BY <1>12, <1>t, <1>o, <2>1, FreezeKept DEF vars
<1> QED  BY <1>1, <1>2, <1>4, <1>5, <1>6, <1>7, <1>8, <1>9, <1>10, <1>11, <1>12 DEF Next

-----------------------------------------------------------------------------
(* The theorems about DelegatedAuthority.                                  *)

LEMMA InitInv == Init => IInv /\ LeakInv
<1> SUFFICES ASSUME Init PROVE IInv /\ LeakInv  OBVIOUS
<1>1. TypeOK
  BY DEF Init, TypeOK, Stages, Standing!Init
<1>2. HandlerInv /\ OneHandler /\ SigningsTellAuthorities /\ SpentIsAccountedFor
  BY DEF Init, HandlerInv, OneHandler, SigningsTellAuthorities, SpentIsAccountedFor, Deciding
<1>3. LeakInv
  BY DEF Init, Standing!Init, LeakInv
<1> QED  BY <1>1, <1>2, <1>3 DEF IInv

\* A step of both is a step of what is delegated, or none.
LEMMA BothStep == [BothNext]_<<vars, phoneVars>> => [Next]_vars
BY DEF BothNext

THEOREM DelegationInvariant == BothSpec => [](IInv /\ LeakInv)
<1>1. BothInit => IInv /\ LeakInv
  BY InitInv DEF BothInit
<1>2. IInv /\ LeakInv /\ [BothNext]_<<vars, phoneVars>> => (IInv /\ LeakInv)'
  BY BothStep, InvStep, LeakStep DEF IInv
<1> QED  BY <1>1, <1>2, PTL DEF BothSpec

\* Rows, handlers and history keep their types in every run.
THEOREM TypeCorrect == BothSpec => []TypeOK
<1>1. IInv /\ LeakInv => TypeOK
  BY DEF IInv
<1> QED  BY <1>1, DelegationInvariant, PTL

\* What step-ups and audience tokens mint while an account is frozen was under
\* way when the freeze began: no verification and no signing, which do not look
\* at the state, gives more than that.
THEOREM FreezePasses == BothSpec => []FreezePassesWhatWasUnderWay
<1>1. IInv /\ LeakInv => FreezePassesWhatWasUnderWay
  BY DEF LeakInv, FreezePassesWhatWasUnderWay
<1> QED  BY <1>1, DelegationInvariant, PTL

\* The signings table and the delegated tokens that are out agree, and no
\* step-up is behind two of them.
THEOREM SigningsAgree == BothSpec => []SigningsTellAuthorities
<1>1. IInv /\ LeakInv => SigningsTellAuthorities
  BY DEF IInv
<1> QED  BY <1>1, DelegationInvariant, PTL

\* A step-up that is spent was signed by, or the log has a rejection of the jti
\* that it was spent for, unless its handler is at it or ended in between.
THEOREM SpendingAccounted == BothSpec => []SpentIsAccountedFor
<1>1. IInv /\ LeakInv => SpentIsAccountedFor
  BY DEF IInv
<1> QED  BY <1>1, DelegationInvariant, PTL

-----------------------------------------------------------------------------
(* Signing keeps the promise of StepUpLedger.                              *)

LEMMA LedgerInit == Init => Ledger!Init
<1> SUFFICES ASSUME Init PROVE Ledger!Init  OBVIOUS
<1>1. ASSUME NEW u \in StepUps PROVE Signed[u] = 0
  <2>1. {j \in Jtis : signing[j].up = u} = {}
    BY DEF Init
  <2> QED  BY <2>1, FS_EmptySet DEF Signed
<1>2. Signed = [u \in StepUps |-> 0]
  BY <1>1 DEF Signed
<1>3. LedgerStage = [u \in StepUps |-> "open"]
  BY DEF Init, LedgerStage, StageOf
<1> QED  BY <1>2, <1>3 DEF Ledger!Init

\* A step that writes neither step-ups nor signings is none of the ledger.
LEMMA LedgerQuiet == ASSUME UNCHANGED <<stepup, signing>> PROVE UNCHANGED Ledger!ledgerVars
BY DEF LedgerStage, StageOf, Signed, Ledger!ledgerVars

\* One step-up moves on, and nothing is signed.
LEMMA LedgerAdvance ==
    ASSUME TypeOK, NEW u \in StepUps, NEW s \in {"pending", "proved", "live", "spent"},
           stepup' = [stepup EXCEPT ![u].status = s], UNCHANGED signing
    PROVE  /\ LedgerStage[u] = StageOf(stepup[u].status)
           /\ LedgerStage' = [LedgerStage EXCEPT ![u] = StageOf(s)]
           /\ Signed' = Signed
<1>1. /\ stepup'[u].status = s
      /\ \A v \in StepUps : v # u => stepup'[v] = stepup[v]
  BY DEF TypeOK
<1>2. \A v \in StepUps : StageOf(stepup'[v].status) = IF v = u THEN StageOf(s) ELSE StageOf(stepup[v].status)
  BY <1>1
<1>3. LedgerStage' = [v \in StepUps |-> StageOf(stepup'[v].status)]
  BY DEF LedgerStage, StageOf
<1>4. LedgerStage' = [LedgerStage EXCEPT ![u] = StageOf(s)]
  BY <1>2, <1>3 DEF LedgerStage
<1>5. Signed' = Signed
  BY DEF Signed
<1> QED  BY <1>4, <1>5 DEF LedgerStage

LEMMA LedgerStep == IInv /\ [Next]_vars => [Ledger!Next]_Ledger!ledgerVars
<1> SUFFICES ASSUME IInv, [Next]_vars PROVE Ledger!Next \/ UNCHANGED Ledger!ledgerVars
  BY Zenon
<1>t. TypeOK /\ HandlerInv /\ \A r \in Requests : HandlerOK(request[r])
  BY DEF IInv, TypeOK, HandlerOK, Handler
<1>1. ASSUME NEW u \in StepUps, Prove(u) PROVE Ledger!Next
  <2>1. stepup[u].status = "pending" /\ stepup' = [stepup EXCEPT ![u].status = "proved"] /\ UNCHANGED signing
    BY <1>1 DEF Prove
  <2>2. Ledger!ProveFactor(u)
    BY <1>t, <2>1, LedgerAdvance DEF StageOf, Ledger!ProveFactor, Ledger!Advance
  <2> QED  BY <2>2 DEF Ledger!Next
<1>2. ASSUME NEW u \in StepUps, Verify(u) PROVE Ledger!Next
  <2>1. stepup[u].status = "proved" /\ stepup' = [stepup EXCEPT ![u].status = "live"] /\ UNCHANGED signing
    BY <1>2 DEF Verify
  <2>2. Ledger!IssueToken(u)
    BY <1>t, <2>1, LedgerAdvance DEF StageOf, Ledger!IssueToken, Ledger!Advance
  <2> QED  BY <2>2 DEF Ledger!Next
<1>3. ASSUME NEW r \in Requests, Spend(r) PROVE Ledger!Next
  <2> DEFINE u == request[r].up
  <2>1. /\ u \in StepUps /\ stepup[u].status = "live"
        /\ stepup' = [stepup EXCEPT ![u].status = "spent"] /\ UNCHANGED signing
    BY <1>3, <1>t DEF Spend, HandlerOK
  <2>2. PICK v \in StepUps : v = u
    BY <2>1
  <2> HIDE DEF u
  <2>3. Ledger!SpendToken(v)
    BY <1>t, <2>1, <2>2, LedgerAdvance DEF StageOf, Ledger!SpendToken, Ledger!Advance
  <2> QED  BY <2>3 DEF Ledger!Next
<1>4. ASSUME NEW r \in Requests, CreateChallenge(r) PROVE UNCHANGED Ledger!ledgerVars
  <2> DEFINE u == request[r].up
  <2>1. /\ u \in StepUps /\ stepup[u].status = "absent"
        /\ stepup' = [stepup EXCEPT ![u] = [status |-> "pending", acct |-> request[r].acct]]
        /\ UNCHANGED signing
    BY <1>4, <1>t DEF CreateChallenge, HandlerInv, HandlerOK
  <2>2. /\ stepup'[u].status = "pending"
        /\ \A v \in StepUps : v # u => stepup'[v] = stepup[v]
    BY <1>t, <2>1 DEF TypeOK
  <2>3. \A v \in StepUps : StageOf(stepup'[v].status) = StageOf(stepup[v].status)
    BY <2>1, <2>2 DEF StageOf
  <2>4. LedgerStage' = LedgerStage
    <3>1. LedgerStage' = [v \in StepUps |-> StageOf(stepup'[v].status)]
      BY DEF LedgerStage, StageOf
    <3> QED  BY <2>3, <3>1 DEF LedgerStage
  <2>5. Signed' = Signed
    BY <2>1 DEF Signed
  <2> QED  BY <2>4, <2>5 DEF Ledger!ledgerVars
<1>5. ASSUME NEW r \in Requests, Insert(r) PROVE Ledger!Next \/ UNCHANGED Ledger!ledgerVars
  <2>1. /\ request[r].stage = "insert" /\ request[r].jti \in Jtis /\ request[r].up \in StepUps \cup {NoStepUp}
        /\ signing[request[r].jti] = NoClaims /\ stepup' = stepup
    BY <1>5, <1>t DEF Insert, HandlerOK, Handler
  <2>2. PICK u \in StepUps \cup {NoStepUp}, k \in Jtis : u = request[r].up /\ k = request[r].jti
    BY <2>1
  <2>3. /\ signing'[k].up = u /\ signing[k].up = NoStepUp
        /\ \A j \in Jtis : j # k => signing'[j] = signing[j]
    BY <1>5, <1>t, <2>1, <2>2 DEF Insert, TypeOK
  <2>4. LedgerStage' = LedgerStage
    BY <2>1 DEF LedgerStage, StageOf
  <2>5. ASSUME NEW v \in StepUps, v # u PROVE Signed'[v] = Signed[v]
    <3>1. {j \in Jtis : signing'[j].up = v} = {j \in Jtis : signing[j].up = v}
      BY <2>3, <2>5
    <3> QED  BY <3>1 DEF Signed
  <2>6. CASE u = NoStepUp
    <3>1. Signed' = Signed
      BY <2>5, <2>6 DEF Signed
    <3> QED  BY <2>4, <3>1 DEF Ledger!ledgerVars
  <2>7. CASE u \in StepUps
    <3>1. stepup[u].status = "spent" /\ \A j \in Jtis : signing[j].up # u
      <4>1. stepup[u] = [status |-> "spent", acct |-> request[r].acct] /\ \A j \in Jtis : signing[j].up # u
        BY <1>t, <2>1, <2>2, <2>7 DEF HandlerInv, Deciding
      <4> QED  BY <4>1
    <3>2. Signed[u] = 0
      <4>1. {j \in Jtis : signing[j].up = u} = {}
        BY <3>1
      <4> QED  BY <2>7, <4>1, FS_EmptySet DEF Signed
    <3>3. Signed'[u] = 1
      <4>1. {j \in Jtis : signing'[j].up = u} = {k}
        BY <2>3, <3>1
      <4> QED  BY <2>7, <4>1, FS_Singleton DEF Signed
    <3>4. Signed' = [Signed EXCEPT ![u] = 1]
      <4>1. /\ Signed = [v \in StepUps |-> Signed[v]]
            /\ Signed' = [v \in StepUps |-> Signed'[v]]
        BY DEF Signed
      <4> QED  BY <2>5, <3>3, <4>1
    <3>5. LedgerStage[u] = "spent"
      BY <2>7, <3>1 DEF LedgerStage, StageOf
    <3>6. Ledger!Operate(u)
      BY <2>4, <3>2, <3>4, <3>5 DEF Ledger!Operate
    <3> QED  BY <2>7, <3>6 DEF Ledger!Next
  <2> QED  BY <2>6, <2>7
<1>6. ASSUME UNCHANGED <<stepup, signing>> PROVE UNCHANGED Ledger!ledgerVars
  BY <1>6, LedgerQuiet
<1> QED
  BY <1>1, <1>2, <1>3, <1>4, <1>5, <1>6
     DEF Next, Activate, Freeze, FindActive, ReplyAudience, AskSign, AskSignUnder, Replayed, Sign,
         Refuse, Reply, Abort, vars

\* Whatever requests, refusals and deaths meet: one authority at most is signed
\* by a step-up, after the step-up was proved, issued and spent, once each.
THEOREM SigningLedger == BothSpec => SigningKeepsLedger
<1>1. BothInit => Ledger!Init
  BY LedgerInit DEF BothInit
<1>2. IInv /\ [BothNext]_<<vars, phoneVars>> => [Ledger!Next]_Ledger!ledgerVars
  BY BothStep, LedgerStep
<1> QED  BY <1>1, <1>2, DelegationInvariant, PTL DEF BothSpec, SigningKeepsLedger, Ledger!Spec

-----------------------------------------------------------------------------
(* Phone tokens.                                                           *)

Call == [stage : Phone!Stages, tok : Tokens \cup {NoToken}, acct : Accounts \cup {NoAccount},
         reason : Reasons \cup {NoReason}, phone : Phones \cup {NoPhone},
         good : BOOLEAN, held : SUBSET Phones]

\* What the tables say of the request q that a handler works on.
CallOK(q) ==
    /\ q \in Call
    /\ q.stage # "idle" => q.tok \in Tokens
    /\ q.stage = "insert" => q.acct \in Accounts /\ row[q.tok].status = "absent"
    /\ q.stage \notin {"idle", "insert"} => row[q.tok].status # "absent"
    /\ q.stage \in {"find", "read", "answer"} => q.acct \in Accounts /\ phone[q.acct] \in q.held
    /\ q.stage = "find" /\ row[q.tok].status = "live" /\ q.tok \notin lapsed => q.good
    /\ q.stage \in {"read", "answer"} => q.good
    /\ q.stage = "answer" => q.phone \in q.held
    /\ q.stage \in {"reread", "revoked"} => row[q.tok].status = "revoked"
    /\ q.stage = "revoked" => row[q.tok].reason = q.reason

RowsOK ==
    /\ phone \in [Accounts -> Phones]
    /\ row \in [Tokens -> Phone!Row]
    /\ lapsed \in SUBSET Tokens
    /\ out \in SUBSET Tokens
    /\ \A t \in Tokens : IF row[t].status = "absent" THEN row[t] = Phone!NoRow ELSE row[t].acct \in Accounts
    /\ \A t \in out : row[t].status # "absent"

CallsOK ==
    /\ handler \in [Handlers -> Call]
    /\ \A h \in Handlers : CallOK(handler[h])
    /\ \A g, h \in Handlers : g # h /\ handler[g].stage = "insert" /\ handler[h].stage = "insert"
                                 => handler[g].tok # handler[h].tok

PhoneInv == RowsOK /\ CallsOK

\* h alone moves, to q, and no row changes.
LEMMA CallMoves ==
    ASSUME PhoneInv, NEW h \in Handlers, NEW q, handler' = [handler EXCEPT ![h] = q], CallOK(q),
           q.stage = "insert" => \A g \in Handlers : handler[g].tok # q.tok,
           UNCHANGED <<phone, row, lapsed>>
    PROVE  CallsOK'
<1>1. /\ handler'[h] = q
      /\ \A g \in Handlers : g # h => handler'[g] = handler[g]
  BY DEF PhoneInv, CallsOK
<1>2. handler' \in [Handlers -> Call]
  BY DEF PhoneInv, CallsOK, CallOK
<1>3. ASSUME NEW g \in Handlers PROVE CallOK(handler[g])'
  <2>1. CASE g = h
    BY <1>1, <2>1 DEF CallOK
  <2>2. CASE g # h
    BY <1>1, <2>2 DEF PhoneInv, CallsOK, CallOK
  <2> QED  BY <2>1, <2>2
<1>4. \A f, g \in Handlers : f # g /\ handler'[f].stage = "insert" /\ handler'[g].stage = "insert"
                                => handler'[f].tok # handler'[g].tok
  BY <1>1 DEF PhoneInv, CallsOK
<1> QED  BY <1>2, <1>3, <1>4 DEF CallsOK

LEMMA PhoneStep == PhoneInv /\ [Phone!Next]_phoneVars => PhoneInv'
<1> SUFFICES ASSUME PhoneInv, [Phone!Next]_phoneVars PROVE RowsOK' /\ CallsOK'
  BY DEF PhoneInv
<1> USE DEF Phone!At, Phone!Set, Phone!Go, Phone!Finish, Phone!Idle, Phone!NoRow, Phone!Row, Phone!Good
<1>0. RowsOK /\ CallsOK /\ (\A h \in Handlers : CallOK(handler[h]))
  BY DEF PhoneInv, CallsOK
<1>i. CallOK(Phone!Idle) /\ Phone!Idle.stage # "insert"
  BY DEF CallOK, Call, Phone!Stages
<1>1. ASSUME NEW t \in Tokens, Phone!Lapse(t) PROVE RowsOK' /\ CallsOK'
  <2>1. RowsOK'
    BY <1>0, <1>1 DEF Phone!Lapse, RowsOK
  <2>2. \A h \in Handlers : CallOK(handler[h])'
    BY <1>0, <1>1 DEF Phone!Lapse, CallOK
  <2> QED  BY <1>0, <1>1, <2>1, <2>2 DEF Phone!Lapse, CallsOK
<1>2. ASSUME NEW a \in Accounts, NEW p \in Phones, Phone!SwapPhone(a, p) PROVE RowsOK' /\ CallsOK'
  <2>1. RowsOK'
    BY <1>0, <1>2 DEF Phone!SwapPhone, Phone!Directory!Move, RowsOK
  <2>2. phone'[a] = p /\ \A b \in Accounts : b # a => phone'[b] = phone[b]
    BY <1>0, <1>2 DEF Phone!SwapPhone, Phone!Directory!Move, RowsOK
  <2>3. ASSUME NEW h \in Handlers PROVE handler'[h] \in Call /\ CallOK(handler[h])'
    <3>1. handler[h] \in Call
      BY <1>0 DEF CallOK
    <3>2. CASE handler[h].held # {} /\ handler[h].acct = a
      <4> DEFINE q == [handler[h] EXCEPT !.held = @ \cup {p}]
      <4>1. handler'[h] = q
        BY <1>2, <3>2 DEF Phone!SwapPhone
      <4>2. /\ q \in Call /\ q.stage = handler[h].stage /\ q.tok = handler[h].tok /\ q.acct = a
            /\ q.good = handler[h].good /\ q.phone = handler[h].phone /\ q.reason = handler[h].reason
            /\ p \in q.held /\ handler[h].held \subseteq q.held
        BY <1>2, <3>1, <3>2 DEF Call
      <4>3. CallOK(handler[h]) /\ phone'[a] \in q.held /\ row' = row /\ lapsed' = lapsed
        BY <1>0, <1>2, <2>2, <4>2 DEF Phone!SwapPhone
      <4> HIDE DEF q
      <4> QED  BY <4>1, <4>2, <4>3 DEF CallOK
    <3>3. CASE ~(handler[h].held # {} /\ handler[h].acct = a)
      <4>1. handler'[h] = handler[h]
        BY <1>2, <3>3 DEF Phone!SwapPhone
      <4>2. handler[h].stage \in {"find", "read", "answer"} => handler[h].acct # a
        BY <1>0, <3>3 DEF CallOK
      <4> QED  BY <1>0, <1>2, <2>2, <3>1, <4>1, <4>2 DEF CallOK, Phone!SwapPhone
    <3> QED  BY <3>2, <3>3
  <2>4. handler' \in [Handlers -> Call]
    BY <1>2, <2>3 DEF Phone!SwapPhone
  <2>5. \A h \in Handlers : handler'[h].stage = handler[h].stage /\ handler'[h].tok = handler[h].tok
    BY <1>0, <1>2 DEF Phone!SwapPhone, CallOK, Call
  <2> QED  BY <1>0, <2>1, <2>3, <2>4, <2>5 DEF CallsOK
<1>3. ASSUME NEW h \in Handlers, NEW t \in Tokens, NEW a \in Accounts, Phone!Mint(h, t, a)
      PROVE  RowsOK' /\ CallsOK'
  <2> DEFINE q == [Phone!Idle EXCEPT !.stage = "insert", !.tok = t, !.acct = a]
  <2>1. q \in Call /\ q.stage = "insert" /\ q.tok = t /\ q.acct = a
    BY DEF Call, Phone!Stages
  <2>2. row[t].status = "absent" /\ handler' = [handler EXCEPT ![h] = q]
    BY <1>3 DEF Phone!Mint
  <2> HIDE DEF q
  <2>3. CallOK(q)
    BY <2>1, <2>2 DEF CallOK
  <2> QED  BY <1>0, <1>3, <2>1, <2>2, <2>3, CallMoves DEF Phone!Mint, RowsOK
<1>4. ASSUME NEW h \in Handlers, NEW q, handler' = [handler EXCEPT ![h] = q], CallOK(q), q.stage # "insert",
             UNCHANGED <<phone, row, lapsed, out>>
      PROVE  RowsOK' /\ CallsOK'
  BY <1>0, <1>4, CallMoves DEF RowsOK
<1>5. ASSUME NEW h \in Handlers, Phone!CreateSession(h) PROVE RowsOK' /\ CallsOK'
  <2> DEFINE q == [handler[h] EXCEPT !.stage = "reply"]
  <2>1. CallOK(q) /\ q.stage # "insert"
    BY <1>0, <1>5 DEF Phone!CreateSession, CallOK, Call, Phone!Stages
  <2>2. handler' = [handler EXCEPT ![h] = q]
    BY <1>0, <1>5 DEF Phone!CreateSession, CallsOK
  <2> HIDE DEF q
  <2> QED  BY <1>4, <1>5, <2>1, <2>2 DEF Phone!CreateSession
<1>6. ASSUME NEW h \in Handlers, Phone!Reply(h) PROVE RowsOK' /\ CallsOK'
  <2>1. handler[h].tok \in Tokens /\ row[handler[h].tok].status # "absent"
    BY <1>0, <1>6 DEF Phone!Reply, CallOK
  <2>2. RowsOK'
    BY <1>0, <1>6, <2>1 DEF Phone!Reply, RowsOK
  <2> QED  BY <1>i, <1>6, <2>2, CallMoves DEF Phone!Reply
<1>7. ASSUME NEW h \in Handlers, NEW t \in Tokens, Phone!AskResolve(h, t) PROVE RowsOK' /\ CallsOK'
  <2> DEFINE q == [Phone!Idle EXCEPT !.stage = "find", !.tok = t, !.acct = row[t].acct,
                                     !.good = Phone!Good(t), !.held = {phone[row[t].acct]}]
  <2>1. row[t].status # "absent" /\ row[t].acct \in Accounts /\ phone[row[t].acct] \in Phones
    BY <1>0, <1>7 DEF Phone!AskResolve, RowsOK
  <2>2. CallOK(q) /\ q.stage # "insert"
    BY <2>1 DEF CallOK, Call, Phone!Stages
  <2>3. handler' = [handler EXCEPT ![h] = q]
    BY <1>7 DEF Phone!AskResolve
  <2> HIDE DEF q
  <2> QED  BY <1>4, <1>7, <2>2, <2>3 DEF Phone!AskResolve
<1>8. ASSUME NEW h \in Handlers, Phone!Find(h) PROVE RowsOK' /\ CallsOK'
  <2>1. CASE Phone!Good(handler[h].tok)
    <3> DEFINE q == [handler[h] EXCEPT !.stage = "read"]
    <3>1. CallOK(q) /\ q.stage # "insert"
      BY <1>0, <1>8, <2>1 DEF Phone!Find, CallOK, Call, Phone!Stages
    <3>2. handler' = [handler EXCEPT ![h] = q]
      BY <1>0, <1>8, <2>1 DEF Phone!Find, CallsOK
    <3> HIDE DEF q
    <3> QED  BY <1>4, <1>8, <3>1, <3>2 DEF Phone!Find
  <2>2. CASE ~Phone!Good(handler[h].tok)
    <3>1. handler' = [handler EXCEPT ![h] = Phone!Idle]
      BY <1>8, <2>2 DEF Phone!Find
    <3> QED  BY <1>i, <1>4, <1>8, <3>1 DEF Phone!Find
  <2> QED  BY <2>1, <2>2
<1>9. ASSUME NEW h \in Handlers, Phone!ReadPhone(h) PROVE RowsOK' /\ CallsOK'
  <2> DEFINE q == [handler[h] EXCEPT !.stage = "answer", !.phone = phone[handler[h].acct]]
  <2>1. /\ handler[h].acct \in Accounts /\ phone[handler[h].acct] \in handler[h].held
        /\ phone[handler[h].acct] \in Phones
    BY <1>0, <1>9 DEF Phone!ReadPhone, CallOK, RowsOK
  <2>2. CallOK(q) /\ q.stage # "insert"
    BY <1>0, <1>9, <2>1 DEF Phone!ReadPhone, CallOK, Call, Phone!Stages
  <2>3. handler' = [handler EXCEPT ![h] = q]
    BY <1>9 DEF Phone!ReadPhone
  <2> HIDE DEF q
  <2> QED  BY <1>4, <1>9, <2>2, <2>3 DEF Phone!ReadPhone
<1>10. ASSUME NEW h \in Handlers, NEW t \in Tokens, NEW why \in Reasons, Phone!AskRevoke(h, t, why)
       PROVE  RowsOK' /\ CallsOK'
  <2> DEFINE q == [Phone!Idle EXCEPT !.stage = "revoke", !.tok = t, !.reason = why]
  <2>1. CallOK(q) /\ q.stage # "insert"
    <3>1. row[t] \in Phone!Row /\ row[t] # Phone!NoRow
      BY <1>0, <1>10 DEF Phone!AskRevoke, RowsOK
    <3>2. row[t].status # "absent"
      BY <1>0, <3>1 DEF RowsOK
    <3> QED  BY <3>2 DEF CallOK, Call, Phone!Stages
  <2>2. handler' = [handler EXCEPT ![h] = q]
    BY <1>10 DEF Phone!AskRevoke
  <2> HIDE DEF q
  <2> QED  BY <1>4, <1>10, <2>1, <2>2 DEF Phone!AskRevoke
<1>11. ASSUME NEW h \in Handlers, Phone!RevokedBefore(h) PROVE RowsOK' /\ CallsOK'
  <2> DEFINE q == [handler[h] EXCEPT !.stage = "reread"]
  <2>1. CallOK(q) /\ q.stage # "insert"
    BY <1>0, <1>11 DEF Phone!RevokedBefore, CallOK, Call, Phone!Stages
  <2>2. handler' = [handler EXCEPT ![h] = q]
    BY <1>0, <1>11 DEF Phone!RevokedBefore, CallsOK
  <2> HIDE DEF q
  <2> QED  BY <1>4, <1>11, <2>1, <2>2 DEF Phone!RevokedBefore
<1>12. ASSUME NEW h \in Handlers, Phone!Reread(h) PROVE RowsOK' /\ CallsOK'
  <2> DEFINE q == [handler[h] EXCEPT !.stage = "revoked", !.reason = row[handler[h].tok].reason]
  <2>1. handler[h].tok \in Tokens /\ row[handler[h].tok].reason \in Reasons \cup {NoReason}
    BY <1>0, <1>12 DEF Phone!Reread, CallOK, RowsOK
  <2>2. CallOK(q) /\ q.stage # "insert"
    BY <1>0, <1>12, <2>1 DEF Phone!Reread, CallOK, Call, Phone!Stages
  <2>3. handler' = [handler EXCEPT ![h] = q]
    BY <1>12 DEF Phone!Reread
  <2> HIDE DEF q
  <2> QED  BY <1>4, <1>12, <2>2, <2>3 DEF Phone!Reread
<1>13. ASSUME NEW h \in Handlers, Phone!Answer(h) \/ Phone!ReplyRevoked(h) \/ Phone!Abort(h)
       PROVE  RowsOK' /\ CallsOK'
  BY <1>i, <1>4, <1>13 DEF Phone!Answer, Phone!ReplyRevoked, Phone!Abort
<1>14. ASSUME NEW h \in Handlers, Phone!Insert(h) PROVE RowsOK' /\ CallsOK'
  <2>1. PICK s \in {"session", "reply"} : handler' = [handler EXCEPT ![h].stage = s]
    BY <1>14 DEF Phone!Insert
  <2> DEFINE q == [handler[h] EXCEPT !.stage = s]
             t == handler[h].tok
  <2>2. /\ t \in Tokens /\ handler[h].acct \in Accounts /\ row[t].status = "absent"
        /\ handler[h].stage = "insert" /\ handler[h] \in Call
    BY <1>0, <1>14 DEF Phone!Insert, CallOK
  <2>3. /\ row'[t] = [status |-> "live", acct |-> handler[h].acct, reason |-> NoReason]
        /\ \A u \in Tokens : u # t => row'[u] = row[u]
        /\ row' \in [Tokens -> Phone!Row]
    BY <1>0, <1>14, <2>2 DEF Phone!Insert, RowsOK
  <2>4. /\ q \in Call /\ q.stage \in {"session", "reply"} /\ q.tok = t
        /\ handler'[h] = q /\ \A g \in Handlers : g # h => handler'[g] = handler[g]
    BY <1>0, <2>1, <2>2 DEF CallsOK, Call, Phone!Stages
  <2>5. RowsOK'
    BY <1>0, <1>14, <2>2, <2>3 DEF Phone!Insert, RowsOK
  <2>6. handler' \in [Handlers -> Call]
    BY <1>0, <2>1, <2>4 DEF CallsOK
  <2> HIDE DEF q
  <2>7. CallOK(handler[h])'
    BY <1>14, <2>2, <2>3, <2>4 DEF CallOK, Phone!Insert
  <2>8. ASSUME NEW g \in Handlers, g # h PROVE CallOK(handler[g])'
    <3>1. CallOK(handler[g]) /\ handler'[g] = handler[g] /\ phone' = phone /\ lapsed' = lapsed
      BY <1>0, <1>14, <2>4, <2>8 DEF Phone!Insert
    <3>2. handler[g].stage # "idle" => handler[g].tok # t
      BY <1>0, <2>2, <2>8 DEF CallsOK, CallOK
    <3>3. handler[g].stage # "idle" => row'[handler[g].tok] = row[handler[g].tok]
      BY <2>3, <3>1, <3>2 DEF CallOK
    <3> QED  BY <3>1, <3>3 DEF CallOK
  <2>9. \A f, g \in Handlers : f # g /\ handler'[f].stage = "insert" /\ handler'[g].stage = "insert"
                                  => handler'[f].tok # handler'[g].tok
    BY <1>0, <2>4 DEF CallsOK
  <2> QED  BY <2>5, <2>6, <2>7, <2>8, <2>9 DEF CallsOK
<1>15. ASSUME NEW h \in Handlers, Phone!Revoke(h) PROVE RowsOK' /\ CallsOK'
  <2> DEFINE q == [handler[h] EXCEPT !.stage = "revoked"]
             t == handler[h].tok
  <2>1. /\ t \in Tokens /\ row[t].status = "live" /\ handler[h].stage = "revoke" /\ handler[h] \in Call
        /\ handler[h].reason \in Reasons \cup {NoReason}
    BY <1>0, <1>15 DEF Phone!Revoke, CallOK, Call
  <2>2. /\ row'[t].status = "revoked" /\ row'[t].reason = handler[h].reason /\ row'[t].acct = row[t].acct
        /\ \A u \in Tokens : u # t => row'[u] = row[u]
        /\ row' \in [Tokens -> Phone!Row]
    BY <1>0, <1>15, <2>1 DEF Phone!Revoke, RowsOK
  <2>3. /\ q \in Call /\ q.stage = "revoked" /\ q.tok = t /\ q.reason = handler[h].reason
        /\ handler'[h] = q /\ \A g \in Handlers : g # h => handler'[g] = handler[g]
    BY <1>0, <1>15, <2>1 DEF Phone!Revoke, CallsOK, Call, Phone!Stages
  <2>4. RowsOK'
    BY <1>0, <1>15, <2>1, <2>2 DEF Phone!Revoke, RowsOK
  <2>5. handler' \in [Handlers -> Call]
    BY <1>0, <1>15, <2>3 DEF Phone!Revoke, CallsOK
  <2> HIDE DEF q
  <2>6. CallOK(handler[h])'
    BY <1>15, <2>1, <2>2, <2>3 DEF CallOK, Phone!Revoke
  <2>7. ASSUME NEW g \in Handlers, g # h PROVE CallOK(handler[g])'
    <3>1. CallOK(handler[g]) /\ handler'[g] = handler[g] /\ phone' = phone /\ lapsed' = lapsed
      BY <1>0, <1>15, <2>3, <2>7 DEF Phone!Revoke
    <3>2. handler[g].stage # "idle" /\ handler[g].tok = t
             => handler[g].stage \notin {"insert", "reread", "revoked"}
      BY <2>1, <3>1 DEF CallOK
    <3>3. CASE handler[g].tok = t
      BY <2>1, <2>2, <3>1, <3>2, <3>3 DEF CallOK
    <3>4. CASE handler[g].tok # t
      BY <2>1, <2>2, <3>1, <3>4 DEF CallOK
    <3> QED  BY <3>3, <3>4
  <2>8. \A f, g \in Handlers : f # g /\ handler'[f].stage = "insert" /\ handler'[g].stage = "insert"
                                  => handler'[f].tok # handler'[g].tok
    BY <1>0, <2>3 DEF CallsOK
  <2> QED  BY <2>4, <2>5, <2>6, <2>7, <2>8 DEF CallsOK
<1>16. CASE UNCHANGED phoneVars
  BY <1>0, <1>16 DEF phoneVars, RowsOK, CallsOK, CallOK
<1> QED
  BY <1>1, <1>2, <1>3, <1>5, <1>6, <1>7, <1>8, <1>9, <1>10, <1>11, <1>12, <1>13, <1>14, <1>15, <1>16
     DEF Phone!Next

LEMMA PhoneInit == Phone!Init => PhoneInv
BY DEF Phone!Init, PhoneInv, RowsOK, CallsOK, CallOK, Call, Phone!Stages, Phone!NoRow, Phone!Row, Phone!Idle

LEMMA PhoneInvariant == BothSpec => []PhoneInv
<1>1. BothInit => PhoneInv
  BY PhoneInit DEF BothInit
<1>2. [BothNext]_<<vars, phoneVars>> => [Phone!Next]_phoneVars
  BY DEF BothNext
<1>3. PhoneInv /\ [BothNext]_<<vars, phoneVars>> => PhoneInv'
  BY <1>2, PhoneStep
<1> QED  BY <1>1, <1>3, PTL DEF BothSpec

\* A resolve answers only under a token that was neither revoked nor expired
\* when it came, and with a number that its account had since then.
THEOREM ResolvesInTime == BothSpec => []ResolvedInTime
<1>1. PhoneInv => ResolvedInTime
  BY DEF PhoneInv, CallsOK, CallOK, ResolvedInTime, Phone!ResolvedInTime, Phone!At
<1> QED  BY <1>1, PhoneInvariant, PTL

\* Whoever revokes a token, first or again, is told the one reason that stands.
THEOREM RevocationsOneReason == BothSpec => []RevocationsAgree
<1>1. PhoneInv => RevocationsAgree
  BY DEF PhoneInv, CallsOK, CallOK, RevocationsAgree, Phone!RevocationsAgree, Phone!At
<1> QED  BY <1>1, PhoneInvariant, PTL

-----------------------------------------------------------------------------
(* Consents                                                                *)

Asked == [stage : {"idle", "insert", "find", "granted", "reply", "revoked"},
          grant : Grants \cup {NoGrant}, key : Keys \cup {NoKey}]

\* Handlers that work on a grant of their own.
Granting == {"insert", "granted", "reply"}

\* What the grants and the topic say of the request q that a handler works on.
AskedOK(q) ==
    /\ q \in Asked
    /\ q.stage \in {"insert", "find"} => q.key \in Keys
    /\ q.stage \in Granting \cup {"revoked"} => q.grant \in Grants
    /\ q.stage = "insert" => grant[q.grant].status = "absent"
    /\ q.stage = "granted" => grant[q.grant].status # "absent" /\ ~Published("CONSENT_GRANTED", q.grant)
    /\ q.stage = "reply" => grant[q.grant].status # "absent" /\ Published("CONSENT_GRANTED", q.grant)
    /\ q.stage = "revoked" => /\ grant[q.grant].status = "revoked" /\ q.grant \in known
                              /\ ~Published("CONSENT_REVOKED", q.grant)

\* A grant has one handler that makes it, and one that has revoked it.
OwnGrants ==
    \A r, s \in Callers : r # s /\ asking[r].grant = asking[s].grant =>
        /\ ~(asking[r].stage \in Granting /\ asking[s].stage \in Granting)
        /\ ~(asking[r].stage = "revoked" /\ asking[s].stage = "revoked")

AskedAll == asking \in [Callers -> Asked] /\ \A r \in Callers : AskedOK(asking[r])

GrantOK(g) ==
    /\ grant[g].status = "absent" => ~Published("CONSENT_GRANTED", g) /\ g \notin known
    /\ grant[g].status # "revoked" => ~Published("CONSENT_REVOKED", g)
    /\ g \in known => g \in early \/ Published("CONSENT_GRANTED", g)

GrantsOK ==
    /\ grant \in [Grants -> Consent!Row] /\ topic \in Seq(Consent!Event)
    /\ known \in SUBSET Grants /\ early \in SUBSET known
    /\ \A g \in Grants : GrantOK(g)

ConsentInv == GrantsOK /\ AskedAll /\ OwnGrants /\ OneOpenGrant /\ TopicTrue

USE DEF Consent!At, Consent!Set, Consent!Busy, Consent!Go, Consent!Finish

\* The topic only grows, at its end.
LEMMA TopicGrows ==
    ASSUME topic \in Seq(Consent!Event), NEW type \in {"CONSENT_GRANTED", "CONSENT_REVOKED"}, NEW g \in Grants,
           Consent!Publish(type, g)
    PROVE  /\ topic' \in Seq(Consent!Event) /\ Len(topic) \in Nat /\ Len(topic') = Len(topic) + 1
           /\ DOMAIN topic = 1 .. Len(topic) /\ DOMAIN topic' = 1 .. (Len(topic) + 1)
           /\ \A i \in 1 .. Len(topic) : topic'[i] = topic[i]
           /\ topic'[Len(topic) + 1] = [type |-> type, grant |-> g]
           /\ \A t, h : Published(t, h)' <=> Published(t, h) \/ (t = type /\ h = g)
<1> DEFINE e == [type |-> type, grant |-> g]
           n == Len(topic)
<1>1. e \in Consent!Event /\ topic' = Append(topic, e)
  BY DEF Consent!Publish, Consent!Event
<1>2. /\ topic' \in Seq(Consent!Event) /\ n \in Nat /\ Len(topic') = n + 1
      /\ DOMAIN topic = 1 .. n /\ DOMAIN topic' = 1 .. (n + 1)
      /\ \A i \in 1 .. n : topic'[i] = topic[i]
      /\ topic'[n + 1] = e
  BY <1>1, AppendProperties, LenProperties
<1>3. ASSUME NEW t, NEW h PROVE Published(t, h)' <=> Published(t, h) \/ (t = type /\ h = g)
  <2>1. Published(t, h) => Published(t, h)'
    BY <1>2 DEF Published
  <2>2. t = type /\ h = g => Published(t, h)'
    BY <1>2 DEF Published
  <2>3. ASSUME NEW i \in DOMAIN topic', topic'[i].type = t, topic'[i].grant = h, ~(t = type /\ h = g)
        PROVE  Published(t, h)
    <3>1. i \in 1 .. n \/ i = n + 1
      BY <1>2
    <3> QED  BY <1>2, <2>3, <3>1 DEF Published
  <2> QED  BY <2>1, <2>2, <2>3 DEF Published
<1> QED  BY <1>2, <1>3

\* A new event that no earlier one equals, and that tells the grants truly.
LEMMA EventAppended ==
    ASSUME ConsentInv, NEW type \in {"CONSENT_GRANTED", "CONSENT_REVOKED"}, NEW g \in Grants,
           Consent!Publish(type, g), ~Published(type, g),
           type = "CONSENT_GRANTED" => grant[g].status # "absent",
           type = "CONSENT_REVOKED" => grant[g].status = "revoked" /\ (g \in early \/ Published("CONSENT_GRANTED", g)),
           UNCHANGED <<grant, known, early>>
    PROVE  TopicTrue'
<1> DEFINE n == Len(topic)
<1>0. topic \in Seq(Consent!Event) /\ TopicTrue
  BY DEF ConsentInv, GrantsOK
<1>1. /\ n \in Nat /\ DOMAIN topic = 1 .. n /\ DOMAIN topic' = 1 .. (n + 1)
      /\ \A i \in 1 .. n : topic'[i] = topic[i]
      /\ topic'[n + 1] = [type |-> type, grant |-> g]
  BY <1>0, TopicGrows
<1> HIDE DEF n
<1>2. \A i \in 1 .. n : topic[i] # topic'[n + 1]
  BY <1>1 DEF Published
<1>3. \A i, j \in DOMAIN topic' : topic'[i] = topic'[j] => i = j
  <2> SUFFICES ASSUME NEW i \in 1 .. (n + 1), NEW j \in 1 .. (n + 1), topic'[i] = topic'[j] PROVE i = j
    BY <1>1
  <2>1. CASE i \in 1 .. n /\ j \in 1 .. n
    BY <1>0, <1>1, <2>1 DEF TopicTrue
  <2>2. CASE i = n + 1 /\ j \in 1 .. n
    BY <1>1, <1>2, <2>2
  <2>3. CASE j = n + 1 /\ i \in 1 .. n
    BY <1>1, <1>2, <2>3
  <2> QED  BY <1>1, <2>1, <2>2, <2>3
<1>4. ASSUME NEW i \in DOMAIN topic'
      PROVE  LET h == topic'[i].grant IN
             IF topic'[i].type = "CONSENT_GRANTED" THEN grant'[h].status # "absent"
             ELSE /\ grant'[h].status = "revoked"
                  /\ h \in early' \/ \E j \in 1 .. (i - 1) : topic'[j].type = "CONSENT_GRANTED" /\ topic'[j].grant = h
  <2>1. CASE i \in 1 .. n
    <3>1. topic'[i] = topic[i] /\ \A j \in 1 .. (i - 1) : topic'[j] = topic[j]
      BY <1>1, <2>1
    <3> QED  BY <1>0, <1>1, <2>1, <3>1 DEF TopicTrue
  <2>2. CASE i = n + 1
    <3>1. i - 1 = n
      BY <1>1, <2>2
    <3>2. type = "CONSENT_REVOKED" => g \in early \/ \E j \in 1 .. (i - 1) : topic'[j].type = "CONSENT_GRANTED" /\ topic'[j].grant = g
      BY <1>1, <3>1 DEF Published
    <3> QED  BY <1>1, <2>2, <3>2
  <2> QED  BY <1>1, <2>1, <2>2
<1> QED  BY <1>3, <1>4 DEF TopicTrue

\* The moving handler has a grant of its own.
OwnMove(r, q) ==
    \A s \in Callers \ {r} : asking[s].grant = q.grant =>
        /\ ~(q.stage \in Granting /\ asking[s].stage \in Granting)
        /\ ~(q.stage = "revoked" /\ asking[s].stage = "revoked")

LEMMA AskedMoves ==
    ASSUME ConsentInv, NEW r \in Callers, NEW q, asking' = [asking EXCEPT ![r] = q],
           OwnMove(r, q), AskedOK(asking[r])', \A s \in Callers \ {r} : AskedOK(asking[s])'
    PROVE  AskedAll' /\ OwnGrants'
<1>1. asking'[r] = q /\ \A s \in Callers : s # r => asking'[s] = asking[s]
  BY DEF ConsentInv, AskedAll
<1>2. q \in Asked
  BY <1>1 DEF AskedOK
<1>3. asking' \in [Callers -> Asked] /\ \A s \in Callers : AskedOK(asking[s])'
  BY <1>1, <1>2 DEF ConsentInv, AskedAll
<1>4. OwnGrants'
  <2> SUFFICES ASSUME NEW a \in Callers, NEW b \in Callers, a # b, asking'[a].grant = asking'[b].grant
               PROVE  /\ ~(asking'[a].stage \in Granting /\ asking'[b].stage \in Granting)
                      /\ ~(asking'[a].stage = "revoked" /\ asking'[b].stage = "revoked")
    BY DEF OwnGrants
  <2>1. CASE a = r
    BY <1>1, <2>1 DEF OwnMove
  <2>2. CASE b = r
    BY <1>1, <2>2 DEF OwnMove
  <2>3. CASE a # r /\ b # r
    BY <1>1, <2>3 DEF ConsentInv, OwnGrants
  <2> QED  BY <2>1, <2>2, <2>3
<1> QED  BY <1>3, <1>4 DEF AskedAll

\* Somebody is told the id of a grant: by the answer to it, a conflict or a list.
Told(g) ==
    /\ known' = known \cup {g}
    /\ \/ early' = early \cup {g}
       \/ early' = early /\ (g \in known \/ Published("CONSENT_GRANTED", g))

\* Rows and topic stay.
LEMMA QuietTables ==
    ASSUME ConsentInv, UNCHANGED <<grant, topic>>,
           UNCHANGED <<known, early>> \/ \E g \in Grants : grant[g].status # "absent" /\ Told(g)
    PROVE  /\ GrantsOK' /\ OneOpenGrant' /\ TopicTrue'
           /\ known \subseteq known' /\ \A t, g : Published(t, g)' <=> Published(t, g)
<1>0. /\ known \subseteq known' /\ early \subseteq early'
      /\ \A t, g : Published(t, g)' <=> Published(t, g)
  BY DEF Told, Published
<1>2. known' \in SUBSET Grants /\ early' \in SUBSET known'
  BY DEF Told, ConsentInv, GrantsOK
<1>3. ASSUME NEW g \in Grants PROVE GrantOK(g)'
  <2>1. GrantOK(g)
    BY DEF ConsentInv, GrantsOK
  <2> QED  BY <1>0, <2>1 DEF GrantOK, Told
<1>4. GrantsOK'
  BY <1>2, <1>3 DEF ConsentInv, GrantsOK
<1>5. OneOpenGrant'
  BY DEF ConsentInv, OneOpenGrant, Consent!OpenFor
<1>6. TopicTrue'
  BY <1>0 DEF ConsentInv, TopicTrue
<1> QED  BY <1>0, <1>4, <1>5, <1>6

LEMMA QuietMove ==
    ASSUME ConsentInv, NEW r \in Callers, NEW q, asking' = [asking EXCEPT ![r] = q],
           AskedOK(q), OwnMove(r, q), UNCHANGED <<grant, topic>>,
           UNCHANGED <<known, early>> \/ \E g \in Grants : grant[g].status # "absent" /\ Told(g)
    PROVE  ConsentInv'
<1>1. /\ GrantsOK' /\ OneOpenGrant' /\ TopicTrue'
      /\ known \subseteq known' /\ \A t, g : Published(t, g)' <=> Published(t, g)
  BY QuietTables
<1>3. ASSUME NEW s \in Callers PROVE AskedOK(asking[s])'
  <2>1. asking'[s] = (IF s = r THEN q ELSE asking[s])
    BY DEF ConsentInv, AskedAll
  <2>2. AskedOK(asking'[s])
    BY <2>1 DEF ConsentInv, AskedAll
  <2> QED  BY <1>1, <2>2 DEF AskedOK
<1>4. AskedAll' /\ OwnGrants'
  BY <1>3, AskedMoves
<1> QED  BY <1>1, <1>4 DEF ConsentInv

LEMMA IdleAsked == AskedOK(Consent!Idle) /\ Consent!Idle.stage = "idle"
  BY DEF AskedOK, Consent!Idle, Asked, Granting

\* A handler that ends, whatever it was at.
LEMMA Ended ==
    ASSUME ConsentInv, NEW r \in Callers, Consent!Finish(r), UNCHANGED <<grant, topic>>,
           UNCHANGED <<known, early>> \/ \E g \in Grants : grant[g].status # "absent" /\ Told(g)
    PROVE  ConsentInv'
<1>1. OwnMove(r, Consent!Idle)
  BY IdleAsked DEF OwnMove, Granting
<1> QED  BY <1>1, IdleAsked, QuietMove

\* The steps of the rows.

LEMMA InsertStep == ASSUME ConsentInv, NEW r \in Callers, Consent!Insert(r) PROVE ConsentInv'
<1> DEFINE g == asking[r].grant
           k == asking[r].key
           w == [status |-> "open", key |-> k]
           q == [stage |-> "granted", grant |-> g, key |-> k]
<1>0. /\ g \in Grants /\ k \in Keys /\ grant[g].status = "absent" /\ Consent!OpenFor(k) = {}
      /\ ~Published("CONSENT_GRANTED", g) /\ ~Published("CONSENT_REVOKED", g) /\ g \notin known
  <2>1. asking[r].stage = "insert" /\ AskedOK(asking[r]) /\ Consent!OpenFor(k) = {}
    BY DEF Consent!Insert, ConsentInv, AskedAll
  <2>2. g \in Grants /\ k \in Keys /\ grant[g].status = "absent"
    BY <2>1 DEF AskedOK, Granting
  <2> QED  BY <2>1, <2>2 DEF ConsentInv, GrantsOK, GrantOK
<1>1. /\ grant' = [grant EXCEPT ![g] = w] /\ asking' = [asking EXCEPT ![r] = q]
      /\ topic' = topic /\ known' = known /\ early' = early
  BY DEF Consent!Insert
<1>2. /\ w \in Consent!Row /\ w.status = "open" /\ w.key = k /\ q \in Asked /\ q.stage = "granted" /\ q.grant = g
  BY <1>0 DEF Consent!Row, Asked
<1>a. asking[r].stage = "insert"
  BY DEF Consent!Insert
<1>b. \A s \in Callers \ {r} : ~(asking[s].stage \in Granting /\ asking[s].grant = g)
  BY <1>a DEF ConsentInv, OwnGrants, Granting
<1> HIDE DEF g, k, w, q
<1>3. grant' \in [Grants -> Consent!Row] /\ grant'[g] = w /\ \A h \in Grants : h # g => grant'[h] = grant[h]
  BY <1>0, <1>1, <1>2 DEF ConsentInv, GrantsOK
<1>4. \A t, h : Published(t, h)' <=> Published(t, h)
  BY <1>1 DEF Published
<1>5. GrantsOK'
  <2>1. ASSUME NEW h \in Grants PROVE GrantOK(h)'
    <3>1. GrantOK(h)
      BY DEF ConsentInv, GrantsOK
    <3> QED  BY <1>0, <1>1, <1>2, <1>3, <1>4, <3>1 DEF GrantOK
  <2> QED  BY <1>1, <1>3, <2>1 DEF ConsentInv, GrantsOK
<1>6. OneOpenGrant'
  BY <1>0, <1>2, <1>3 DEF ConsentInv, OneOpenGrant, Consent!OpenFor
<1>7. TopicTrue'
  <2> SUFFICES ASSUME NEW i \in DOMAIN topic
               PROVE  LET h == topic[i].grant IN
                      IF topic[i].type = "CONSENT_GRANTED" THEN grant'[h].status # "absent"
                      ELSE grant'[h].status = "revoked"
    BY <1>1 DEF ConsentInv, TopicTrue
  <2>1. topic[i] \in Consent!Event
    BY ElementOfSeq, LenProperties DEF ConsentInv, GrantsOK
  <2>2. topic[i].grant \in Grants /\ topic[i].grant # g
    BY <1>0, <2>1 DEF Published, Consent!Event
  <2> QED  BY <1>3, <2>2 DEF ConsentInv, TopicTrue
<1>8. ASSUME NEW s \in Callers \ {r} PROVE AskedOK(asking[s])'
  <2>1. asking'[s] = asking[s] /\ AskedOK(asking[s])
    BY <1>1 DEF ConsentInv, AskedAll
  <2>2. asking[s].stage \in Granting \cup {"revoked"} => asking[s].grant \in Grants
    BY <2>1 DEF AskedOK
  <2>3. asking[s].stage \in Granting \cup {"revoked"} => asking[s].grant # g
    BY <1>0, <1>b, <2>1 DEF AskedOK
  <2>4. asking[s].stage \in Granting \cup {"revoked"} => grant'[asking[s].grant] = grant[asking[s].grant]
    BY <1>3, <2>2, <2>3
  <2> QED  BY <1>1, <1>4, <2>1, <2>4 DEF AskedOK, Granting
<1>9. AskedOK(asking[r])'
  <2>1. asking'[r] = q
    BY <1>1 DEF ConsentInv, AskedAll
  <2> QED  BY <1>0, <1>2, <1>3, <1>4, <2>1 DEF AskedOK, Granting
<1>10. OwnMove(r, q)
  BY <1>2, <1>b DEF OwnMove
<1>11. AskedAll' /\ OwnGrants'
  BY <1>1, <1>8, <1>9, <1>10, AskedMoves
<1> QED  BY <1>5, <1>6, <1>7, <1>11 DEF ConsentInv

LEMMA RevokeStep == ASSUME ConsentInv, NEW r \in Callers, NEW g \in Grants, Consent!Revoke(r, g) PROVE ConsentInv'
<1> DEFINE w == [grant[g] EXCEPT !.status = "revoked"]
           q == [stage |-> "revoked", grant |-> g, key |-> NoKey]
<1>0. /\ g \in known /\ grant[g].status = "open" /\ ~Published("CONSENT_REVOKED", g)
      /\ g \in early \/ Published("CONSENT_GRANTED", g)
  BY DEF Consent!Revoke, ConsentInv, GrantsOK, GrantOK
<1>1. /\ grant' = [grant EXCEPT ![g] = w] /\ asking' = [asking EXCEPT ![r] = q]
      /\ topic' = topic /\ known' = known /\ early' = early
  BY DEF Consent!Revoke
<1>2. /\ w \in Consent!Row /\ w.status = "revoked" /\ q \in Asked /\ q.stage = "revoked" /\ q.grant = g
  BY DEF Consent!Row, Asked, ConsentInv, GrantsOK
<1> HIDE DEF w, q
<1>3. grant' \in [Grants -> Consent!Row] /\ grant'[g] = w /\ \A h \in Grants : h # g => grant'[h] = grant[h]
  BY <1>1, <1>2 DEF ConsentInv, GrantsOK
<1>4. \A t, h : Published(t, h)' <=> Published(t, h)
  BY <1>1 DEF Published
<1>5. GrantsOK'
  <2>1. ASSUME NEW h \in Grants PROVE GrantOK(h)'
    <3>1. GrantOK(h)
      BY DEF ConsentInv, GrantsOK
    <3> QED  BY <1>0, <1>1, <1>2, <1>3, <1>4, <3>1 DEF GrantOK
  <2> QED  BY <1>1, <1>3, <2>1 DEF ConsentInv, GrantsOK
<1>6. OneOpenGrant'
  BY <1>2, <1>3 DEF ConsentInv, OneOpenGrant, Consent!OpenFor
<1>7. TopicTrue'
  <2> SUFFICES ASSUME NEW i \in DOMAIN topic
               PROVE  LET h == topic[i].grant IN
                      IF topic[i].type = "CONSENT_GRANTED" THEN grant'[h].status # "absent"
                      ELSE grant'[h].status = "revoked"
    BY <1>1 DEF ConsentInv, TopicTrue
  <2>1. topic[i] \in Consent!Event
    BY ElementOfSeq, LenProperties DEF ConsentInv, GrantsOK
  <2>2. topic[i].grant \in Grants
    BY <2>1 DEF Consent!Event
  <2> QED  BY <1>2, <1>3, <2>2 DEF ConsentInv, TopicTrue
<1>8. ASSUME NEW s \in Callers \ {r} PROVE AskedOK(asking[s])'
  <2>1. asking'[s] = asking[s] /\ AskedOK(asking[s])
    BY <1>1 DEF ConsentInv, AskedAll
  <2>2. asking[s].stage \in Granting \cup {"revoked"} => asking[s].grant \in Grants
    BY <2>1 DEF AskedOK
  <2>3. asking[s].stage = "insert" => asking[s].grant # g
    BY <1>0, <2>1 DEF AskedOK
  <2> QED  BY <1>1, <1>2, <1>3, <1>4, <2>1, <2>2, <2>3 DEF AskedOK, Granting
<1>9. AskedOK(asking[r])'
  <2>1. asking'[r] = q
    BY <1>1 DEF ConsentInv, AskedAll
  <2> QED  BY <1>0, <1>1, <1>2, <1>3, <1>4, <2>1 DEF AskedOK, Granting
<1>10. OwnMove(r, q)
  <2>1. ASSUME NEW s \in Callers \ {r}, asking[s].grant = g, asking[s].stage = "revoked" PROVE FALSE
    BY <1>0, <2>1 DEF ConsentInv, AskedAll, AskedOK
  <2> QED  BY <1>2, <2>1 DEF OwnMove, Granting
<1>11. AskedAll' /\ OwnGrants'
  BY <1>1, <1>8, <1>9, <1>10, AskedMoves
<1> QED  BY <1>5, <1>6, <1>7, <1>11 DEF ConsentInv

\* The steps of the topic.
LEMMA PublishStep ==
    ASSUME ConsentInv, NEW r \in Callers, Consent!PublishGranted(r) \/ Consent!PublishRevoked(r) PROVE ConsentInv'
<1> DEFINE g == asking[r].grant
<1>1. PICK type \in {"CONSENT_GRANTED", "CONSENT_REVOKED"}, q \in Asked :
        /\ Consent!Publish(type, g) /\ asking' = [asking EXCEPT ![r] = q]
        /\ UNCHANGED <<grant, known, early>>
        /\ \/ type = "CONSENT_GRANTED" /\ asking[r].stage = "granted" /\ q.stage = "reply" /\ q.grant = g
           \/ type = "CONSENT_REVOKED" /\ asking[r].stage = "revoked" /\ q = Consent!Idle
  <2>1. asking[r] \in Asked
    BY DEF ConsentInv, AskedAll
  <2>2. CASE Consent!PublishGranted(r)
    <3>1. [stage |-> "reply", grant |-> g, key |-> asking[r].key] \in Asked
      BY <2>1 DEF Asked
    <3> QED  BY <2>2, <3>1 DEF Consent!PublishGranted
  <2>3. CASE Consent!PublishRevoked(r)
    BY <2>3, IdleAsked DEF Consent!PublishRevoked, AskedOK
  <2> QED  BY <2>2, <2>3
<1>2. /\ g \in Grants /\ ~Published(type, g)
      /\ type = "CONSENT_GRANTED" => grant[g].status # "absent"
      /\ type = "CONSENT_REVOKED" => grant[g].status = "revoked" /\ g \in known
  BY <1>1 DEF ConsentInv, AskedAll, AskedOK, Granting
<1>3. type = "CONSENT_REVOKED" => g \in early \/ Published("CONSENT_GRANTED", g)
  BY <1>2 DEF ConsentInv, GrantsOK, GrantOK
<1>4. TopicTrue'
  BY <1>1, <1>2, <1>3, EventAppended
<1>5. topic' \in Seq(Consent!Event) /\ \A t, h : Published(t, h)' <=> Published(t, h) \/ (t = type /\ h = g)
  <2>1. topic \in Seq(Consent!Event) /\ type \in {"CONSENT_GRANTED", "CONSENT_REVOKED"} /\ g \in Grants /\ Consent!Publish(type, g)
    BY <1>1, <1>2 DEF ConsentInv, GrantsOK
  <2> HIDE DEF g
  <2> QED  BY <2>1, TopicGrows, Zenon
<1>a. \A s \in Callers \ {r} : asking[s].grant = g =>
        /\ type = "CONSENT_GRANTED" => asking[s].stage \notin Granting
        /\ type = "CONSENT_REVOKED" => asking[s].stage # "revoked"
  BY <1>1 DEF ConsentInv, OwnGrants, Granting
<1> HIDE DEF g
<1>6. GrantsOK'
  <2>1. ASSUME NEW h \in Grants PROVE GrantOK(h)'
    <3>1. GrantOK(h)
      BY DEF ConsentInv, GrantsOK
    <3> QED  BY <1>1, <1>2, <1>5, <3>1 DEF GrantOK
  <2> QED  BY <1>1, <1>5, <2>1 DEF ConsentInv, GrantsOK
<1>7. OneOpenGrant'
  BY <1>1 DEF ConsentInv, OneOpenGrant, Consent!OpenFor
<1>8. ASSUME NEW s \in Callers \ {r} PROVE AskedOK(asking[s])'
  <2>1. asking'[s] = asking[s] /\ AskedOK(asking[s])
    BY <1>1 DEF ConsentInv, AskedAll
  <2>2. asking[s].stage = "granted" => ~Published("CONSENT_GRANTED", asking[s].grant)'
    BY <1>5, <1>a, <2>1 DEF AskedOK, Granting
  <2>3. asking[s].stage = "revoked" => ~Published("CONSENT_REVOKED", asking[s].grant)'
    BY <1>5, <1>a, <2>1 DEF AskedOK
  <2>4. asking[s].stage = "reply" => Published("CONSENT_GRANTED", asking[s].grant)'
    BY <1>5, <2>1 DEF AskedOK
  <2> QED  BY <1>1, <2>1, <2>2, <2>3, <2>4 DEF AskedOK
<1>9. AskedOK(asking[r])'
  <2>1. asking'[r] = q
    BY <1>1 DEF ConsentInv, AskedAll
  <2>2. CASE q.stage = "reply"
    BY <1>1, <1>2, <1>5, <2>1, <2>2, IdleAsked DEF AskedOK, Granting
  <2>3. CASE q = Consent!Idle
    BY <2>1, <2>3, IdleAsked DEF AskedOK, Granting
  <2> QED  BY <1>1, <2>2, <2>3
<1>10. OwnMove(r, q)
  BY <1>1, <1>a, IdleAsked DEF OwnMove, Granting
<1>11. AskedAll' /\ OwnGrants'
  BY <1>1, <1>8, <1>9, <1>10, AskedMoves
<1> QED  BY <1>4, <1>6, <1>7, <1>11 DEF ConsentInv

LEMMA ConsentInit == Consent!Init => ConsentInv
<1> SUFFICES ASSUME Consent!Init PROVE ConsentInv
  OBVIOUS
<1>1. \A t, g : ~Published(t, g)
  BY DEF Consent!Init, Published
<1>2. GrantsOK
  BY <1>1 DEF Consent!Init, GrantsOK, GrantOK, Consent!Row
<1>3. AskedAll /\ OwnGrants
  BY IdleAsked DEF Consent!Init, AskedAll, AskedOK, OwnGrants, Granting
<1>4. OneOpenGrant /\ TopicTrue
  BY DEF Consent!Init, OneOpenGrant, Consent!OpenFor, TopicTrue
<1> QED  BY <1>2, <1>3, <1>4 DEF ConsentInv

LEMMA ConsentStep == ConsentInv /\ [Consent!Next]_(Consent!vars) => ConsentInv'
<1> SUFFICES ASSUME ConsentInv, [Consent!Next]_(Consent!vars) PROVE ConsentInv'
  OBVIOUS
<1>i. \A k, g : g \in Consent!OpenFor(k) => g \in Grants /\ grant[g].status # "absent"
  BY DEF Consent!OpenFor
<1>t. \A g : Consent!Tell(g) => Told(g)
  BY DEF Consent!Tell, Told, Consent!Published, Published
<1>1. ASSUME NEW k \in Keys, Consent!List(k) PROVE ConsentInv'
  <2>1. \E g \in Grants : grant[g].status # "absent" /\ Told(g)
    BY <1>1, <1>i, <1>t DEF Consent!List
  <2>2. UNCHANGED <<grant, topic, asking>>
    BY <1>1 DEF Consent!List
  <2>3. GrantsOK' /\ OneOpenGrant' /\ TopicTrue' /\ known \subseteq known'
    BY <2>1, <2>2, QuietTables DEF Told
  <2>4. \A s \in Callers : AskedOK(asking[s])'
    BY <2>2, <2>3 DEF ConsentInv, AskedAll, AskedOK, Published
  <2> QED  BY <2>2, <2>3, <2>4 DEF ConsentInv, AskedAll, OwnGrants
<1>2. ASSUME NEW r \in Callers, NEW g \in Grants, NEW k \in Keys, Consent!AskGrant(r, g, k) PROVE ConsentInv'
  <2> DEFINE q == [stage |-> "insert", grant |-> g, key |-> k]
  <2>1. grant[g].status = "absent" /\ \A s \in Callers : asking[s].grant # g
    BY <1>2 DEF Consent!AskGrant
  <2>2. AskedOK(q) /\ OwnMove(r, q)
    BY <2>1 DEF AskedOK, Asked, Granting, OwnMove
  <2>3. asking' = [asking EXCEPT ![r] = q] /\ UNCHANGED <<grant, topic, known, early>>
    BY <1>2 DEF Consent!AskGrant
  <2> HIDE DEF q
  <2> QED  BY <2>2, <2>3, QuietMove
<1>3. ASSUME NEW r \in Callers, Consent!Collide(r) PROVE ConsentInv'
  <2> DEFINE q == [stage |-> "find", grant |-> NoGrant, key |-> asking[r].key]
  <2>1. asking[r].key \in Keys
    BY <1>3 DEF Consent!Collide, ConsentInv, AskedAll, AskedOK
  <2>2. AskedOK(q) /\ OwnMove(r, q)
    BY <2>1 DEF AskedOK, Asked, Granting, OwnMove
  <2>3. asking' = [asking EXCEPT ![r] = q] /\ UNCHANGED <<grant, topic, known, early>>
    BY <1>3 DEF Consent!Collide
  <2> HIDE DEF q
  <2> QED  BY <2>2, <2>3, QuietMove
<1>4. ASSUME NEW r \in Callers, Consent!FindOpen(r) PROVE ConsentInv'
  BY <1>4, <1>i, <1>t, Ended DEF Consent!FindOpen
<1>5. ASSUME NEW r \in Callers, Consent!FindNone(r) \/ Consent!Abort(r) PROVE ConsentInv'
  BY <1>5, Ended DEF Consent!FindNone, Consent!Abort
<1>6. ASSUME NEW r \in Callers, Consent!Reply(r) PROVE ConsentInv'
  <2> DEFINE g == asking[r].grant
  <2>1. g \in Grants /\ grant[g].status # "absent" /\ Published("CONSENT_GRANTED", g)
    BY <1>6 DEF Consent!Reply, ConsentInv, AskedAll, AskedOK, Granting
  <2>2. Told(g) /\ Consent!Finish(r) /\ UNCHANGED <<grant, topic>>
    BY <1>6, <2>1 DEF Consent!Reply, Told
  <2> QED  BY <2>1, <2>2, Ended
<1>7. CASE UNCHANGED Consent!vars
  <2>1. UNCHANGED <<grant, topic, known, early>> /\ asking' = asking
    BY <1>7 DEF Consent!vars
  <2>2. GrantsOK' /\ OneOpenGrant' /\ TopicTrue'
    BY <2>1, QuietTables
  <2>3. \A s \in Callers : AskedOK(asking[s])'
    BY <2>1 DEF ConsentInv, AskedAll, AskedOK, Published
  <2> QED  BY <2>1, <2>2, <2>3 DEF ConsentInv, AskedAll, OwnGrants
<1> QED  BY <1>1, <1>2, <1>3, <1>4, <1>5, <1>6, <1>7, InsertStep, RevokeStep, PublishStep DEF Consent!Next

\* All of the invariant holds in every reachable state.
THEOREM ConsentInductive == Consent!Spec => []ConsentInv
  BY ConsentInit, ConsentStep, PTL DEF Consent!Spec

-----------------------------------------------------------------------------
(* No change is kept back from the followers: its event is on the topic,   *)
(* about to be, or died with its handler.                                  *)

ToldInv == NoneKeptBack /\ missed \in SUBSET Consent!Event

\* Who has an event to publish stays where it is, and no row moves.
LEMMA ToldQuiet ==
    ASSUME ToldInv, UNCHANGED <<grant, topic, missed>>,
           \A s \in Callers : asking[s].stage \in {"granted", "revoked"} => asking'[s] = asking[s]
    PROVE  ToldInv'
<1>1. \A type, g : /\ Owed(type, "granted", g) => Owed(type, "granted", g)'
                   /\ Owed(type, "revoked", g) => Owed(type, "revoked", g)'
  BY DEF Owed
<1>2. \A t, g : Published(t, g)' <=> Published(t, g)
  BY DEF Published
<1> QED  BY <1>1, <1>2 DEF ToldInv, NoneKeptBack, GrantOwed, RevocationOwed

\* A row that is inserted or revoked has its event to come.
LEMMA ToldRow ==
    ASSUME ConsentInv, ToldInv, NEW r \in Callers,
           Consent!Insert(r) \/ \E g \in Grants : Consent!Revoke(r, g)
    PROVE  ToldInv'
<1>1. PICK g \in Grants : /\ \A h \in Grants : h # g => grant'[h] = grant[h]
                          /\ \/ grant'[g].status = "open" /\ asking'[r].stage = "granted"
                             \/ /\ grant[g].status = "open" /\ grant'[g].status = "revoked"
                                /\ asking'[r].stage = "revoked"
                          /\ asking'[r].grant = g
                          /\ asking[r].stage \notin {"granted", "revoked"}
                          /\ \A s \in Callers : s # r => asking'[s] = asking[s]
                          /\ UNCHANGED <<topic, missed>>
  <2>1. CASE Consent!Insert(r)
    <3>1. asking[r].stage = "insert" /\ asking[r].grant \in Grants
      BY <2>1 DEF Consent!Insert, ConsentInv, AskedAll, AskedOK, Granting
    <3> QED  BY <2>1, <3>1 DEF Consent!Insert, ConsentInv, AskedAll, GrantsOK
  <2>2. ASSUME NEW g \in Grants, Consent!Revoke(r, g)
        PROVE  /\ \A h \in Grants : h # g => grant'[h] = grant[h]
               /\ grant[g].status = "open" /\ grant'[g].status = "revoked"
               /\ asking'[r].stage = "revoked" /\ asking'[r].grant = g
               /\ asking[r].stage \notin {"granted", "revoked"}
               /\ \A s \in Callers : s # r => asking'[s] = asking[s]
               /\ UNCHANGED <<topic, missed>>
    BY <2>2 DEF Consent!Revoke, ConsentInv, AskedAll, GrantsOK, Consent!Row
  <2> QED  BY <2>1, <2>2
<1>2. \A type, h : /\ Owed(type, "granted", h) => Owed(type, "granted", h)'
                   /\ Owed(type, "revoked", h) => Owed(type, "revoked", h)'
  BY <1>1 DEF Owed
<1>3. \A t, h : Published(t, h)' <=> Published(t, h)
  BY <1>1 DEF Published
<1>4. grant'[g].status = "open" => Owed("CONSENT_GRANTED", "granted", g)'
  BY <1>1 DEF Owed
<1>5. grant'[g].status = "revoked" => Owed("CONSENT_REVOKED", "revoked", g)'
  BY <1>1 DEF Owed
<1>6. NoneKeptBack'
  BY <1>1, <1>2, <1>3, <1>4, <1>5 DEF ToldInv, NoneKeptBack, GrantOwed, RevocationOwed
<1> QED  BY <1>1, <1>6 DEF ToldInv

\* What was owed is published.
LEMMA ToldPublish ==
    ASSUME ConsentInv, ToldInv, NEW r \in Callers, Consent!PublishGranted(r) \/ Consent!PublishRevoked(r)
    PROVE  ToldInv'
<1>1. PICK g \in Grants : g = asking[r].grant
  BY DEF Consent!PublishGranted, Consent!PublishRevoked, ConsentInv, AskedAll, AskedOK, Granting
<1>2. PICK type \in {"CONSENT_GRANTED", "CONSENT_REVOKED"} :
          /\ Consent!Publish(type, g)
          /\ type = (IF asking[r].stage = "granted" THEN "CONSENT_GRANTED" ELSE "CONSENT_REVOKED")
  BY <1>1 DEF Consent!PublishGranted, Consent!PublishRevoked
<1>3. /\ UNCHANGED <<grant, missed>> /\ \A s \in Callers : s # r => asking'[s] = asking[s]
      /\ asking[r].stage \in {"granted", "revoked"}
  BY DEF Consent!PublishGranted, Consent!PublishRevoked, ConsentInv, AskedAll
<1>4. \A t, h : Published(t, h)' <=> Published(t, h) \/ (t = type /\ h = g)
  <2>1. topic \in Seq(Consent!Event)
    BY DEF ConsentInv, GrantsOK
  <2> QED  BY <1>2, <2>1, TopicGrows, Zenon
<1>5. ASSUME NEW h PROVE /\ GrantOwed(h) => GrantOwed(h)' \/ Published("CONSENT_GRANTED", h)'
                         /\ RevocationOwed(h) => RevocationOwed(h)' \/ Published("CONSENT_REVOKED", h)'
  BY <1>1, <1>2, <1>3, <1>4 DEF GrantOwed, RevocationOwed, Owed
<1>6. NoneKeptBack'
  BY <1>3, <1>4, <1>5 DEF ToldInv, NoneKeptBack
<1> QED  BY <1>3, <1>6 DEF ToldInv

LEMMA ToldAbort == ASSUME ConsentInv, ToldInv, NEW r \in Callers, Consent!Abort(r) PROVE ToldInv'
<1>1. /\ UNCHANGED <<grant, topic>> /\ \A s \in Callers : s # r => asking'[s] = asking[s]
      /\ missed' = missed \cup Consent!Due(r) /\ Consent!Due(r) \subseteq Consent!Event
  BY DEF Consent!Abort, Consent!Due, ConsentInv, AskedAll
<1>2. ASSUME NEW h \in Grants PROVE (GrantOwed(h) => GrantOwed(h)') /\ (RevocationOwed(h) => RevocationOwed(h)')
  <2>1. /\ asking[r].stage = "granted" /\ asking[r].grant = h =>
              [type |-> "CONSENT_GRANTED", grant |-> h] \in Consent!Due(r)
        /\ asking[r].stage = "revoked" /\ asking[r].grant = h =>
              [type |-> "CONSENT_REVOKED", grant |-> h] \in Consent!Due(r)
    <3>1. ASSUME NEW type \in {"CONSENT_GRANTED", "CONSENT_REVOKED"}, asking[r].grant = h,
                 \/ asking[r].stage = "granted" /\ type = "CONSENT_GRANTED"
                 \/ asking[r].stage = "revoked" /\ type = "CONSENT_REVOKED"
          PROVE  [type |-> type, grant |-> h] \in Consent!Due(r)
      <4> DEFINE e == [type |-> type, grant |-> h]
      <4>1. e \in Consent!Event /\ e.type = type /\ e.grant = h
        BY DEF Consent!Event
      <4> HIDE DEF e
      <4>2. e \in Consent!Due(r)
        BY <3>1, <4>1 DEF Consent!Due
      <4> QED  BY <4>2 DEF e
    <3> QED  BY <3>1
  <2> QED  BY <1>1, <2>1 DEF GrantOwed, RevocationOwed, Owed
<1>3. \A t, h : Published(t, h)' <=> Published(t, h)
  BY <1>1 DEF Published
<1>4. NoneKeptBack'
  BY <1>1, <1>2, <1>3 DEF ToldInv, NoneKeptBack
<1> QED  BY <1>1, <1>4 DEF ToldInv

LEMMA ToldStep == ConsentInv /\ ToldInv /\ [Consent!Next]_(Consent!vars) => ToldInv'
<1> SUFFICES ASSUME ConsentInv, ToldInv, [Consent!Next]_(Consent!vars) PROVE ToldInv'
  OBVIOUS
<1>1. CASE (\E k \in Keys : Consent!List(k)) \/ UNCHANGED Consent!vars
  BY <1>1, ToldQuiet DEF Consent!List, Consent!vars
<1>2. ASSUME NEW r \in Callers, asking[r].stage \notin {"granted", "revoked"}, UNCHANGED <<grant, topic, missed>>,
             NEW q, asking' = [asking EXCEPT ![r] = q]
      PROVE  ToldInv'
  BY <1>2, ToldQuiet DEF ConsentInv, AskedAll
<1>3. ASSUME NEW r \in Callers, NEW g \in Grants, NEW k \in Keys, Consent!AskGrant(r, g, k) PROVE ToldInv'
  BY <1>2, <1>3 DEF Consent!AskGrant
<1>4. ASSUME NEW r \in Callers, Consent!Collide(r) \/ Consent!FindOpen(r) \/ Consent!FindNone(r) \/ Consent!Reply(r)
      PROVE  ToldInv'
  BY <1>2, <1>4 DEF Consent!Collide, Consent!FindOpen, Consent!FindNone, Consent!Reply
<1> QED  BY <1>1, <1>3, <1>4, ToldRow, ToldPublish, ToldAbort DEF Consent!Next

LEMMA ToldInductive == Consent!Spec => []ToldInv
<1>1. Consent!Init => ToldInv
  BY DEF Consent!Init, ToldInv, NoneKeptBack
<1> QED  BY <1>1, ConsentInductive, ToldStep, PTL DEF Consent!Spec

\* POST /v1/consent/grants: whatever grants and revocations overlap, an
\* account has one open grant at most for an app and a scope.
THEOREM OneOpen == Consent!Spec => []OneOpenGrant
  BY ConsentInductive, PTL DEF ConsentInv

\* The topic tells committed changes, each once, a revocation after its grant
\* unless an id was told before the grant was announced; and it tells them all,
\* but for those whose handler is about to publish, or died.
THEOREM EventsTell == Consent!Spec => []EventsTellGrants
<1>1. ConsentInv /\ ToldInv => EventsTellGrants
  BY DEF ConsentInv, ToldInv, EventsTellGrants
<1> QED  BY <1>1, ConsentInductive, ToldInductive, PTL

\* A follower of the topic comes to hold as open what is open, once the
\* handlers that owe it an event have published.
THEOREM FollowersAgree == Consent!Spec => []FollowersCatchUp
<1>1. ASSUME TopicTrue, NoneKeptBack, GrantsOK, NEW g \in Grants \ early, ~GrantOwed(g), ~RevocationOwed(g)
      PROVE  HeldOpen(g) <=> grant[g].status = "open"
  <2>0. grant[g].status \in {"absent", "open", "revoked"} /\ topic \in Seq(Consent!Event)
    BY <1>1 DEF GrantsOK, Consent!Row
  <2>1. /\ DOMAIN topic = 1 .. Len(topic) /\ Len(topic) \in Nat
        /\ \A i \in DOMAIN topic : topic[i] \in Consent!Event
    BY <2>0
  <2>2. ASSUME grant[g].status = "open" PROVE HeldOpen(g)
    <3>1. PICK i \in DOMAIN topic : topic[i].type = "CONSENT_GRANTED" /\ topic[i].grant = g
      BY <1>1, <2>2 DEF NoneKeptBack, Published
    <3>2. ASSUME NEW j \in DOMAIN topic, j > i, topic[j].grant = g PROVE FALSE
      <4>1. topic[j].type = "CONSENT_GRANTED"
        BY <1>1, <2>2, <3>2 DEF TopicTrue
      <4>2. topic[i] = topic[j]
        BY <2>1, <3>1, <3>2, <4>1 DEF Consent!Event
      <4>3. i = j
        BY <1>1, <4>2 DEF TopicTrue
      <4> QED  BY <2>1, <3>2, <4>3
    <3> QED  BY <3>1, <3>2 DEF HeldOpen
  <2>3. ASSUME HeldOpen(g) PROVE grant[g].status = "open"
    <3>1. PICK i \in DOMAIN topic : /\ topic[i].type = "CONSENT_GRANTED" /\ topic[i].grant = g
                                    /\ \A j \in DOMAIN topic : j > i => topic[j].grant # g
      BY <2>3 DEF HeldOpen
    <3>2. grant[g].status # "absent"
      BY <1>1, <3>1 DEF TopicTrue
    <3>3. ASSUME grant[g].status = "revoked" PROVE FALSE
      <4>1. PICK j \in DOMAIN topic : topic[j].type = "CONSENT_REVOKED" /\ topic[j].grant = g
        BY <1>1, <3>3 DEF NoneKeptBack, Published
      <4>2. PICK k \in 1 .. (j - 1) : topic[k].type = "CONSENT_GRANTED" /\ topic[k].grant = g
        BY <1>1, <4>1 DEF TopicTrue
      <4>3. k \in DOMAIN topic /\ k < j
        BY <2>1, <4>1, <4>2
      <4>4. topic[k] = topic[i]
        BY <2>1, <3>1, <4>2, <4>3 DEF Consent!Event
      <4>5. k = i
        BY <1>1, <4>3, <4>4 DEF TopicTrue
      <4> QED  BY <2>1, <3>1, <4>1, <4>3, <4>5
    <3> QED  BY <2>0, <3>2, <3>3
  <2> QED  BY <2>2, <2>3
<1>2. ConsentInv /\ ToldInv => FollowersCatchUp
  BY <1>1 DEF ConsentInv, ToldInv, FollowersCatchUp
<1> QED  BY <1>2, ConsentInductive, ToldInductive, PTL

\* Grants, handlers and the topic have their types.
THEOREM ConsentTypeCorrect == Consent!Spec => []Consent!TypeOK
<1>1. ConsentInv /\ ToldInv => Consent!TypeOK
  BY DEF ConsentInv, ToldInv, GrantsOK, AskedAll, Asked, Consent!TypeOK
<1> QED  BY <1>1, ConsentInductive, ToldInductive, PTL
=============================================================================
