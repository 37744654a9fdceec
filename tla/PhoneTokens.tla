----------------------------- MODULE PhoneTokens -----------------------------
(***************************************************************************)
(* Phone tokens: how a rail gets to the number of an account without       *)
(* having been told it.  Issue, resolve and revoke of routes/phoneTokens.ts *)
(* and the one that routes/auth.ts mints with every customer token, over   *)
(* repositories/phoneTokens.ts, while phone changes move the numbers.      *)
(*                                                                         *)
(* Audiences are left out: the signature is checked for the audience that  *)
(* the resolve expects, so that a token of another ends there.             *)
(***************************************************************************)
EXTENDS FiniteSets

CONSTANTS Accounts, Phones,
          Tokens,       \* jtis (pht_<ULID>) that can be generated
          Reasons,      \* reasons a revocation may give
          Requests,     \* handlers that can be in flight together
          NoAccount, NoPhone, NoToken, NoReason

VARIABLES phone,     \* phone_records: the number of each account
          row,       \* phone_tokens rows
          lapsed,    \* tokens whose expires_at has passed
          out,       \* tokens whose JWT a caller holds
          request    \* handlers in flight

vars == <<phone, row, lapsed, out, request>>

Row == [status : {"absent", "live", "revoked"}, acct : Accounts \cup {NoAccount},
        reason : Reasons \cup {NoReason}]

NoRow == [status |-> "absent", acct |-> NoAccount, reason |-> NoReason]

\* good and held are history: whether the token could be resolved when the
\* request came, and which numbers its account has had from then on.
Idle == [stage |-> "idle", tok |-> NoToken, acct |-> NoAccount, reason |-> NoReason,
         phone |-> NoPhone, good |-> FALSE, held |-> {}]

Stages == {"idle", "insert", "session", "reply", "find", "read", "answer", "revoke", "reread", "revoked"}

TypeOK ==
    /\ phone \in [Accounts -> Phones]
    /\ row \in [Tokens -> Row]
    /\ lapsed \in SUBSET Tokens
    /\ out \in SUBSET Tokens
    /\ request \in [Requests -> [stage : Stages, tok : Tokens \cup {NoToken},
                                 acct : Accounts \cup {NoAccount}, reason : Reasons \cup {NoReason},
                                 phone : Phones \cup {NoPhone}, good : BOOLEAN, held : SUBSET Phones]]
    /\ \A r \in Requests : request[r].stage # "idle" => request[r].tok \in Tokens

Init ==
    /\ phone \in [Accounts -> Phones]
    /\ \A a, b \in Accounts : phone[a] = phone[b] => a = b
    /\ row = [t \in Tokens |-> NoRow]
    /\ lapsed = {} /\ out = {}
    /\ request = [r \in Requests |-> Idle]

At(r, s)  == request[r].stage = s
Set(r, q) == request' = [request EXCEPT ![r] = q]
Go(r, s)  == request' = [request EXCEPT ![r].stage = s]
Finish(r) == Set(r, Idle)

\* A row that /v1/phone-tokens/resolve accepts.
Good(t) == row[t].status = "live" /\ t \notin lapsed

-----------------------------------------------------------------------------
(* Minting, by POST /v1/phone-tokens or with a customer token.             *)

\* The account exists, in whatever state; the token is signed under a new jti.
Mint(r, t, a) ==
    /\ At(r, "idle")
    /\ row[t] = NoRow
    /\ \A s \in Requests : request[s].tok # t
    /\ Set(r, [Idle EXCEPT !.stage = "insert", !.tok = t, !.acct = a])
    /\ UNCHANGED <<phone, row, lapsed, out>>

\* phoneTokensRepo.create; a login goes on to sessionsRepo.create.
Insert(r) ==
    /\ At(r, "insert")
    /\ row' = [row EXCEPT ![request[r].tok] = [NoRow EXCEPT !.status = "live", !.acct = request[r].acct]]
    /\ \E s \in {"session", "reply"} : Go(r, s)
    /\ UNCHANGED <<phone, lapsed, out>>

\* The session of a login is another table's row.
CreateSession(r) == At(r, "session") /\ Go(r, "reply") /\ UNCHANGED <<phone, row, lapsed, out>>

\* The audit row, and the answer that carries the JWT.
Reply(r) ==
    /\ At(r, "reply")
    /\ out' = out \cup {request[r].tok}
    /\ Finish(r)
    /\ UNCHANGED <<phone, row, lapsed>>

-----------------------------------------------------------------------------
(* POST /v1/phone-tokens/resolve                                           *)

\* The request comes with a JWT whose signature is right.  Its exp is the
\* expires_at of the row, so that what is found there decides.
AskResolve(r, t) ==
    /\ At(r, "idle")
    /\ t \in out
    /\ Set(r, [Idle EXCEPT !.stage = "find", !.tok = t, !.acct = row[t].acct,
                           !.good = Good(t), !.held = {phone[row[t].acct]}])
    /\ UNCHANGED <<phone, row, lapsed, out>>

\* Mutant: a revoked row is not refused.
FindRevoked(r) ==
    /\ At(r, "find")
    /\ IF request[r].tok \in lapsed THEN Finish(r) ELSE Go(r, "read")
    /\ UNCHANGED <<phone, row, lapsed, out>>

\* findByJti, and the 401s of a revoked or expired row.
Find(r) ==
    /\ At(r, "find")
    /\ IF Good(request[r].tok) THEN Go(r, "read") ELSE Finish(r)
    /\ UNCHANGED <<phone, row, lapsed, out>>

\* findEncryptedPhoneFor: the number the account has now.
ReadPhone(r) ==
    /\ At(r, "read")
    /\ Set(r, [request[r] EXCEPT !.stage = "answer", !.phone = phone[request[r].acct]])
    /\ UNCHANGED <<phone, row, lapsed, out>>

\* The audit row, and 200 with the number.
Answer(r) == At(r, "answer") /\ Finish(r) /\ UNCHANGED <<phone, row, lapsed, out>>

-----------------------------------------------------------------------------
(* POST /v1/phone-tokens/:jti/revoke                                       *)

\* An operator names a jti; one without a row is answered 404.
AskRevoke(r, t, why) ==
    /\ At(r, "idle")
    /\ row[t] # NoRow
    /\ Set(r, [Idle EXCEPT !.stage = "revoke", !.tok = t, !.reason = why])
    /\ UNCHANGED <<phone, row, lapsed, out>>

\* Mutant: the transaction does not look whether the row is revoked.
RevokeAgain(r) ==
    /\ At(r, "revoke")
    /\ row' = [row EXCEPT ![request[r].tok].status = "revoked", ![request[r].tok].reason = request[r].reason]
    /\ Go(r, "revoked")
    /\ UNCHANGED <<phone, lapsed, out>>

\* The transaction of revoke, which locks the row.
Revoke(r) ==
    /\ At(r, "revoke")
    /\ row[request[r].tok].status = "live"
    /\ row' = [row EXCEPT ![request[r].tok].status = "revoked", ![request[r].tok].reason = request[r].reason]
    /\ Go(r, "revoked")
    /\ UNCHANGED <<phone, lapsed, out>>

\* The same transaction on a row that is revoked already.
RevokedBefore(r) ==
    /\ At(r, "revoke")
    /\ row[request[r].tok].status = "revoked"
    /\ Go(r, "reread")
    /\ UNCHANGED <<phone, row, lapsed, out>>

\* findByJti, for the reason that stands.
Reread(r) ==
    /\ At(r, "reread")
    /\ Set(r, [request[r] EXCEPT !.stage = "revoked", !.reason = row[request[r].tok].reason])
    /\ UNCHANGED <<phone, row, lapsed, out>>

\* 200 with the reason; who revoked the token writes the audit row first, who
\* found it revoked writes none.
ReplyRevoked(r) == At(r, "revoked") /\ Finish(r) /\ UNCHANGED <<phone, row, lapsed, out>>

-----------------------------------------------------------------------------
\* The clock passes expires_at.
Lapse(t) ==
    /\ row[t].status # "absent"
    /\ lapsed' = lapsed \cup {t}
    /\ UNCHANGED <<phone, row, out, request>>

Directory == INSTANCE PhoneDirectory WITH authorised <- Accounts \X Phones

\* swapPhone, at the end of a phone change, to a number nobody has.
SwapPhone(a, p) ==
    /\ Directory!Move(a, p)
    /\ request' = [r \in Requests |-> IF request[r].held # {} /\ request[r].acct = a
                                      THEN [request[r] EXCEPT !.held = @ \cup {p}] ELSE request[r]]
    /\ UNCHANGED <<row, lapsed, out>>

\* The process dies, or a statement throws: 500.
Abort(r) == ~At(r, "idle") /\ Finish(r) /\ UNCHANGED <<phone, row, lapsed, out>>

Next ==
    \/ \E t \in Tokens : Lapse(t)
    \/ \E a \in Accounts, p \in Phones : SwapPhone(a, p)
    \/ \E r \in Requests :
          \/ \E t \in Tokens, a \in Accounts : Mint(r, t, a)
          \/ Insert(r) \/ CreateSession(r) \/ Reply(r)
          \/ \E t \in Tokens : AskResolve(r, t)
          \/ Find(r) \/ ReadPhone(r) \/ Answer(r)
          \/ \E t \in Tokens, why \in Reasons : AskRevoke(r, t, why)
          \/ Revoke(r) \/ RevokedBefore(r) \/ Reread(r) \/ ReplyRevoked(r)
          \/ Abort(r)

Spec == Init /\ [][Next]_vars

-----------------------------------------------------------------------------
(* Properties.                                                             *)

\* A resolve that answers tells the truth of the time it took: its token was
\* neither revoked nor expired when it came, so that none that comes after a
\* revocation was committed is answered, and the number is one the account
\* itself had since then, whatever phone changes and revocations it met.
ResolvedInTime ==
    \A r \in Requests : At(r, "answer") => request[r].good /\ request[r].phone \in request[r].held

\* Every revoke of a token that is answered 200, the first and the repeated,
\* those that overlap too, gives the one reason that stands in the row.
RevocationsAgree ==
    \A r \in Requests : At(r, "revoked") =>
        /\ row[request[r].tok].status = "revoked"
        /\ row[request[r].tok].reason = request[r].reason

=============================================================================
