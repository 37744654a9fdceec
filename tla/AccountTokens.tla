---------------------------- MODULE AccountTokens ----------------------------
(***************************************************************************)
(* All that is minted for accounts: DelegatedAuthority beside PhoneTokens. *)
(* The two meet in the account and in nothing else.  No handler of one     *)
(* reads what a handler of the other writes: phone tokens are minted and   *)
(* resolved for an account in any state, and what is delegated does not    *)
(* depend on its number.  Hence one rests while the other moves: to        *)
(* interleave their steps would show no more of either.                    *)
(***************************************************************************)
EXTENDS DelegatedAuthority

CONSTANTS Phones, Tokens, Reasons,
          Handlers,                  \* of /v1/phone-tokens, in flight together
          NoPhone, NoToken, NoReason

VARIABLES phone, row, lapsed, out, handler

Phone == INSTANCE PhoneTokens WITH Requests <- Handlers, request <- handler

phoneVars == <<phone, row, lapsed, out, handler>>

BothInit == Init /\ Phone!Init

BothNext == \/ Next /\ Phone!Init /\ UNCHANGED phoneVars
            \/ Phone!Next /\ Init /\ UNCHANGED vars

BothSpec == BothInit /\ [][BothNext]_<<vars, phoneVars>>

\* The properties of PhoneTokens: a resolve is true of the time it took, and
\* the answers to revocations agree with the row and each other.
ResolvedInTime   == Phone!ResolvedInTime
RevocationsAgree == Phone!RevocationsAgree
=============================================================================
