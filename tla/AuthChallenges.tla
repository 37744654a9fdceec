--------------------------- MODULE AuthChallenges ---------------------------
(***************************************************************************)
(* Rows of the auth_challenges table and the one function that changes     *)
(* them.  The table is shared by customer login, step-up verification and  *)
(* phone change, so the modules of those flows all extend this one.        *)
(***************************************************************************)
EXTENDS Integers

CONSTANT MaxOtpAttempts     \* MAX_OTP_ATTEMPTS of services/otp.ts

ASSUME MaxOtpAttemptsAssumption == MaxOtpAttempts \in Nat \ {0}

\* What a row may be used for.  "unbound" is a purpose='stepup' row made by
\* /v1/auth/challenges, which leaves the operation binding NULL; "customer"
\* and "operator" are the rows of /v1/stepup/challenges (phone_otp and
\* hardware_key); "phone_change" stands for phone_change_to_old and _to_new.
AuthKinds   == {"login", "unbound", "phone_change"}
StepUpKinds == {"customer", "operator"}
Kinds       == AuthKinds \cup StepUpKinds

Statuses == {"absent", "pending", "consumed", "failed", "expired"}
Closed   == {"consumed", "failed", "expired"}

Row == [status : Statuses, kind : Kinds \cup {"none"}, attempts : Nat]

NoRow == [status |-> "absent", kind |-> "none", attempts |-> 0]

\* create(): the insert leaves status and attempts_used to the defaults.
NewRow(kind) == [status |-> "pending", kind |-> kind, attempts |-> 0]

\* recordAttempt(): SELECT ... FOR UPDATE and the UPDATE are one transaction;
\* a row that is no longer pending is returned as it stands.
RecordAttempt(row, status, increment) ==
    IF row.status # "pending" THEN row
    ELSE [row EXCEPT !.status   = status,
                     !.attempts = IF increment THEN @ + 1 ELSE @]

\* Mutant: off by one in the comparison with MAX_OTP_ATTEMPTS.
AfterWrongLater(row, seen) ==
    RecordAttempt(row, IF seen + 1 > MaxOtpAttempts THEN "failed" ELSE "pending", TRUE)

\* What the three endpoints write after a wrong response.  They choose the new
\* status from `seen`, the attempts_used they read before comparing the
\* response, while the increment applies to the row as it is now.
AfterWrong(row, seen) ==
    RecordAttempt(row, IF seen + 1 >= MaxOtpAttempts THEN "failed" ELSE "pending", TRUE)
=============================================================================
