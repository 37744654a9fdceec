\* Finding: CancelledNeverApplied.
CONSTANTS
    Accounts = {a1, a2}
    Phones = {p1, p2, p3}
    Changes = {c1, c2}
    Requests = {r1, r2}
    NoPhone = NoPhone
    NoAccount = NoAccount
    NoChange = NoChange
    MaxOtpAttempts = 2
SPECIFICATION Spec
PROPERTY CancelledNeverApplied
\* The system stops when every change id is used up and settled.
CHECK_DEADLOCK FALSE
