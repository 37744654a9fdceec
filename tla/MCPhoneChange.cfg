\* Two accounts, three numbers, two changes, two requests in flight; the first wrong
\* code is already the last (CancelledNeverApplied allows two).
CONSTANTS
    Accounts = {a1, a2}
    Phones = {p1, p2, p3}
    Changes = {c1, c2}
    Requests = {r1, r2}
    NoPhone = NoPhone
    NoAccount = NoAccount
    NoChange = NoChange
    MaxOtpAttempts = 1
SPECIFICATION Spec
SYMMETRY Symmetry
INVARIANT SwapNeedsProof
INVARIANT ChangesAreWhole
PROPERTY CooldownHolds
PROPERTY ImplementsDirectory
\* The system stops when every change id is used up and settled.
CHECK_DEADLOCK FALSE
