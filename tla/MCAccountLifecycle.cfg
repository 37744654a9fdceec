\* Two accounts, two apps, two numbers, two requests in flight; one account changes its
\* status up to five times.
CONSTANTS
    Accounts = {a1, a2}
    Apps = {app1, app2}
    Phones = {p1, p2}
    Requests = {r1, r2}
    NoAccount = NoAccount
    NoApp = NoApp
    NoPhone = NoPhone
    MaxMoves <- UnevenMoves
SPECIFICATION Spec
SYMMETRY Symmetry
INVARIANT OwnCustomersOnly
INVARIANT LogIsPath
INVARIANT EventsTellLog
PROPERTY ImplementsTrail
\* The system stops when every account id is used up and its log is full.
CHECK_DEADLOCK FALSE
