\* Two accounts, two licences, two bikes, one registration with two PINs, two submissions
\* of either kind.
CONSTANTS
    Accounts = {a1, a2}
    Licences = {l1, l2}
    Bikes = {b1, b2}
    Registrations = {g1}
    Pins = {p1, p2}
    Ids = {s1, s2}
    Requests = {r1, r2}
    NoForm = NoForm
    NoId = NoId
SPECIFICATION Spec
SYMMETRY Symmetry
INVARIANT EvidenceUnique
INVARIANT ClassFollowsLatest
INVARIANT ClassLostOnlyByCrash
INVARIANT EventsTellRows
\* The system stops when every submission id is used up.
CHECK_DEADLOCK FALSE
