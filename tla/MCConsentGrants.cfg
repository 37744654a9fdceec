\* Two keys, three grants, three requests in flight.
CONSTANTS
    Keys = {k1, k2}
    Grants = {g1, g2, g3}
    Callers = {r1, r2, r3}
    NoKey = NoKey
    NoGrant = NoGrant
SPECIFICATION Spec
SYMMETRY Symmetry
INVARIANT OneOpenGrant
INVARIANT EventsTellGrants
\* The system stops when every grant id is used up and revoked.
CHECK_DEADLOCK FALSE
