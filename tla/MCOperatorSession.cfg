\* Two operators with a key each or one between them, one challenge, two requests in flight.
CONSTANTS
    MaxOtpAttempts = 1
    Users = {u1, u2}
    Emails = {e1, e2}
    Keys = {k1, k2}
    Challenges = {c1}
    Requests = {r1, r2}
    MaxCounter = 2
    NoUser = NoUser
    NoEmail = NoEmail
    NoKey = NoKey
    NoChallenge = NoChallenge
SPECIFICATION Spec
SYMMETRY Symmetry
INVARIANT EnrolledOnce
INVARIANT TokenRestsOnKey
INVARIANT CounterTellsUses
\* The system stops when every id is used up and every user disabled.
CHECK_DEADLOCK FALSE
