\* Two challenges of any kind, two requests in flight, two wrong responses allowed.
CONSTANTS
    Challenges = {c1, c2}
    Requests = {r1, r2}
    NoChallenge = NoChallenge
    MaxOtpAttempts = 2
    MaxCounter = 2
SPECIFICATION Spec
SYMMETRY Symmetry
INVARIANT OneJwtPerChallenge
INVARIANT TokenBackedByProof
INVARIANT UsedChallengeIsClosed
INVARIANT AttemptsBoundedByConcurrency
PROPERTY ImplementsLedger
\* The system stops when every challenge id is used up, closed and idle.
CHECK_DEADLOCK FALSE
