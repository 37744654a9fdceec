\* Three overlapping requests for one key, with two bodies, until the key has expired.
CONSTANTS
    Keys = {k1}
    Bodies = {b1, b2}
    Requests = {r1, r2, r3}
    NoKey = NoKey
    NoBody = NoBody
    Ttl = 1
    MaxClock = 2
    MaxRuns = 3
SPECIFICATION Spec
SYMMETRY Symmetry
INVARIANT AnswerIsToTheQuestion
INVARIANT LateAskersReplay
\* Every run that the bound allows has been made.
CHECK_DEADLOCK FALSE
