\* Three overlapping appends, a log of four entries and a clock on which they may tie.
\* No symmetry: a temporal property.
CONSTANTS
    Writers = {w1, w2, w3}
    MaxEntries = 4
    MaxClock = 3
SPECIFICATION FairSpec
INVARIANT OneRoot
INVARIANT LinearWhenOrdered
PROPERTY AppendsComplete
\* The log is full.
CHECK_DEADLOCK FALSE
