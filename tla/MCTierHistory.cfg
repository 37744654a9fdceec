\* Pages of two rows over up to five, dated by clocks that differ, from either repository.
CONSTANTS
    Repos = {"pg", "memory"}
    Limit = 2
    Skew = 1
    MaxClock = 4
    MaxRows = 5
SPECIFICATION Spec
INVARIANT PagesDescend
INVARIANT LossOnlyAtCursors
