\* One account, two national IDs, two artefacts, two requests in flight, two tier changes each.
CONSTANTS
    Accounts = {a1}
    NationalIds = {n1, n2}
    Artefacts = {k1, k2}
    Requests = {r1, r2}
    NoAccount = NoAccount
    NoId = NoId
    NoArtefact = NoArtefact
    MaxAssignments = 3
SPECIFICATION Spec
SYMMETRY Symmetry
INVARIANT NationalIdUnique
INVARIANT PromotionsFollowEvidence
INVARIANT VerdictsMatchRecords
INVARIANT HistoryExplains
PROPERTY ImplementsRegister
\* The system stops when every artefact id is used up and every history is full.
CHECK_DEADLOCK FALSE
