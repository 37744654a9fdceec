\* Two accounts; a step-up that two authorities want, two requests in flight; a
\* phone token, three numbers and three requests: to resolve it, to revoke it twice.
CONSTANTS
    Accounts = {a1, a2}
    StepUps = {s1}
    Jtis = {j1, j2}
    Requests = {r1, r2}
    Phones = {p1, p2, p3}
    Tokens = {t1}
    Reasons = {y1, y2}
    Handlers = {h1, h2, h3}
    NoAccount = NoAccount
    NoStepUp = NoStepUp
    NoJti = NoJti
    NoPhone = NoPhone
    NoToken = NoToken
    NoReason = NoReason
SPECIFICATION BothSpec
SYMMETRY Symmetry
INVARIANT FreezePassesWhatWasUnderWay
INVARIANT SigningsTellAuthorities
INVARIANT SpentIsAccountedFor
INVARIANT ResolvedInTime
INVARIANT RevocationsAgree
PROPERTY SigningKeepsLedger
\* An account that is active and one that is frozen may always change, so that the system never stops.
