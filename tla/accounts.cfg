SPECIFICATION Spec

CONSTANTS
    Emails = {kid}
    Ids = {x, y}
    NoId = NoId
    Tokens = {t}
    Logins = {l, m}
    Calls = {c, d}
    NoToken = NoToken
    NoEmail = NoEmail
    Ages = {TRUE}
    MaxResets = 1
    MaxCrashes = 1

SYMMETRY Symmetry

INVARIANTS
    TypeOK
    EveryAccountHasProfile
    ResetEndsLogins
PROPERTIES
    LinkStands

CHECK_DEADLOCK FALSE
