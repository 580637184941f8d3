SPECIFICATION FairSpec

CONSTANTS
    Drivers = {kim}
    Logins = {t, u}
    Own <- Managers
    MaxSigning = 2
    Workers = {w}
    Uploaders = {v}
    Out = Out
    NoDriver = NoDriver
    MaxPosted = 1

INVARIANTS
    CacheMirrorsLogin
PROPERTIES
    LabelNamesUser
    ButtonsComeBack
