SPECIFICATION Spec

CONSTANTS
    Users = {ann, ben}
    Profiles = {p, q}
    Sessions = {s}
    Requests = {r}
    Callers = {c}
    Teams = {red}
    Tiers = {"private", "team", "shared"}
    NoUser = NoUser
    NoProfile = NoProfile
    NoTeam = NoTeam

SYMMETRY Symmetry

INVARIANTS
    TypeOK
    
PROPERTIES
    DriversKeepTheirs
    ClaimsStand

CHECK_DEADLOCK FALSE
