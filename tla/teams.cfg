SPECIFICATION Spec

CONSTANTS
    Profiles = {ann, ben, eva}
    Teams = {blue, red}
    Rows = {r1, r2, r3}
    Calls = {c, d}
    NoTeam = NoTeam
    NoProfile = NoProfile
    NoRow = NoRow
    MaxDeletes = 1

SYMMETRY Symmetry

INVARIANTS
    TypeOK
    OneTeamPerDriver
    ManagerIsActive
PROPERTIES
    ManagerStays

CHECK_DEADLOCK FALSE
