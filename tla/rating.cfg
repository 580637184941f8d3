SPECIFICATION FairSpec

CONSTANTS
    ann = ann
    ben = ben
    cid = cid
    Undated = Undated
    Sessions <- SeasonSessions
    Drivers = {ann, ben, cid}
    Row <- Season
    Early = {1, 2, 5, 6}
    LinePoints = 3
    MinLine = 3
    ToleranceFloor = 3
    ToleranceK = 4
    MinOffending = 2
    MinSample = 4
    SpeedDrop = 25
    MinOthers = 2
    MinReference = 3
    TopN = 5
    MinPerWeek = 1
    MinBonus = 2
    InitialFreezes = 1
    MaxFreezes = 2
    EarnEvery = 2
    Batches = {worker}
    MaxFails = 1
    MaxToggles = 1

INVARIANTS
    EachSessionCountsOnce
PROPERTIES
    RatedInTheEnd
    StreaksSettle
