SPECIFICATION FairSpec

CONSTANTS
    ann = ann
    ben = ben
    temp = temp
    NoDriver = NoDriver
    NoBatch = NoBatch
    Claimant = ben
    Workers = {w1, w2}
    Drivers <- MCDrivers
    Batches <- TwiceBatches
    Sessions <- TwiceSessions
    Content <- TwiceContent
    DriverOf <- TwiceDriverOf
    Timely = FALSE
    MaxStops = 1
    Placeholders = {}

INVARIANTS
    StoredBeforeComplete
    ErrorIffFailed
    NeverOverclaims
    
PROPERTIES
    EveryBatchSettles
