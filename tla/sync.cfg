SPECIFICATION FairSpec

CONSTANTS
    Nobody = Nobody
    Passes = {p}
    Flushers = {f, g}
    Names <- StuckNames
    Parts <- StuckParts
    Dated = {"two"}
    Unreadable = {"bad"}
    Fails = {"fetch", "load", "save"}
    MaxVersion = 1
    MaxCrashes = 1

INVARIANTS
    NothingLost
    NoDoubleUpload
PROPERTIES
    QueuedUntilUploaded
    EverythingArrives
