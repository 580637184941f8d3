SPECIFICATION RecordingSpec

CONSTANTS
    MinRun = 3
    MinDrop = 1000
    MaxPost = 5000
    Step = 400
    Jitter = 5
    LapTime = 2800
    MaxRows = 17
    MaxLaps = 2
    MaxRestarts = 1
    FixLen = 45
    EventLens = {14}
    OtherLens = {20}
    Cuts = {14}
    FixTime = 100
    MinFixes = 8
    Window = 3
    Radius = 3
    Straight = 6
    Debounce = 4
    Round = 27
    Speeds = {1, 3}
    Pit = 18
    Noise = 1
    MaxFixes = 15
    MaxOdd = 1

INVARIANTS
    SessionsRecovered
    LapsRecovered
    RowsRunForward
    LapsCounted

CHECK_DEADLOCK FALSE
