SPECIFICATION Spec

CONSTANTS
    ann = ann
    ben = ben
    temp = temp
    NoDriver = NoDriver
    NoBatch = NoBatch
    Claimant = ben
    Workers = {w1, w2}
    Drivers <- MCDrivers
    Batches <- SharedBatches
    Sessions <- SharedSessions
    Content <- SharedContent
    DriverOf <- SharedDriverOf
    Timely = TRUE
    MaxStops = 1
    Placeholders = {ann}

INVARIANTS
    TypeOK
    OneWorkerPerBatch
    CompleteMeansFinished
PROPERTIES
    KeepsPromise
SYMMETRY WorkerSymmetry
