SPECIFICATION Spec

CONSTANTS
    Sessions = {1, 2, 3}
    upload = upload
    oval = oval
    field = field
    Ingests = {sync}
    Backfills = {script}
    BatchOf <- MCBatchOf
    NoBatch = NoBatch
    Packed = {}
    PlaceOf <- MCPlaceOf
    CircuitOf <- MCCircuitOf
    GpsOf <- MCGpsOf
    NamesAt <- MCNamesAt
    Null = Null
    Blank = Blank
    Radius = 3
    Modes <- MCModes

INVARIANTS
    TypeOK
    RawReadable

CHECK_DEADLOCK FALSE
