SPECIFICATION Spec

CONSTANTS
    Sessions = {1, 2, 3, 4}
    upload = upload
    oval = oval
    field = field
    Ingests = {sync}
    Backfills = {script}
    BatchOf <- NamingBatchOf
    NoBatch = NoBatch
    Packed = {}
    PlaceOf <- NamingPlaceOf
    CircuitOf <- NamingCircuitOf
    GpsOf <- NamingGpsOf
    NamesAt <- NamingNamesAt
    Null = Null
    Blank = Blank
    Radius = 3
    Modes <- NamingModes

INVARIANTS
    NamesRight
PROPERTIES
    NamesStand
CHECK_DEADLOCK FALSE
