SPECIFICATION Spec
CONSTANTS
    PerHour = 2
    Back = 4
    Window = 4
    Retain = 6
    RetainHourly = 8
    QueueMax = 2
    MaxRows = 2
    MaxClock = 8
    MaxQueries = 4
INVARIANTS TypeOK CountedOnce WindowExact
