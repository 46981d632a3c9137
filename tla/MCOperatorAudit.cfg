SPECIFICATION AuditSpec
CONSTANTS
    Events = {"requested", "completed"}
    Limits = {1, 2, 3}
    MaxInherited = 2
    MaxRecorded = 4
    MaxCorruptions = 2
INVARIANTS
    AuditReportIsTrue
PROPERTIES
    ImplementsTrail
CHECK_DEADLOCK FALSE
