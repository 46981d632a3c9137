SPECIFICATION PhoneFairSpec
CONSTANTS
    Tasks = {1, 2}
    NoTask = 0
    MaxItems = 2
    Routes <- MCMixedPlans
    MaxAttempts = 1
    Stamps = {1}
    MaxRows = 1
    MaxFaults = 1
    MaxDeaths = 0
PROPERTIES
    BusyEnds
    AuditedOrDegraded
CHECK_DEADLOCK FALSE
