SPECIFICATION PhoneSpec
CONSTANTS
    Tasks = {1, 2}
    NoTask = 0
    MaxItems = 1
    Routes <- MCRetriedPlans
    MaxAttempts = 2
    Stamps = {1}
    MaxRows = 1
    MaxFaults = 0
    MaxDeaths = 1
INVARIANTS
    ToolRunsOnce
    HistoryIsTrue
    ApprovalCardIsLive
PROPERTIES
    TerminalIsFinal
CHECK_DEADLOCK FALSE
