SPECIFICATION PhoneSpec
CONSTANTS
    Tasks = {1}
    NoTask = 0
    MaxItems = 1
    Routes <- MCMixedPlans
    MaxAttempts = 1
    Stamps = {1}
    MaxRows = 1
    MaxFaults = 0
    MaxDeaths = 0
CHECK_DEADLOCK FALSE
INVARIANT ApprovalEndIsTerminal
