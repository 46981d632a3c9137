SPECIFICATION RomSpec
CONSTANTS
    b1 = b1
    b2 = b2
    Builds = {b1, b2}
    NoBuild = none
    MaxAge = 0
    Archives = {"a1"}
    TypedGates <- MCTypedGates
    MaxTime = 1
    MaxRuns = 2
    MaxFaults = 2
SYMMETRY Interchangeable
INVARIANTS
    HubReadyIsEarned
    ChecklistFollowsReport
    PacketAndChecklistAgree
    NextStepIsActionable
    ReviewRestsOnACheck
    StatusIsLinearizable
CHECK_DEADLOCK FALSE
