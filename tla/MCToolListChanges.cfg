SPECIFICATION ToolListFairSpec
CONSTANTS
    Tools = {t1, t2}
    SafeTools = {t1}
    Sessions = {s1}
    MaxEvents = 3
    WireSize = 2
INVARIANTS
    NoMissedChange
PROPERTIES
    StaleListingIsNoticed
    BrokenToolsDisappear
CHECK_DEADLOCK FALSE
