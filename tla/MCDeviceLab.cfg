SPECIFICATION FairLabSpec
CONSTANTS
    MaxSmokes = 1
    MaxBenches = 2
    MaxJobs = 2
    MaxFlips = 1
    Swipes = 1
    MaxCards = 1
    Models = {m1, m2}
    NoModel = none
    Examples = {"e1", "e2"}
    MaxForced = 1
    Pipelines = {"p", "q"}
INVARIANTS
    SmokeVerdictIsFresh
    MisplacedTokenEndsRun
    AcceptedSuiteMeasuresModel
    BundleIsGenuine
PROPERTIES
    LabRunsEnd
CHECK_DEADLOCK FALSE
