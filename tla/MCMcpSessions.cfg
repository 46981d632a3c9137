SPECIFICATION McpFairSpec
CONSTANTS
    Clients = {c1}
    Sessions = {s1, s2}
    Handlers = {h1, h2}
    MaxActiveSessions = 2
    MaxMutations = 1
    NoClient = NoClient
INVARIANTS
    SessionsDieWithBearer
    SlotsAreAccounted
    StreamsHoldSessions
    ReplayStoresAreDistinct
PROPERTIES
    RevocationEndsSessions
CHECK_DEADLOCK FALSE
