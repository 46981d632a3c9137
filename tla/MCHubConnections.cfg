SPECIFICATION FairSpec
CONSTANTS
    CredentialIds <- MCCredentialIds
    LegacyIds <- MCLegacyIds
    MaxActive = 1
    MaxRetained = 1
    MaxGeneration = 2
    Stamps <- MCStamps
    Conns = {x1, x2}
    Requests = {r1, r2}
    Raising = {r1}
INVARIANTS
    RevokedAccessClosed
    MutationsAreAnnounced
    NoStrayRegistration
    AnswersMatchStore
PROPERTIES
    DeadBearersStayDead
    ImplementsStore
    RevocationReachesSessions
CHECK_DEADLOCK FALSE
