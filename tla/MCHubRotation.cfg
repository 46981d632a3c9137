SPECIFICATION Spec
CONSTANTS
    CredentialIds <- MCOneCredential
    LegacyIds <- MCLegacyIds
    MaxActive = 1
    MaxRetained = 1
    MaxGeneration = 2
    Stamps <- MCStamps
    Conns = {x1}
    Requests = {r1}
    Raising = {r1}
INVARIANTS
    RotationClosesOldSessions
CHECK_DEADLOCK FALSE
