SPECIFICATION PairingSpec
CONSTANTS
    CredentialIds <- MCCredentialIds
    LegacyIds <- MCLegacyIds
    MaxActive = 2
    MaxRetained = 2
    MaxGeneration = 0
    Stamps <- MCStamps
    Challenges = {k1, k2}
    Redeemers = {p1, p2, p3}
    MaxPending = 1
    MaxFailures = 2
    Ttl = 2
    MaxTime = 3
INVARIANTS
    OneCredentialPerChallenge
    CapacityBounds
PROPERTIES
    SpentChallengesStaySpent
CHECK_DEADLOCK FALSE
