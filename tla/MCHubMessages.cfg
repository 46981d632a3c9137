SPECIFICATION Spec
CONSTANTS
    Conns = {x1, x2}
    Principals = {"phone", "legacy"}
    Keyed = {"phone"}
    Logins <- MCLogins
    SafeTools = {info}
    ConfirmTools = {open}
    Approvals = {a1, a2}
    MaxApprovals = 1
    MaxMessages = 5
    Ttl = 1
    MaxTime = 1
SYMMETRY Interchangeable
INVARIANTS
    ApprovalStartsToolOnce
    ConfirmToolsAreApproved
    NoOrphanedApproval
CHECK_DEADLOCK FALSE
