SPECIFICATION GatewaySpec
CONSTANTS
    None = None
    Limiters = {l1, l2}
    Keys = {k1}
    CapacityKeys = {c1, c2, c3}
    Limit <- MCLimit
    MCQuota = 2
    Window = 2
    Retention = 4
    MaxRows = 6
    MaxSweep = 1
    MaxDelay = 1
    MaxTime = 6
    MaxCalls = 4
    Callers = {a1, a2, a3}
    MaxOrgs = 2
    MaxIds = 5
    LocalKeys = {n1, n2, n3}
    LocalLimit = 1
    LocalWindow = 3
    MaxKeys = 2
    MaxNow = 3
    MaxLog = 6
    JobWorkers = {w1, w2}
    Identities = {i1, i2, i3}
    MaxAttempts = 2
    MaxJobs = 4
SYMMETRY GatewaySymmetry
INVARIANTS QuotaHolds RefusalsAreEarned OnlySweepersDeadlock CapsAreKept OneKeyPerOrganization NoJobIsStranded
CHECK_DEADLOCK FALSE
