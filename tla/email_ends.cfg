SPECIFICATION FairSpec
CONSTANTS
    r1 = r1  r2 = r2
    s1 = s1
    p1 = p1  w1 = w1  w2 = w2
    Recipients = {r1, r2}
    Optouts = {}
    SubtaskIds = {s1}
    BatchSize = 2
    Parents = {p1}
    Workers = {w1, w2}
    MaxRetries = 1
    RetryCap = 0
    MaxDbRetries = 2
    Faults = {"transient", "missing", "refused", "republish"}
    SerialDuplicates = FALSE
    LockOutlivesWork = FALSE
    MaxRedeliveries = 1
    MaxDbErrors = 1
    MaxCrashes = 0
    MaxChurn = 0
CHECK_DEADLOCK FALSE
INVARIANTS NothingLost LockHasOwner
PROPERTY TaskFinishes
