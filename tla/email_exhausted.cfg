SPECIFICATION Spec
CONSTANTS
    r1 = r1  r2 = r2
    s1 = s1
    p1 = p1  w1 = w1
    Recipients = {r1, r2}
    Optouts = {}
    SubtaskIds = {s1}
    BatchSize = 2
    Parents = {p1}
    Workers = {w1}
    MaxRetries = 1
    RetryCap = 1
    MaxDbRetries = 2
    Faults = {"transient"}
    SerialDuplicates = FALSE
    LockOutlivesWork = TRUE
    MaxRedeliveries = 0
    MaxDbErrors = 0
    MaxCrashes = 0
    MaxChurn = 0
CHECK_DEADLOCK FALSE
INVARIANT CountedOnce
