SPECIFICATION Spec
CONSTANTS
    r1 = r1
    s1 = s1
    p1 = p1  w1 = w1  w2 = w2  w3 = w3
    Recipients = {r1}
    Optouts = {}
    SubtaskIds = {s1}
    BatchSize = 1
    Parents = {p1}
    Workers = {w1, w2, w3}
    MaxRetries = 1
    RetryCap = 1
    MaxDbRetries = 2
    Faults = {}
    SerialDuplicates = FALSE
    LockOutlivesWork = TRUE
    MaxRedeliveries = 2
    MaxDbErrors = 1
    MaxCrashes = 0
    MaxChurn = 0
CHECK_DEADLOCK FALSE
INVARIANT OneWorkerAtATime
