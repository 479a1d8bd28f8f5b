SPECIFICATION Spec
CONSTANTS
    r1 = r1
    s1 = s1
    p1 = p1  w1 = w1  w2 = w2
    Recipients = {r1}
    Optouts = {}
    SubtaskIds = {s1}
    BatchSize = 1
    Parents = {p1}
    Workers = {w1, w2}
    MaxRetries = 1
    RetryCap = 1
    MaxDbRetries = 2
    Faults = {"transient"}
    SerialDuplicates = FALSE
    LockOutlivesWork = TRUE
    MaxRedeliveries = 1
    MaxDbErrors = 0
    MaxCrashes = 0
    MaxChurn = 0
CHECK_DEADLOCK FALSE
INVARIANT DoneIsNotRestarted
