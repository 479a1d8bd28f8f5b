SPECIFICATION Spec
CONSTANTS
    r1 = r1  r2 = r2  r3 = r3
    s1 = s1  s2 = s2
    p1 = p1  w1 = w1  w2 = w2
    Recipients = {r1, r2, r3}
    Optouts = {}
    SubtaskIds = {s1, s2}
    BatchSize = 2
    Parents = {p1}
    Workers = {w1, w2}
    MaxRetries = 1
    RetryCap = 1
    MaxDbRetries = 2
    Faults = {"transient", "missing", "republish", "close"}
    SerialDuplicates = TRUE
    LockOutlivesWork = TRUE
    MaxRedeliveries = 1
    MaxDbErrors = 1
    MaxCrashes = 0
    MaxChurn = 0
SYMMETRY Symmetric
CHECK_DEADLOCK FALSE
INVARIANTS AlwaysOneEmail AlwaysCountersMatch
PROPERTY DoneStaysDone
