SPECIFICATION Spec
CONSTANTS
    r1 = r1  r2 = r2
    s1 = s1  s2 = s2  s3 = s3  s4 = s4
    p1 = p1  p2 = p2  w1 = w1
    Recipients = {r1, r2}
    Optouts = {}
    SubtaskIds = {s1, s2, s3, s4}
    BatchSize = 1
    Parents = {p1, p2}
    Workers = {w1}
    MaxRetries = 0
    RetryCap = 0
    MaxDbRetries = 1
    Faults = {"missing", "refused", "publish"}
    SerialDuplicates = FALSE
    LockOutlivesWork = FALSE
    MaxRedeliveries = 0
    MaxDbErrors = 0
    MaxCrashes = 0
    MaxChurn = 1
SYMMETRY Symmetric
CHECK_DEADLOCK FALSE
INVARIANT OneEmailPerParent
