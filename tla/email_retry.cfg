SPECIFICATION Spec
CONSTANTS
    r1 = r1  r2 = r2  r3 = r3
    s1 = s1  s2 = s2
    p1 = p1  w1 = w1  w2 = w2
    Recipients = {r1, r2, r3}
    Optouts = {r3}
    SubtaskIds = {s1, s2}
    BatchSize = 2
    Parents = {p1}
    Workers = {w1, w2}
    MaxRetries = 1
    RetryCap = 1
    MaxDbRetries = 2
    Faults = {"ratelimit", "transient", "address", "fatal", "missing", "refused", "publish",
              "republish"}
    SerialDuplicates = FALSE
    LockOutlivesWork = FALSE
    MaxRedeliveries = 0
    MaxDbErrors = 1
    MaxCrashes = 1
    MaxChurn = 0
SYMMETRY Symmetric
CHECK_DEADLOCK FALSE
INVARIANTS TypeOK NobodyForgotten SettledCountsEverybody RetriesBounded OptoutsRespected
    AtMostOneEmail CountersMatch ProgressAddsUp DoneIsQuiet
PROPERTY ImplementsLedger
