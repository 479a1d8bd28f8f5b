SPECIFICATION Spec
CONSTANTS
    a1 = a1  a2 = a2
    k1 = k1  k2 = k2
    t1 = t1  t2 = t2  i1 = i1
    v1 = v1  v2 = v2
    None = None
    Answers = {a1, a2}
    Tabs = {t1, t2}
    Tasks = {i1}
    Keys = {k1, k2}
    Versions = {v1, v2}
    MaxAttempts = 1
    Kinds <- ExternalOrLocal
SYMMETRY Symmetric
CHECK_DEADLOCK FALSE
INVARIANTS AttemptsCountChecks ScoreIsOfItsAnswer GradeFollowsState QueuedIsPending
