SPECIFICATION Spec
CONSTANTS
    t1 = t1
    w1 = w1
    c1 = c1
    Tasks = {t1}
    Delegating = {t1}
    Workers = {w1}
    Polls = {c1}
    Faults = {}
    MaxRedeliveries = 0
CHECK_DEADLOCK FALSE
INVARIANT ParentSuccessIgnored
