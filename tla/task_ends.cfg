SPECIFICATION FairSpec
CONSTANTS
    t1 = t1
    t2 = t2
    w1 = w1
    w2 = w2
    Tasks = {t1, t2}
    Delegating = {t2}
    Workers = {w1, w2}
    Polls = {}
    Faults = {"error", "input"}
    MaxRedeliveries = 1
CHECK_DEADLOCK FALSE
PROPERTY EveryTaskEnds
