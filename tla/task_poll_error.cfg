SPECIFICATION Spec
CONSTANTS
    t1 = t1
    w1 = w1
    c1 = c1
    Tasks = {t1}
    Delegating = {}
    Workers = {w1}
    Polls = {c1}
    Faults = {"error"}
    MaxRedeliveries = 0
CHECK_DEADLOCK FALSE
INVARIANT EveryPollAnswers
