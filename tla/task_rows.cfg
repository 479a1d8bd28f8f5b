SPECIFICATION Spec
CONSTANTS
    t1 = t1  t2 = t2
    w1 = w1  w2 = w2
    c1 = c1  c2 = c2
    Tasks = {t1, t2}
    Delegating = {t2}
    Workers = {w1, w2}
    Polls = {c1, c2}
    Faults = {"publish", "input", "error", "crash", "revoke"}
    MaxRedeliveries = 0
SYMMETRY Symmetric
CHECK_DEADLOCK FALSE
INVARIANTS TypeOK OneTaskPerKey AnswersAreFinal
PROPERTIES EndIsFinal SubtasksStay OnlySubtasksSucceed
