SPECIFICATION Spec
CONSTANTS
    w1 = w1
    a1 = a1  a2 = a2
    Initial = Initial
    Windows = {w1}
    Adders = {a1, a2}
    MaxKeys = 2
SYMMETRY Symmetric
CHECK_DEADLOCK FALSE
INVARIANTS DownloadIsAsRecorded VerifiedIsEarned GeneratingIsRequested
