SPECIFICATION Spec
CONSTANTS
    w1 = w1
    Initial = Initial
    Windows = {w1}
    MaxPhotos = 3
    MaxHeld = 1
    MaxAnswers = 2
CONSTRAINT OneAtWork
CHECK_DEADLOCK FALSE
PROPERTIES ResultStands ImplementsIdentity
