SPECIFICATION Spec
CONSTANTS
    q1 = q1  q2 = q2  u1 = u1  u2 = u2  g1 = g1  g2 = g2  p1 = p1
    None = None
    Sections = {q1, q2}
    Units = {u1, u2}
    Groups = {g1, g2}
    Components = {p1}
    Contents = {0, 1}
    Blank = 0
    Fresh = {g2}
    Crashes = TRUE
    InitialTree <- TwoUnits
SYMMETRY Symmetric
CONSTRAINT Narrow
CHECK_DEADLOCK FALSE
INVARIANTS WholeForStudents AssertionHolds
PROPERTIES PublishShowsDraft StudentsSeeOnlyPublished
