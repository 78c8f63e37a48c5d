SPECIFICATION Spec
CONSTANTS
    Courses = {k1}
    Quizzes = {z1, z2}
    Slots = {w1, w2, w3}
    MaxAttempts = 2
    MaxClicks = 6
    NULL = NULL
SYMMETRY Symmetry
INVARIANTS
    CenterInv
    ScreenTellsTruth
PROPERTY
    UncompletedOnlyBlind
CHECK_DEADLOCK FALSE
