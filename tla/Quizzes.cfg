SPECIFICATION Spec
CONSTANTS
    CourseIds = {c1}
    LessonIds = {l1}
    QuizIds = {z1, z2}
    QuestionIds = {q1, q2}
    CourseSlugs = {k1}
    LessonSlugs = {m1}
    QuizSlugs = {s1, s2}
    Positions = {0, 1}
    OptionCounts = {2, 3}
    OptionIndices = {0, 2}
    Requests = {r1, r2}
    MaxVersion = 2
    NULL = NULL
SYMMETRY Symmetry
INVARIANTS
    QuizInv
    HistoryIsWhole
PROPERTIES
    EditsReplaceWhatTheyRead
    KeysBreakOnlyByHalfPatches
CHECK_DEADLOCK FALSE
