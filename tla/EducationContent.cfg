SPECIFICATION Spec
CONSTANTS
    ContentIds = {c1, c2}
    Slugs = {s1}
    Fields = {title, status}
    Values = {a, b}
    MaxVersion = 3
    Requests = {r1, r2, r3, r4}
    NULL = NULL
SYMMETRY Symmetry
INVARIANT
    ContentInv
PROPERTY
    ImplementsVersioned
CHECK_DEADLOCK FALSE
