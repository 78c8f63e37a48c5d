SPECIFICATION Spec
CONSTANTS
    Users = {u1}
    Symbols = {s1}
    EntryIds = {j1}
    Times = {1, 2}
    Prices = {1, 2}
    Quantities = {2}
    Exits = {0, 3}
    Requests = {r1, r2, r3, r4}
    NULL = NULL
SYMMETRY Symmetry
INVARIANT
    JournalInv
PROPERTY
    ImplementsBook
CHECK_DEADLOCK FALSE
