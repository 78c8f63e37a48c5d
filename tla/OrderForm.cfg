SPECIFICATION FormSpec
CONSTANTS
    Orders = {o1, o2}
    EntryIds = {j1, j2}
    Quantities = {1, 2}
    Loads = {l1, l2}
    MaxSubmits = 2
    NoFill = NoFill
INVARIANTS
    FillsAreKept
    JournalPageInv
PROPERTIES
    CheckedSellsAreCovered
    LoadingEnds
CHECK_DEADLOCK FALSE
