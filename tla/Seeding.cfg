SPECIFICATION SeedSpec
CONSTANTS
    Runs = {p1, p2}
    MaxStarts = 3
    MaxRows = 2
    MaxEdits = 1
    NoRow = NoRow
SYMMETRY Symmetry
INVARIANTS
    SeedInv
    FinishedMeansSeeded
    AloneNeverFails
    CountsAddUp
CHECK_DEADLOCK FALSE
