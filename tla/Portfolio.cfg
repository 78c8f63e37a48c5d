SPECIFICATION Spec
CONSTANTS
    Users = {u1}
    Symbols = {1, 2}
    EntryIds = {j1, j2}
    Fills <- MCFills
    ExitPrices = {6}
    Times = {1, 2}
    Prices = {6, 12}
    StartingCash = 100
    Requests = {q1}
    NULL = NULL
SYMMETRY Symmetry
INVARIANTS
    PortfolioInv
    ValuesAreFresh
PROPERTY
    ClosingIsNeutral
CHECK_DEADLOCK FALSE
