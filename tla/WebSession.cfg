SPECIFICATION FairWebSpec
CONSTANTS
    BrowserTabs = {b1, b2}
    MaxTokens = 3
    NoSession = NoSession
INVARIANTS
    WebInv
    NoSessionReturns
PROPERTY
    RestoringEnds
CHECK_DEADLOCK FALSE
