SPECIFICATION FairSpec
CONSTANTS
    Symbols = {s1}
    Times = {1, 2}
    Prices = {1, 2}
    Ticks <- MCTicks
    Sockets = {k1, k2}
    NULL = NULL
INVARIANT
    FeedInv
PROPERTIES
    PublicationOrder
    SilentAfterClose
    Reconnects
CHECK_DEADLOCK FALSE
