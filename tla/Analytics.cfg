SPECIFICATION AnalyticsSpec
CONSTANTS
    r1 = r1
    r2 = r2
    s1 = s1
    s2 = s2
    short = short
    null = null
    Queries = {r1, r2}
    Moments = {1, 744}
    Buckets = 3
    MaxTrades = 2
    MaxEvents = 4
    Trades <- MCTrades
    Ranges <- MCRanges
    Equities <- MCEquities
    Pnls <- MCPnls
SYMMETRY Symmetry
INVARIANTS
    StatsAgree
    BreakdownsAddUp
    DrawdownIsWorst
    ReportsNeverForget
CHECK_DEADLOCK FALSE
