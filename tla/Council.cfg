SPECIFICATION CouncilSpec
CONSTANTS
    UNDEFINED = UNDEFINED
    THROWN = THROWN
    Periods = {1, 2}
    BarCounts = {1, 50}
    MaxBatches = 1
    MaxOpinions = 3
    Figures <- MCFigures
    Readings <- MCReadings
    Chains <- MCChains
    Strengths <- MCStrengths
    ZScores <- MCZScores
    Volatilities = {15, 30}
    Contexts <- MCContexts
INVARIANTS
    OpinionsAreValid
    IdeasAreSound
    TraceExplains
    VotesCountOnce
CHECK_DEADLOCK FALSE
