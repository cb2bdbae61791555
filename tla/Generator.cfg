SPECIFICATION FairSpec
CONSTANTS
    MaxTotalBytes = 36
    MaxRecursionLevel = 1
    Counters = {0, 2}
    MaxEmit = 207
    MinCall = 18
    MaxCall = 37
    Spread = 2
    Widths = {1}
    DataSizes = {5}
    Pairs = {1}
    MSMItems = {1}
    BLSPairs = {2}
    WordSize = 4
    StackLimit = 6
    RawPushes = {1}
INVARIANT TypeOK
INVARIANT JumpsLandAsIntended
INVARIANT Accounting
INVARIANT BudgetBound
INVARIANT TreeBounded
PROPERTY ImplementsCodeBudget
PROPERTY GenerationEnds
