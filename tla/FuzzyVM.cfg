SPECIFICATION FSpec
CONSTANTS
    w1 = w1
    w2 = w2
    t1 = t1
    t2 = t2
    NULL = NULL
    Workers = {w1, w2}
    Tests = {t1, t2}
    Pieces = 3
    Faults <- MCFaults
    Size = 1000000
    Cutoff = 10
    Count = 2
    LastName = 4
    Data <- MCData
    Shards = 2
    ShardOf <- MCShardOf
SYMMETRY WorkerSymmetry
INVARIANT CompleteWhenQuiet
INVARIANT DuplicatesArePresent
INVARIANT NoTestLost
INVARIANT Bracket
INVARIANT Converges
INVARIANT PrefixesSurvive
INVARIANT Minimal
