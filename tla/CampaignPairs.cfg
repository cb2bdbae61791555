SPECIFICATION CSpec
CONSTANTS
    f = f
    g = g
    h = h
    m = m
    c1 = c1
    c2 = c2
    i1 = i1
    i2 = i2
    i3 = i3
    i4 = i4
    i5 = i5
    NULL = NULL
    TooLarge = TooLarge
    Failed = Failed
    Conns = {c1, c2}
    Codes = {f, g, m}
    Inputs = {i1, i2}
    Keys <- MCKeys
    makeKey <- MCmakeKey
    Full <- MCFull
    Min <- MCMin
    Payloads <- MCPayloads
    StrayFrames <- MCNone
    Faults = {"close", "accept"}
    MaxReceived = 3
    MaxRuns = 2
SYMMETRY WorkerSymmetry
INVARIANT AckMeansStored
PROPERTY ImplementsPairStore
