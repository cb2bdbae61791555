SPECIFICATION CSpec
CONSTANTS
    f = f
    g = g
    h = h
    m = m
    c1 = c1
    c2 = c2
    i1 = i1
    i2 = i2
    i3 = i3
    i4 = i4
    i5 = i5
    NULL = NULL
    TooLarge = TooLarge
    Failed = Failed
    Conns = {c1, c2}
    Codes = {f, h, m}
    Inputs = {i1, i3, i4, i5}
    Keys <- MCKeys
    makeKey <- MCmakeKey
    Full <- MCFull
    Min <- MCMin
    Payloads <- MCPayloads
    StrayFrames <- MCNone
    Faults <- MCFaults
    MaxReceived = 1
    MaxRuns = 1
SYMMETRY WorkerSymmetry
INVARIANT PairClosed
INVARIANT ResponsesFit
INVARIANT NoUseAfterClose
INVARIANT StatsCoverNewCodes
