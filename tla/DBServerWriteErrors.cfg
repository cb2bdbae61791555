SPECIFICATION Spec
CONSTANTS
    a = a
    b = b
    c1 = c1
    c2 = c2
    NULL = NULL
    Conns = {c1, c2}
    Codes <- MCCodes
    Keys <- MCKeys
    makeKey <- MCmakeKey
    Payloads <- MCPayloads
    StrayFrames <- MCNone
    Faults = {"commit"}
    MaxReceived = 1
    MaxRuns = 1
INVARIANT AckMeansStored
