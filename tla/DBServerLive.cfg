SPECIFICATION FairSpec
CONSTANTS
    a = a
    b = b
    c1 = c1
    c2 = c2
    NULL = NULL
    Conns = {c1, c2}
    Codes = {a}
    Keys = {"hash a"}
    makeKey <- MCOneKey
    Payloads <- MCTwins
    StrayFrames <- MCStray
    Faults = {"accept"}
    MaxReceived = 1
    MaxRuns = 2
PROPERTY ShutdownCompletes
PROPERTY RequestsReturn
