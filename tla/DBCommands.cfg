SPECIFICATION DFairSpec
CONSTANTS
    MaxSignals = 3
    r1 = r1
    r2 = r2
    RWorkers = {r1, r2}
    Stored = 3
    Slots = 1
INVARIANT NoSignalLosesWrites
INVARIANT NothingLeftOpen
INVARIANT UndisturbedRunReports
PROPERTY CtrlCStops
INVARIANT EachCodeOnce
INVARIANT CountersHonest
INVARIANT NobodyBlocked
INVARIANT SummaryIsFresh
PROPERTY ReplayEnds
