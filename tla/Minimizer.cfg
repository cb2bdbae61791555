SPECIFICATION Spec
CONSTANTS
    Steps <- MCSteps
    Traces <- MCTraces
    LineSize <- MCLineSize
    MinLine = 2
    CodeLens = {2, 4, 5}
    maxTraceSize = 8
    traceSizeMargin = 3
    minMinimizeSize = 4
    maxTraceSteps = 2
    Extra = 1
INVARIANT MinimizedRunsTheSame
INVARIANT FoundWasProbed
INVARIANT NothingShorter
INVARIANT TooLargeIsExact
INVARIANT FewProbes
