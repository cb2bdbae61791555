SPECIFICATION Spec
CONSTANTS
    MaxSignals = 3
INVARIANT CrashSurfaces
