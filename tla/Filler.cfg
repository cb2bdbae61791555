SPECIFICATION SFairSpec
CONSTANTS
    Inputs <- MCInputs
    Lens <- MCLens
    MaxTaken = 40
    Importances <- MCImportances
    FallbackWeight = 2
INVARIANT UsedUpIsExact
INVARIANT SelectsByWeight
PROPERTY ImplementsByteStream
PROPERTY SliceReturns
