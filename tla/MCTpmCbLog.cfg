CONSTANTS
    PreramCap <- MCPreramCap
    RamCap <- MCRamCap
    MaxMeasure <- MCMaxMeasure
    PreramMeta <- MCMeta
SPECIFICATION Spec
INVARIANT LogFaithful
PROPERTY GetReturnsKept
PROPERTY ClearedInBounds
PROPERTY LogRefinement
