CONSTANTS
    PreramCap <- MCPreramCap
    RamCap <- MCRamCap
    MaxMeasure <- MCMaxMeasure
    PreramMeta <- MCWildMeta
SPECIFICATION Spec
INVARIANT PreramInBounds
