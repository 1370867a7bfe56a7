CONSTANTS
    Addr <- MCAddr
    MaxAllocs <- MCMaxAllocs
    SizeWidth <- MCSizeWidth
    Sizes <- MCSizes
SPECIFICATION Spec
INVARIANT TrackingSound
INVARIANT FreeDetectsOverflow
PROPERTY FreeOnlyLive
PROPERTY HeapRefinement
