CONSTANTS
    Addr <- MCAddr
    MaxAllocs <- MCMaxAllocs
    SizeWidth <- MCSizeWidth
    Sizes <- MCWrapSizes
SPECIFICATION Spec
INVARIANT CanaryInBounds
