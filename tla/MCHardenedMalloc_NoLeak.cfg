CONSTANTS
    Addr <- MCAddr
    MaxAllocs <- MCMaxAllocs
    SizeWidth <- MCSizeWidth
    Sizes <- MCSizes
SPECIFICATION Spec
INVARIANT NoLeak
