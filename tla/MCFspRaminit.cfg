CONSTANTS
    Addr <- MCAddr
    MrcPayload <- MCMrcPayload
    MaxHobs <- MCMaxHobs
    NoList = NoList
    ResLen <- MCResLen
    U32 <- MCU32
SPECIFICATION Spec
INVARIANT VerdictSound
INVARIANT DiagnosticsComplete
