CONSTANTS
    Addr <- MCAddr
    MrcPayload <- MCMrcPayload
    MaxHobs <- MCMaxHobs
    NoList = NoList
    ResLen <- MCWideResLen
    U32 <- MCU32
SPECIFICATION Spec
INVARIANT ReservationCoversRegion
