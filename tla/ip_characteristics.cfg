CONSTANTS
    UINT8_MAX = 25
    UINT16_MAX = 60
    INT32_MIN <- MCINT32_MIN
    INT32_MAX = 200
    UINT32_MAX = 300
    UINT64_MAX = 500
    FLT_INF = 9999
    Accessories <- MCAccessories
    MaxReadContexts = 3
    MaxWriteContexts = 3
    Sessions = {s1, s2}
    Queries <- MCQueries
    Bodies <- MCBodies
    Preparations <- MCPreparations
    Refusals <- MCRefusals
    InitialValues <- MCInitialValues
    UpdatedValues <- MCUpdatedValues
    MaxEventNotifications = 1
    ScratchBytes = 12
    OutboundBytes = 222
SPECIFICATION CharSpec
SYMMETRY Symmetry
INVARIANTS SessionsAreSound BodiesAreSound
PROPERTIES WritesAreAuthorized WritesAreReported
CHECK_DEADLOCK FALSE
