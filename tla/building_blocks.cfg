CONSTANTS
    Files <- KeyFiles
    Values = {"a", "b"}
    MaxFaults = 2
    FileSyncFails = FALSE
    MaxTimers = 3
    MaxTime = 2
    NumElements = 3
    MaxTimestamp = 4
    SessionIDs = {"a", "b", "c", "d"}
    CachedPairings = {0, 1}
    MaxTCPStreams = 2
    MaxBacklog = 2
    ProtocolVersions = {2, 3, 4}
    Challenges = {"a", "b"}
    MaxEventCounter = 2
    MaxFailures = 2
    MaxByte = 7
    ReceivedBuffers <- Buffers
    WantedTypes = {4, 5}
    Samples <- FormatSamples
    IntBytes = 2
    Capacities = {12, 100}
    Connections <- ByteStreams
    InboundBytes = 30
    MaxContentLength = 50
    ContentTypes <- KnownTypes
    Accessories <- AccessoriesOf
    UINT8_MAX = 25
    UINT16_MAX = 60
    INT32_MAX = 200
    INT32_MIN <- MinInt32
    UINT32_MAX = 300
    UINT64_MAX = 500
    FLT_INF = 9999
    MaxFrameBytes = 300
    OutboundBytes = 650
    FrameOverhead = 18
    ReadLengths = {0, 1, 30}
    MaxReadContexts = 3
    MaxWriteContexts = 3
SPECIFICATION Spec
INVARIANTS FilesAreKept ReadsAreFaithful FormatsAreKept RequestsArriveAsSent DatabaseIsWritten
PROPERTIES StoreIsDurable TimersAreKept NewestSurvives StreamsAreServed ChipIsUsedWell
CHECK_DEADLOCK FALSE
