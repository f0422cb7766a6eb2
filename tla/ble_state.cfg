CONSTANTS
    UINT8_MAX = 4
    UINT16_MAX = 4
    UINT32_MAX = 8
    BroadcastsPerKey = 3
    Intervals = {1}
    Notifying = {1, 2, 3}
    Broadcastable = {1, 2}
    Images = {1, 2}
    FirstContents <- Contents
    MaxLeft = 1
SPECIFICATION Spec
INVARIANTS StateIsSound ChangesAreAnnounced NoncesAreFresh
PROPERTIES ChangesAreNumbered
