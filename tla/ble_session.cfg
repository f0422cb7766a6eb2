CONSTANTS
    Controllers = {c1, c2, c3, c4}
    Nobody = Nobody
    MaxPairings = 3
    IPSessions = {}
    BLESessions = {b}
    CacheSize = 2
SPECIFICATION Spec
SYMMETRY Symmetry
INVARIANTS SessionsBound ResumeEntriesBound
PROPERTIES PeerAuthorized
