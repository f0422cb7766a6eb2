CONSTANTS
    Controllers = {c1, c2, c3, c4}
    Nobody = Nobody
    MaxPairings = 3
    IPSessions = {i1, i2}
    BLESessions = {}
    CacheSize = 1
SPECIFICATION Spec
SYMMETRY Symmetry
INVARIANTS SecuredFlagIsCurrent
