CONSTANTS
    Controllers = {c1, c2, c3}
    Nobody = Nobody
    MaxPairings = 2
    IPSessions = {i1, i2}
    BLESessions = {}
    CacheSize = 1
SPECIFICATION Spec
SYMMETRY Symmetry
INVARIANTS SessionsBound
