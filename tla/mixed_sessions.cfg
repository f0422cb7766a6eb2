CONSTANTS
    Controllers = {c1, c2}
    Nobody = Nobody
    MaxPairings = 3
    IPSessions = {i1}
    BLESessions = {b}
    CacheSize = 1
SPECIFICATION Spec
SYMMETRY Symmetry
INVARIANTS PairingListIsSound
PROPERTIES ImplementsPairingList
