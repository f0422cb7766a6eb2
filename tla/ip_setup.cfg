CONSTANTS
    Codes = {k1, k2}
    StaticCode = StaticCode
    NoCode = NoCode
    HasDisplay = TRUE
    HasNFC = TRUE
    Controllers = {c1, c2}
    Nobody = Nobody
    MaxAttempts = 2
    IPSessions = {i1, i2}
    BLESessions = {}
SPECIFICATION Spec
SYMMETRY Symmetry
INVARIANTS AssertionsHold CodeIsHidden
