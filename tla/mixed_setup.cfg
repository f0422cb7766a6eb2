CONSTANTS
    Codes = {k1}
    StaticCode = StaticCode
    NoCode = NoCode
    HasDisplay = FALSE
    HasNFC = TRUE
    Controllers = {c1, c2}
    Nobody = Nobody
    MaxAttempts = 2
    IPSessions = {i1}
    BLESessions = {b}
SPECIFICATION Spec
SYMMETRY Symmetry
INVARIANTS ProcedureOwned CodeLocked
PROPERTIES PairingNeverReplaced LockoutIsFinal
