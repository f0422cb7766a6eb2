CONSTANTS
    Sessions = {s1, s2}
    Chars = {on}
    SwitchEvents = {}
    MaxFill = 2
    MaxParts = 1
    HasBLE = FALSE
    Pipelining = TRUE
SPECIFICATION Spec
SYMMETRY Symmetry
INVARIANTS ServerIsSound EventsAreKept
