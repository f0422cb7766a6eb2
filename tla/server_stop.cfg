CONSTANTS
    Sessions = {s1}
    Chars = {on}
    SwitchEvents = {}
    MaxFill = 2
    MaxParts = 1
    HasBLE = TRUE
    Pipelining = FALSE
SPECIFICATION DrainingSpec
PROPERTIES StopEnds EventsDelivered RoomIsMade
