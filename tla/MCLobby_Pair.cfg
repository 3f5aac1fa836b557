SPECIFICATION FairSpec

CONSTANTS
    h = h
    g = g
    a = a
    b = b
    Clients = {h, a}
    TokenHolders = {h}
    Lossy = {a}
    MaxToggles <- HostTwice
    MaxChats <- Never

INVARIANTS
    PausedByHost
    SettingsConverge

PROPERTIES
    RoomEmpties
    LeaversLeave

\* The room is left for the game, or by everybody.
CHECK_DEADLOCK FALSE
