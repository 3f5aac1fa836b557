SPECIFICATION Spec

CONSTANTS
    h = h
    g = g
    a = a
    b = b
    Clients = {h, a}
    TokenHolders = {h}
    Lossy = {}
    MaxToggles <- HostTwice
    MaxChats <- Never

INVARIANTS
    StartsWhenReady

\* The room is left for the game, or by everybody.
CHECK_DEADLOCK FALSE
