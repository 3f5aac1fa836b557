SPECIFICATION Spec

CONSTANTS
    h = h
    g = g
    a = a
    b = b
    Clients = {h, a, b}
    TokenHolders = {h}
    Lossy = {}
    MaxToggles <- AllButB
    MaxChats <- Never

INVARIANTS
    SamePlayersInGame

\* The room is left for the game, or by everybody.
CHECK_DEADLOCK FALSE
