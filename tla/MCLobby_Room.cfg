SPECIFICATION Spec

CONSTANTS
    h = h
    g = g
    a = a
    b = b
    Clients = {h, g, a, b}
    TokenHolders = {h, g}
    Lossy = {h}
    MaxToggles <- Never
    MaxChats <- SuccessorOnce

SYMMETRY Alike

INVARIANTS
    ListsConverge
    AtMostOneHost
    ColorsDistinct

PROPERTIES
    ChatsAttributed

\* The room is left for the game, or by everybody.
CHECK_DEADLOCK FALSE
