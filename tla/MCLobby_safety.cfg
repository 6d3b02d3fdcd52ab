CONSTANTS
    c1 = c1
    c2 = c2
    c3 = c3
    c4 = c4
    Clients = {c1, c2, c3, c4}
    r1 = r1
    r2 = r2
    Rooms = {r1, r2}
    NumFds = 3
    MaxPlayers = 3
    NoOne = NoOne
SPECIFICATION Spec
SYMMETRY Symmetric
INVARIANTS TypeOK OneOwner PlayersAreWatched EntriesPointToLive
\* All clients may have come and gone.
CHECK_DEADLOCK FALSE
