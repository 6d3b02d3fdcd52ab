CONSTANTS
    r1 = r1
    Rooms = {r1}
    Clients = 0
    MaxBombs = 2
    MaxPending = 2
SPECIFICATION FairSpec

PROPERTIES EveryBombExplodes
\* Rooms end, bombs run out and the process may end.
CHECK_DEADLOCK FALSE
