CONSTANTS
    r1 = r1
    r2 = r2
    Rooms = {r1, r2}
    Clients = 1
    MaxBombs = 3
    MaxPending = 2
SPECIFICATION FairSpec
INVARIANTS TypeOK OneBombPerTimer BombHasTimer NoTimerLeak
PROPERTIES BombsExplodeUntilReuse
\* Rooms end, bombs run out and the process may end.
CHECK_DEADLOCK FALSE
