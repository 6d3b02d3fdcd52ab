CONSTANTS
    p1 = p1
    p2 = p2
    p3 = p3
    p4 = p4
    mover = p1
    watcher = p2
    leaver = p3
    far = p4
    Players = {p1, p2, p3, p4}
    Clients = {p1, p2}
    Floor <- SmallFloor
    Soft <- SmallSoft
    Start <- SmallStart
    BombReach = 3
    AtomicReach = 5
    Lives = 2
    History = 3
    Garbage = {4}
    Ghosts <- Namesake
    Leavers = {p3}
    Movers = {p1}
    MaxMoves = 3
    MaxBombs = 1
SPECIFICATION Spec
INVARIANTS TypeOK StandFree SpectatorsAgree SelfAgrees ListsAgree CorrectionFindsItsPlayer MapsAgree
PROPERTIES BlastsAreAsDefined
\* The bounds on moves and bombs are reached.
CHECK_DEADLOCK FALSE
