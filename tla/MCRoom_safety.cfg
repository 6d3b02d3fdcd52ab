CONSTANTS
    a = a
    b = b
    c = c
    d = d
    Names = {a, b, c, d}
    MaxPlayers = 4
    StarterLives = 1
    MaxBombs = 1
SPECIFICATION FairSpec
INVARIANTS TypeOK StateMatchesCounts TwoAliveOrBomb ColorsDistinct
PROPERTIES MarkedAreGone MatchSpec FewAliveEnds
\* A finished room takes no more steps.
CHECK_DEADLOCK FALSE
