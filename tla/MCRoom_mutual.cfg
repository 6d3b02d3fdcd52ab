CONSTANTS
    a = a
    b = b
    c = c
    Names = {a, b, c}
    MaxPlayers = 3
    StarterLives = 1
    MaxBombs = 2
SPECIFICATION Spec

PROPERTIES MutualWinnerWasAlive
\* A finished room takes no more steps.
CHECK_DEADLOCK FALSE
