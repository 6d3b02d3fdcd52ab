CONSTANTS
    Clients = {1, 2, 3, 4}
    Watched = {1}
    Names = {1, 2, 3, 4}
    NameChoices <- Sharing
    MaxPlayers = 4
SPECIFICATION FairSpec
INVARIANTS TypeOK SelfFirst RosterAgrees WinnerKnown
PROPERTIES NothingLeftBehind MatchSpec
\* A match that is over takes no more steps.
CHECK_DEADLOCK FALSE
