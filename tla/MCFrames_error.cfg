CONSTANTS
    Sizes = {1}
    BufSize = 4
    MaxMsgs = 2
    Drains = TRUE
    EdgeTriggered = FALSE
SPECIFICATION FairSpec
PROPERTIES ErrorReturnsNothing
\* A connection that has ended takes no more steps.
CHECK_DEADLOCK FALSE
