CONSTANTS
    Sizes = {1}
    BufSize = 4
    MaxMsgs = 2
    Drains = FALSE
    EdgeTriggered = TRUE
SPECIFICATION FairSpec
PROPERTIES EveryMessageArrives
\* A connection that has ended takes no more steps.
CHECK_DEADLOCK FALSE
