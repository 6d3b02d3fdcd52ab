CONSTANTS
    Sizes = {1, 2}
    BufSize = 4
    MaxMsgs = 2
    Drains = TRUE
    EdgeTriggered = FALSE
SPECIFICATION FairSpec
PROPERTIES EverySizeArrives
\* A connection that has ended takes no more steps.
CHECK_DEADLOCK FALSE
