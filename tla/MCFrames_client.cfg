CONSTANTS
    Sizes = {1, 2, 4, 5}
    BufSize = 6
    MaxMsgs = 3
    Drains = TRUE
    EdgeTriggered = FALSE
SPECIFICATION FairSpec
INVARIANTS TypeOK
PROPERTIES PipeSpec EveryMessageArrives EofIsNoticed
\* A connection that has ended takes no more steps.
CHECK_DEADLOCK FALSE
