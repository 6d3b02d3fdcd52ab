CONSTANTS
    MaxWork = 1
SPECIFICATION FairSpec
PROPERTIES StoppedIsCleanedUp
\* A process that has ended takes no more steps.
CHECK_DEADLOCK FALSE
