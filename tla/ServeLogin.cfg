SPECIFICATION FairSpec
PROPERTIES
    HostIsTold
\* A command that is done rests.
CHECK_DEADLOCK FALSE
