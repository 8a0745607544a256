SPECIFICATION FairSpec
CONSTANTS
    NULL = NULL
    c1 = c1
    c2 = c2
    c3 = c3
    Conn <- Two
    MaxFd = 2
PROPERTIES
    ServerStops
CHECK_DEADLOCK FALSE
