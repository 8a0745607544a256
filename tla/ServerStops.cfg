SPECIFICATION ActiveSpec
CONSTANTS
    NULL = NULL
    c1 = c1
    c2 = c2
    c3 = c3
    Conn <- Two
    MaxFd = 2
PROPERTIES
    ServerStops
    FinishedThreadsReaped
CHECK_DEADLOCK FALSE
