SPECIFICATION FairSpec
CONSTANTS
    NULL = NULL
    c1 = c1
    c2 = c2
    Conn <- Two
    Message <- FullMessages
    Stored <- Logs
    N = 2
    BUFFER_SIZE = 8
    NUM_SIZE = 3
    Behind <- DescriptorByte
PROPERTIES
    EveryClientAnswered
CHECK_DEADLOCK FALSE
