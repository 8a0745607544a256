SPECIFICATION Spec
CONSTANTS
    NULL = NULL
    c1 = c1
    c2 = c2
    c3 = c3
    Conn <- Three
    MaxFd = 2
SYMMETRY Symmetric
INVARIANTS
    TypeOK
    ThreadMemorySafe
    ListExact
    ListWalkSafe
    ServesListening
    DeviceExclusive
    DescriptorsOwn
    DescriptorsReturned
CHECK_DEADLOCK FALSE
