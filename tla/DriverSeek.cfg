SPECIFICATION Spec
CONSTANTS
    N = 2
    NULL = NULL
    ZERO_SIZE_PTR = ZERO_SIZE_PTR
    Freed = Freed
    p1 = p1
    p2 = p2
    f1 = f1
    f2 = f2
    a = a
    nl = nl
    m1 = m1
    m2 = m2
    m3 = m3
    m4 = m4
    NL = nl
    Proc <- Procs2
    File = {f1}
    Uses <- Shared
    Ptr <- Ptrs4
    Byte <- Bytes2
    Payload <- Commands
    ReadCount = {2}
    Seek <- RelativeSeeks
    SeekTo <- SeekTos
    MaxPartial = 0
SYMMETRY Symmetric
INVARIANTS
    LockDiscipline
PROPERTIES
    SeeksLandOnBytes
    ReadDeliversStream
