SPECIFICATION FairSpec
CONSTANTS
    Thread = {t1, t2, t3}
    CALLER = CALLER
    NULL = NULL
INVARIANTS
    TypeOK
    HoldsUntilRelease
    DataHandedOver
PROPERTIES
    EveryThreadFinishes
CHECK_DEADLOCK FALSE
