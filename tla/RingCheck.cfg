SPECIFICATION Spec
CONSTANTS
    N = 10
    NULL = NULL
    MaxSize = 2
INVARIANTS
    TypeOK
    HoldsMostRecent
    FindMatchesConcatenation
    SumsMatchConcatenation
