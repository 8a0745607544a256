SPECIFICATION Spec
CONSTANTS
    MaxCalls = 3
    Used = {"do_system", "do_exec", "do_exec_redirect"}
INVARIANTS
    ExecResultTrue
    PrintedOnce
    CommandRedirected
    OutputClosed
    TypeOK
CHECK_DEADLOCK FALSE
