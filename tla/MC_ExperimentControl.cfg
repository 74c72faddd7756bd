CONSTANTS
    NumNodes = 6
    Invocations <- MC_Invocations
SPECIFICATION Spec
INVARIANTS
    TypeOK
    NoSilentHalfTeardown
\* A script ends: it exits, or an exception ends it.
CHECK_DEADLOCK FALSE
