CONSTANTS
    Metrics = {0, 1, 2}
    MaxLines = 3
    NoReport = NoReport
SPECIFICATION Spec
INVARIANTS
    TypeOK
    SummaryMatchesLog
\* The script exits after printing or at an uncaught exception.
CHECK_DEADLOCK FALSE
