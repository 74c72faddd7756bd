CONSTANTS
    cvxpy_10 = cvxpy_10
    tatonnement_10 = tatonnement_10
    Lines <- MC_Lines
    TxCounts = {100, 500}
    Runtimes = {1, 2}
    NumTrials = 2
    MaxLevels = 2
    NoFile = NoFile
SPECIFICATION Spec
INVARIANTS
    TypeOK
    MeanOverCompletedTrials
\* The script exits after saving the figure or at an uncaught exception.
CHECK_DEADLOCK FALSE
