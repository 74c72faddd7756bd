CONSTANTS
    num_tx_list <- MC_num_tx_list
    num_trials <- MC_num_trials
    BlockSizes <- MC_BlockSizes
    NoFile = NoFile
SPECIFICATION Spec
INVARIANT
    OnlyOptimalSolvesMeasured
\* The program exits after saving or at an uncaught exception.
CHECK_DEADLOCK FALSE
