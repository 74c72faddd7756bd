CONSTANTS
    num_tx_list <- MC_num_tx_list
    num_trials <- MC_num_trials
    BlockSizes <- MC_BlockSizes
    NoFile = NoFile
SPECIFICATION Spec
INVARIANTS
    TypeOK
    ShortfallIsFailures
    SavedCoversEveryRun
PROPERTIES
    RetrySchedule
    ImplementsSweep
\* The program exits after saving or after an uncaught error.
CHECK_DEADLOCK FALSE
