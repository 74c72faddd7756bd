CONSTANTS
    Values = {0, 1, 2}
    Missing = Missing
    ParamSets <- MC_ParamSets
    MaxRounds = 3
    NoFile = NoFile
    Calls = {"ratio", "compare"}
SPECIFICATION Spec
INVARIANTS
    TypeOK
    SmoothedIsExponentialAverage
\* The script exits after saving the figure or at an uncaught exception.
CHECK_DEADLOCK FALSE
