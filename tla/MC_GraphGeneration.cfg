CONSTANTS
    r1 = r1
    r2 = r2
    Files <- MC_Files
    MaxRounds = 2
    MaxTxPoints = 2
    NoFile = NoFile
    ParamSets <- MC_ParamSets
    Schemas <- MC_Schemas
SPECIFICATION Spec
INVARIANTS
    TypeOK
    SavedFiguresMatchRuns
    ComparedRunsShareParams
\* The script exits after its last figure or at an uncaught exception.
CHECK_DEADLOCK FALSE
