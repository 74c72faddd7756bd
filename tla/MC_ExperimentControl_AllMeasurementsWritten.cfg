CONSTANTS
    NumNodes = 4
    Invocations <- MC_RunExperiment
SPECIFICATION Spec
PROPERTY
    AllMeasurementsWritten
\* A script ends: it exits, or an exception ends it.
CHECK_DEADLOCK FALSE
