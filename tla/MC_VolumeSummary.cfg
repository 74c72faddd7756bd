CONSTANTS
    NumBlocks = 2
    num_assets = 2
    AssetIds = {0, 1, 2}
    Amounts = {1, 2}
    MaxTxs = 2
    NoFile = NoFile
SPECIFICATION Spec
INVARIANTS
    TypeOK
    SnapshotsAreBlockVolumes
\* The script exits after saving or at an uncaught exception.
CHECK_DEADLOCK FALSE
