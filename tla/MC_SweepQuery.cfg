CONSTANTS
    Files = {f1, f2, other}
    ResultFiles = {f1, f2}
    Taxes <- MC_Taxes
    Mults <- MC_Mults
    TxCounts <- MC_TxCounts
    TxList1 <- MC_TxList1
    TxList2 <- MC_TxList2
    NumTrials = 2
    MaxRecords = 2
SPECIFICATION Spec
INVARIANTS
    TypeOK
    StrictPointsAreCompleteGroups
    NoCompleteGroupDropped
    XAscending
    DuplicateKeyNeverSaved
\* The script ends after its last figure or at an uncaught exception.
CHECK_DEADLOCK FALSE
