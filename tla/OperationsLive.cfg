SPECIFICATION FairSpec
CONSTANTS
    c1 = c1
    gemAdminWs = gemAdminWs
    r1 = r1
    r2 = r2
    NoRecord = NoRecord
    WorkstationName = gemAdminWs
    Names <- OneName
    Requests <- BuildAndTeardown
    Records <- TwoRecords
    MockModes <- RealRunner
    LogDirMayBreak = FALSE
    ServerMayStop = FALSE
PROPERTIES
    OperationEnds
    CancelStopsProcess
CHECK_DEADLOCK FALSE
