SPECIFICATION Spec
CONSTANTS
    c1 = c1
    gemAdminWs = gemAdminWs
    r1 = r1
    r2 = r2
    NoRecord = NoRecord
    WorkstationName = gemAdminWs
    Names <- OneName
    Requests <- TeardownRequests
    Records <- TwoRecords
    MockModes <- RealRunner
    LogDirMayBreak = TRUE
    ServerMayStop = FALSE
INVARIANTS
    ActiveHasDriver
CHECK_DEADLOCK FALSE
