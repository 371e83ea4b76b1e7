SPECIFICATION Spec
CONSTANTS
    c1 = c1
    gemAdminWs = gemAdminWs
    r1 = r1
    r2 = r2
    NoRecord = NoRecord
    WorkstationName = gemAdminWs
    Names <- OneName
    Requests <- TeardownRequests
    Records <- TwoRecords
    MockModes <- RealRunner
    LogDirMayBreak = FALSE
    ServerMayStop = FALSE
INVARIANTS
    OneProcessPerResource
CHECK_DEADLOCK FALSE
