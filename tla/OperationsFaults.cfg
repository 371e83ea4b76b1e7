SPECIFICATION Spec
CONSTANTS
    c1 = c1
    gemAdminWs = gemAdminWs
    r1 = r1
    r2 = r2
    NoRecord = NoRecord
    WorkstationName = gemAdminWs
    Names <- TwoNames
    Requests <- SharedNameRequests
    Records <- TwoRecords
    MockModes <- AnyRunner
    LogDirMayBreak = TRUE
    ServerMayStop = FALSE
INVARIANTS
    ActiveIsCurrent
    FaultsStayLocal
SYMMETRY RecordSymmetry
CHECK_DEADLOCK FALSE
