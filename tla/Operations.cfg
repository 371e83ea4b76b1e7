SPECIFICATION Spec
CONSTANTS
    c1 = c1
    gemAdminWs = gemAdminWs
    r1 = r1
    r2 = r2
    NoRecord = NoRecord
    WorkstationName = gemAdminWs
    Names <- TwoNames
    Requests <- MixedRequests
    Records <- TwoRecords
    MockModes <- RealRunner
    LogDirMayBreak = FALSE
    ServerMayStop = TRUE
INVARIANTS
    TypeOK
    ActiveIsCurrent
    NoZombieTask
    StaleProcessIsDoomed
    SucceededRanAll
PROPERTIES
    TerminalIsFinal
    ImplementsLifecycle
SYMMETRY RecordSymmetry
CHECK_DEADLOCK FALSE
