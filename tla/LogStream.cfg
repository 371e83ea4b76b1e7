SPECIFICATION FairSpec
CONSTANTS
    client = client
    same = same
    other = other
    Clients <- OneClient
    Texts <- LineTexts
    BufferSize = 2
    QueueSize = 2
    MaxLines = 4
INVARIANTS
    TypeOK
    SentinelKept
    InOrder
    LossIsAccounted
PROPERTIES
    StreamEnds
CHECK_DEADLOCK FALSE
