SPECIFICATION FairSpec
CONSTANTS
    client = client
    same = same
    other = other
    Clients <- OneClient
    Texts <- LineTexts
    BufferSize = 2
    QueueSize = 2
    MaxLines = 4
PROPERTIES
    StreamsUntilFinished
CHECK_DEADLOCK FALSE
