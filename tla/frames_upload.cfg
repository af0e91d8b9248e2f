SPECIFICATION FairSpec
CONSTANTS
    Client = c
    Server = s
    OldCookie = old
    Transfers <- Upload
    AckEvery <- Each1
    AckWindow <- Each1
    SendAck <- EachTrue
    WaitAck <- EachTrue
    TxDepth = 8
    MaxRetries = 2
    StaleTraffic <- Clean
    MaxLoss = 2
    MaxErrors = 0
    Patient = TRUE
PROPERTY CallsComplete
CHECK_DEADLOCK FALSE
