SPECIFICATION Spec
CONSTANTS
    Client = c
    Server = s
    OldCookie = old
    Transfers <- Windowed
    AckEvery <- Each2
    AckWindow <- Each4
    SendAck <- EachTrue
    WaitAck <- EachTrue
    TxDepth = 8
    MaxRetries = 2
    StaleTraffic <- Clean
    MaxLoss = 2
    MaxErrors = 0
    Patient = FALSE
INVARIANT ExactlyOnceInOrder
INVARIANT WindowRespected
INVARIANT SendReturnsAccepted
PROPERTY CallsReadTheirOwn
CHECK_DEADLOCK FALSE
