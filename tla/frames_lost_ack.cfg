SPECIFICATION Spec
CONSTANTS
    Client = c
    Server = s
    OldCookie = old
    Transfers <- Exchange
    AckEvery <- Each1
    AckWindow <- Each1
    SendAck <- EachTrue
    WaitAck <- EachTrue
    TxDepth = 8
    MaxRetries = 1
    StaleTraffic <- Clean
    MaxLoss = 1
    MaxErrors = 0
    Patient = TRUE
INVARIANT LossIsRetransmitted
CHECK_DEADLOCK FALSE
