SPECIFICATION FairSpec
CONSTANTS
    Client = c
    Server = s
    OldCookie = old
    Transfers <- Exchange
    AckEvery <- Each1
    AckWindow <- Each1
    SendAck <- EachTrue
    WaitAck <- EachTrue
    TxDepth = 6
    MaxRetries = 2
    StaleTraffic <- Leftovers
    MaxLoss = 2
    MaxErrors = 1
    Patient = FALSE
INVARIANT RetransmitsAwaited
INVARIANT NeverOutOfOrder
PROPERTY CallsReadTheirOwn
PROPERTY ImplementsStream
PROPERTY FailureIsNoticed
CHECK_DEADLOCK FALSE
