SPECIFICATION FairSpec
CONSTANTS
    None = none
    TRANSPORTS <- SoloAndUsb4
    MODELS <- OneModel
    CONCURRENCIES = {1, 2}
    SAMPLE_CASES = 0
    RESUME = TRUE
    MaxInvocations = 2
    Events <- Outcomes
    MaxEvents = 1
INVARIANT TypeOK
INVARIANT MeasuredOnOwnServer
INVARIANT NoServerLeft
INVARIANT EachServerStartedOnce
INVARIANT NeverRepeated
INVARIANT CompleteOnSuccess
PROPERTY InvocationEnds
CHECK_DEADLOCK FALSE
