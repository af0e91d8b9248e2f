SPECIFICATION Spec
CONSTANTS
    None = none
    TRANSPORTS <- SoloAndUsb4
    MODELS <- OneModel
    CONCURRENCIES = {1, 2}
    SAMPLE_CASES = 0
    RESUME = TRUE
    MaxInvocations = 1
    Events <- Outcomes
    MaxEvents = 1
INVARIANT StartFailureIsSkipped
CHECK_DEADLOCK FALSE
