SPECIFICATION FairClientSpec
CONSTANTS
    None = none
    Case = case
    Invocations <- UpToThree
    Events <- SomeEvents
    MaxEvents = 2
INVARIANT NoHeadStart
INVARIANT RowTellsWhatWasServed
PROPERTY ClientFinishes
CHECK_DEADLOCK FALSE
