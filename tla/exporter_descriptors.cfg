SPECIFICATION FairSpec
CONSTANTS
    None = None
    Partial = Partial
    Torn = Torn
    Spilling = {"smu"}
    StartLimit = 5
    Readings = {r1}
    MaxFiles = 3
    MaxFailures = 3
    MaxKills = 0
PROPERTY DownIsVisible
CHECK_DEADLOCK FALSE
