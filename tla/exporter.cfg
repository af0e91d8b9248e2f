SPECIFICATION FairSpec
CONSTANTS
    None = None
    Partial = Partial
    Torn = Torn
    Spilling = {"smu"}
    StartLimit = 5
    Readings = {r1, r2}
    MaxFiles = 4
    MaxFailures = 2
    MaxKills = 1
INVARIANT ExporterTypeOK
INVARIANT PublishedIsWhole
PROPERTY DownIsVisible
PROPERTY ReadingIsPublished
PROPERTY StopIsHeeded
CHECK_DEADLOCK FALSE
