SPECIFICATION Spec
CONSTANTS
    strix = strix
    navi = navi
    vega = vega
    cp312 = cp312
    cp313 = cp313
    None = None
    Torn = Torn
    Unresolved = Unresolved
    MaxRuns = 2
    BasePackages = {"rocm", "rocm-bootstrap", "torch"}
    SdkProjects = {"rocm", "rocm-sdk"}
    TorchFamily <- MCTorchFamily
    DefaultSeries <- MCDefaultSeries
    DefaultSourceSeries <- MCDefaultSeries
    WheelPages <- MCWheelPages
    TargetSlugs <- MCTargetSlugs
    TarballFiles <- MCTarballFiles
    Repository <- MCRepository
    Heads <- MCHeads
    EsmiTags <- MCEsmiTags
    DefaultPolicy <- MCDefaultPolicy
    RootUrl = "therock"
    EsmiUrl = "esmi"
    CheckedIn <- MCCheckedIn
    ByHand <- MCByHand
    FlakeTargets <- MCFlakeTargets
    PythonTag = cp313
INVARIANT StackTypeOK
INVARIANT DoneIsConsistent
INVARIANT GraphIsGitsOwn
INVARIANT StagedIsWhole
INVARIANT HashIsOfItsSource
INVARIANT ChosenVersionIsInstallable
INVARIANT WheelsFitTogether
INVARIANT DeviceWheelsFollowTorch
INVARIANT LeftoversDoNotBlock
PROPERTY TargetsKeepTheirSeries
PROPERTY RefreshTakesNewest
CHECK_DEADLOCK FALSE
