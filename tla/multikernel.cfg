SPECIFICATION FairSpec
CONSTANTS
    None = None
    Instance = {blue, red}
    StartAtBoot = {red}
    Ctl = {c1, c2}
INVARIANT UnitsMatchKernel
PROPERTY CommandsReturn
CHECK_DEADLOCK FALSE
