SPECIFICATION Spec
CONSTANTS
    Envs <- TwoLaunches
    MaxDeaths = 0
INVARIANT OneVolume
CHECK_DEADLOCK FALSE
