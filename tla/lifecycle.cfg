\* Sixteen environments, each with at most three requests beside the sweeper.
SPECIFICATION FairSpec
CONSTANTS
    Envs <- AllEnvs
    MaxDeaths = 1
INVARIANTS
    TypeOK
    ResizeExclusive
    BigIsTemporary
PROPERTIES
    NoMachineAbandoned
    KeepsWork
    UpgradeEnds
\* Requests are answered and no more are made.
CHECK_DEADLOCK FALSE
