SPECIFICATION FairSpec
CONSTANTS
    Job = {j1, j2}
    MaxAttempts = 2
    MaxConcurrent = 1
    MaxDeaths = 3
    Envs = {{j1, j2, "submit", "die"},
            {j1, "submit", "withdraw", "die", "mongo"},
            {j1, j2, "submit", "cancel", "restart", "refuse"},
            {j1, j2, "submit", "enqueue", "killFails"},
            {j1, j2, "submit", "enqueue", "cancel"}}
INVARIANTS TypeOK BoundedRuns JobAccounted SlotsHonest
PROPERTIES OutcomeFinal JobSettles 
CHECK_DEADLOCK FALSE
