SPECIFICATION FairSpec
CONSTANTS
    NAgents = 2
    Msg = {m1, m2}
    Inactive = {}
    MaxRuns = 3
    Envs = {{m1, m2, "step"},
            {m1, m2, "stopRoute"},
            {m1, "llmError", "budget", "stopRoute"},
            {m1, "pause", "step", "sigterm"},
            {m1, "stream", "crash", "sigterm", "stopRoute"}}
PROPERTIES MailEventuallyRead StopEnds
CHECK_DEADLOCK FALSE
