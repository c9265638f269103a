SPECIFICATION Spec
CONSTANTS
    NAgents = 2
    Msg = {m1, m2}
    Inactive = {}
    MaxRuns = 3
    Envs = {{m1, m2, "llmError"},
            {m1, m2, "stream"},
            {m1, m2, "mongo", "crash"},
            {m1, m2, "pause", "step"},
            {m1, m2, "budget", "sigterm"},
            {m1, m2, "step", "stopRoute"},
            {m1, m2, "cli"}}
SYMMETRY MsgSymmetry
INVARIANTS TypeOK OnePass OneTurnPerAgent MailAccounted QuietMeansDrained
PROPERTIES DeliveryKept
CHECK_DEADLOCK FALSE
