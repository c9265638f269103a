SPECIFICATION Spec
CONSTANTS
  a1 = a1
  a2 = a2
  j1 = j1
  Agent = {a1, a2}
  Job = {j1}
  Owner <- MCOwner
  BootCap = 2
  Ceiling = 3
  AddUsd = 1
  TurnLimit = 3
  LifeLimit = 4
  MaxTurns = 2
  MaxCalls = 5
  MaxOps = 1
  MaxFaults = 2
  FailClosedAfter = 2
  Envs = {{a1, a2},
          {a1, j1, "operator"},
          {a1, j1, "die"},
          {a1, "reflect", "tool", "die", "save"},
          {a1, "mongo", "die"},
          {a1, j1, "mongo"}}
INVARIANTS TypeOK BookedOnce  PauseJustified
CHECK_DEADLOCK FALSE
