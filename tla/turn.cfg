SPECIFICATION Spec
CONSTANTS
  MaxTries = 2
  MaxCalls = 2
  MaxRuns = 3
  MaxDocs = 7
  MaxEdits = 2
  MaxNotes = 1
  MaxSubs = 2
  MaxFaults = 2
  Envs = {{"die", "reflect", "edit"}, {"mongo", "reflect", "edit"}, {"research", "limit"},
          {"error", "abort", "edit", "die"}, {"reject", "reflect", "edit"}}
INVARIANTS TypeOK HistoryReplays  TurnsApart MapKept
CHECK_DEADLOCK FALSE
