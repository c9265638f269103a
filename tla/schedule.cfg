CONSTANTS
  msg = msg
  job = job
  once = once
  Spec = {msg, job, once}
  JobSpec = {job}
  Once = {once}
  NextDue <- MCNextDue
  Horizon = 4
  Lease = 1
  Late = 1
  MaxAttempts = 1
  MaxEdits = 2
  MaxCancels = 1
  MaxFaults = 2
SPECIFICATION FairSpec
CHECK_DEADLOCK FALSE
INVARIANTS TypeOK  DueNotLost 
 
