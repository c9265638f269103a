SPECIFICATION Spec
CONSTANTS
  d1 = d1
  d2 = d2
  d3 = d3
  t1 = t1
  t2 = t2
  Msg = {m1, m2}
  Daemon = {d1, d2}
  Card = {c1}
  Tab = {t1, t2}
  MaxAttempts = 2
  MaxFaults = 2
  MaxOps = 2
  Envs = {{"settings"}}
INVARIANT OneTurn
CHECK_DEADLOCK FALSE
