SPECIFICATION Spec
CONSTANTS
  d1 = d1
  d2 = d2
  d3 = d3
  t1 = t1
  t2 = t2
  Msg = {m1, m2}
  Daemon = {d1, d2}
  Card = {c1}
  Tab = {t1, t2}
  MaxAttempts = 2
  MaxFaults = 2
  MaxOps = 1
  Envs = {{"relay", "die", "mongo", "lose"}, {"relay", "crash", "yaml", "throw", "lose"},
          {"settings"}, {"relay", "evict", "lose"}, {"cap", "mongo"},
          {"cards", "die"}}
INVARIANTS TypeOK OneLiveDaemon  CardOnce
PROPERTIES EventuallyRead
CHECK_DEADLOCK FALSE
